------------------------ MODULE IsisAdjacencyProofs ------------------------
(***************************************************************************)
(* What a router keeps about its ISIS neighbours agrees, for any           *)
(* interfaces, neighbours and links, and after any number of steps:        *)
(* adjacencies with their timers and jobs, interface groups, ARP entries,  *)
(* the reconciliation timer and the LSP.                                   *)
(*                                                                         *)
(* Two facts depend on the topology.  That no group is missing when an     *)
(* adjacency is deleted, and that a flood reaches every neighbour, hold    *)
(* only if a neighbour heard on two interfaces is alone on each of them    *)
(* ("ParallelPointToPoint"): IsisAdjacency_group.cfg shows the assertion   *)
(* of the code failing on two LANs.                                        *)
(***************************************************************************)
EXTENDS IsisAdjacency, ListLemmas

ParallelPointToPoint ==
  \A i, j \in Intfs, n, m \in Nbrs :
    i # j /\ <<i, n>> \in Links /\ <<j, n>> \in Links /\ <<i, m>> \in Links => m = n

------------------------------------------------------------------------------
(* The inductive invariants *)

TypeInv == TypeOK

\* The list of an interface holds its adjacencies, each once.
ListSound ==
  \A i \in Intfs :
    /\ IsInjective(list[i])
    /\ \A n \in Nbrs : n \in ToSet(list[i]) <=> <<i, n>> \in Links /\ state[i, n] # "none"

\* A timer job is queued for an adjacency that exists.
JobSound == \A a \in Links : job[a] \in {"expire", "delete"} => state[a] # "none"

\* Each adjacency has the timer of its state, and a timer that fired its job.
AdjTimers ==
  \A a \in Links :
    /\ exp[a] # "off" <=> state[a] \in {"INIT", "UP"}
    /\ del[a] # "off" <=> state[a] = "DOWN"
    /\ exp[a] = "fired" => job[a] = "expire"
    /\ del[a] = "fired" => job[a] = "delete"

Qualified ==
  /\ \A a \in Links : state[a] # "none" => Qualifies(a[1])
  /\ \A i \in Intfs : hello[i] <=> Qualifies(i)

\* The two ends of group membership agree.
Membership ==
  \A i \in Intfs, n \in Nbrs : grp[i] = n <=> i \in ToSet(members[n])

MemberOnce == \A n \in Nbrs : IsInjective(members[n])

GroupAlive ==
  \A i \in Intfs, n \in Nbrs :
    grp[i] = n => n \in groups /\ <<i, n>> \in Links /\ state[i, n] # "none"

Mapping == EntriesLive /\ EntriesPresent

ReconTimer == /\ recon <=> reconTimer # "off"
              /\ reconTimer = "fired" => reconJob

\* Until on-demand flooding is first switched off, it is on together with
\* periodic flooding.
FloodMode == (onDemand /\ periodic) \/ lost

Complete == ~genTask /\ ~recon /\ ~lost => Advertised \subseteq lsp

Safe == /\ ListSound /\ JobSound /\ AdjTimers /\ Qualified /\ Membership /\ MemberOnce
        /\ GroupAlive /\ Mapping /\ ReconTimer /\ FloodMode /\ Complete

IInv == TypeInv /\ (broken = "no" => Safe)

\* Interface i hears nobody but n.
Alone(i, n) == <<i, n>> \in Links /\ \A m \in Nbrs : <<i, m>> \in Links => m = n

\* Every adjacency has its group, and is in it if alone on its interface.
Grouped ==
  \A i \in Intfs, n \in Nbrs :
    <<i, n>> \in Links /\ state[i, n] # "none"
      => n \in groups /\ (Alone(i, n) => grp[i] = n)

\* The members whose adjacency is up stand before the others.
Ordered ==
  \A n \in Nbrs : \A x, y \in ToSet(members[n]) :
    Before(members[n], x, y) /\ state[y, n] = "UP" => state[x, n] = "UP"

PInv == AssertsHold /\ (broken = "no" => Grouped /\ Ordered)

------------------------------------------------------------------------------
(* The parts of handlers *)

LEMMA WrapType == Wrap \in Nat /\ Wrap > 0
  BY SMT DEF Wrap

\* The counter keeps its width.
LEMMA UpCountLessType ==
  ASSUME upCount \in 0..(Wrap - 1), NEW k \in Nat
  PROVE  UpCountLess(k) \in 0..(Wrap - 1)
  <1>1. ASSUME NEW w \in Nat, w > 0, NEW u \in 0..(w - 1)
        PROVE  (u + w - k) % w \in 0..(w - 1)
    <2>1. ASSUME NEW x \in Int
          PROVE  x % w \in 0..(w - 1)
      BY <1>1
    <2> QED BY <2>1
  <1> QED BY <1>1, WrapType DEF UpCountLess

\* An interface leaves every list.
LEMMA LeaveProperties ==
  ASSUME TypeInv, NEW i \in Intfs, NEW r,
         r = [n \in Nbrs |-> RemoveFirst(members[n], i)]
  PROVE  /\ r \in [Nbrs -> Seq(Intfs)]
         /\ \A n \in Nbrs : r[n] = RemoveFirst(members[n], i)
         /\ MemberOnce => \A n \in Nbrs :
              /\ IsInjective(r[n]) /\ ToSet(r[n]) = ToSet(members[n]) \ {i}
              /\ \A x, y : Before(r[n], x, y) => x # i /\ y # i /\ Before(members[n], x, y)
  <1>1. ASSUME NEW n \in Nbrs
        PROVE  r[n] = RemoveFirst(members[n], i) /\ members[n] \in Seq(Intfs)
    <2>1. members \in [Nbrs -> Seq(Intfs)]
      BY DEF TypeInv, TypeOK
    <2> QED BY <2>1
  <1>2. r \in [Nbrs -> Seq(Intfs)]
    BY <1>1, RemoveFirstProperties
  <1>3. ASSUME MemberOnce, NEW n \in Nbrs
        PROVE  /\ IsInjective(r[n]) /\ ToSet(r[n]) = ToSet(members[n]) \ {i}
               /\ \A x, y : Before(r[n], x, y) => x # i /\ y # i /\ Before(members[n], x, y)
    <2>1. /\ IsInjective(r[n]) /\ ToSet(r[n]) = ToSet(members[n]) \ {i}
          /\ \A x, y : Before(r[n], x, y) => Before(members[n], x, y)
      BY <1>1, <1>3, RemoveFirstProperties DEF MemberOnce
    <2>2. \A x, y : Before(r[n], x, y) => x \in ToSet(r[n]) /\ y \in ToSet(r[n])
      BY DEF Before, ToSet
    <2> QED BY <2>1, <2>2
  <1> QED BY <1>1, <1>2, <1>3

\* The lists of the groups when interface i is put first, or last, in group g.
InFront(g, i) == [[n \in Nbrs |-> RemoveFirst(members[n], i)] EXCEPT ![g] = <<i>> \o @]
Back(g, i) == [[n \in Nbrs |-> RemoveFirst(members[n], i)] EXCEPT ![g] = Append(@, i)]

\* What r then says of the members of each group, and of their order.
PutFirst(r, g, i) ==
  \A n \in Nbrs :
    /\ IsInjective(r[n])
    /\ n = g => ToSet(r[n]) = ToSet(members[n]) \cup {i}
    /\ n # g => ToSet(r[n]) = ToSet(members[n]) \ {i}
    /\ \A x, y : Before(r[n], x, y) =>
         (x # i /\ y # i /\ Before(members[n], x, y)) \/ (n = g /\ x = i /\ y # i)
PutLast(r, g, i) ==
  \A n \in Nbrs :
    /\ IsInjective(r[n])
    /\ n = g => ToSet(r[n]) = ToSet(members[n]) \cup {i}
    /\ n # g => ToSet(r[n]) = ToSet(members[n]) \ {i}
    /\ \A x, y : Before(r[n], x, y) =>
         (x # i /\ y # i /\ Before(members[n], x, y)) \/ (n = g /\ x # i /\ y = i)

\* An active interface comes to stand in front of its group's list.
LEMMA RejoinFront ==
  ASSUME TypeInv, MemberOnce, NEW g \in Nbrs, NEW i \in Intfs, NEW r, r = InFront(g, i)
  PROVE  PutFirst(r, g, i)
  <1>1. PICK rest : rest = [n \in Nbrs |-> RemoveFirst(members[n], i)]
    OBVIOUS
  <1>2. /\ rest \in [Nbrs -> Seq(Intfs)]
        /\ \A n \in Nbrs :
             /\ IsInjective(rest[n]) /\ ToSet(rest[n]) = ToSet(members[n]) \ {i}
             /\ \A x, y : Before(rest[n], x, y) => x # i /\ y # i /\ Before(members[n], x, y)
    BY <1>1, LeaveProperties
  <1>3. PICK s, t : s = rest[g] /\ t = <<i>> \o s
    OBVIOUS
  <1>4. s \in Seq(Intfs)
    BY <1>2, <1>3
  <1>5. r = [rest EXCEPT ![g] = t]
    BY <1>1, <1>2, <1>3 DEF InFront
  <1>6. /\ t \in Seq(Intfs) /\ ToSet(t) = ToSet(s) \cup {i}
        /\ IsInjective(s) /\ i \notin ToSet(s) => IsInjective(t)
        /\ \A x, y : Before(t, x, y) => Before(s, x, y) \/ (x = i /\ y \in ToSet(s))
    BY <1>3, <1>4, ConsElements
  <1>7. ASSUME NEW n \in Nbrs
        PROVE  /\ IsInjective(r[n])
               /\ n = g => ToSet(r[n]) = ToSet(members[n]) \cup {i}
               /\ n # g => ToSet(r[n]) = ToSet(members[n]) \ {i}
               /\ \A x, y : Before(r[n], x, y) =>
                    (x # i /\ y # i /\ Before(members[n], x, y)) \/ (n = g /\ x = i /\ y # i)
    <2>1. CASE n # g
      <3>1. r[n] = rest[n]
        BY <1>2, <1>5, <2>1
      <3> QED BY <1>2, <2>1, <3>1
    <2>2. CASE n = g
      <3>1. /\ IsInjective(s) /\ ToSet(s) = ToSet(members[n]) \ {i}
            /\ \A x, y : Before(s, x, y) => x # i /\ y # i /\ Before(members[n], x, y)
        BY <1>2, <1>3, <2>2
      <3>2. r[n] = t
        BY <1>2, <1>5, <2>2
      <3> QED BY <1>6, <2>2, <3>1, <3>2
    <2> QED BY <2>1, <2>2
  <1> QED BY <1>7 DEF PutFirst

LEMMA FrontType ==
  ASSUME TypeInv, NEW g \in Nbrs, NEW i \in Intfs
  PROVE  InFront(g, i) \in [Nbrs -> Seq(Intfs)]
  <1>1. PICK rest : rest = [n \in Nbrs |-> RemoveFirst(members[n], i)]
    OBVIOUS
  <1>2. rest \in [Nbrs -> Seq(Intfs)]
    BY <1>1, LeaveProperties
  <1>3. PICK s, t : s = rest[g] /\ t = <<i>> \o s
    OBVIOUS
  <1>4. s \in Seq(Intfs)
    BY <1>2, <1>3
  <1>5. InFront(g, i) = [rest EXCEPT ![g] = t]
    BY <1>1, <1>2, <1>3 DEF InFront
  <1>6. t \in Seq(Intfs)
    BY <1>3, <1>4, ConsElements
  <1> QED BY <1>2, <1>5, <1>6

\* Another comes to stand at its end.
LEMMA RejoinBack ==
  ASSUME TypeInv, MemberOnce, NEW g \in Nbrs, NEW i \in Intfs, NEW r, r = Back(g, i)
  PROVE  PutLast(r, g, i)
  <1>1. PICK rest : rest = [n \in Nbrs |-> RemoveFirst(members[n], i)]
    OBVIOUS
  <1>2. /\ rest \in [Nbrs -> Seq(Intfs)]
        /\ \A n \in Nbrs :
             /\ IsInjective(rest[n]) /\ ToSet(rest[n]) = ToSet(members[n]) \ {i}
             /\ \A x, y : Before(rest[n], x, y) => x # i /\ y # i /\ Before(members[n], x, y)
    BY <1>1, LeaveProperties
  <1>3. PICK s, t : s = rest[g] /\ t = Append(s, i)
    OBVIOUS
  <1>4. s \in Seq(Intfs)
    BY <1>2, <1>3
  <1>5. r = [rest EXCEPT ![g] = t]
    BY <1>1, <1>2, <1>3 DEF Back
  <1>6. /\ t \in Seq(Intfs) /\ ToSet(t) = ToSet(s) \cup {i}
        /\ IsInjective(s) /\ i \notin ToSet(s) => IsInjective(t)
        /\ \A x, y : Before(t, x, y) => Before(s, x, y) \/ (y = i /\ x \in ToSet(s))
    BY <1>3, <1>4, AppendElements
  <1>7. ASSUME NEW n \in Nbrs
        PROVE  /\ IsInjective(r[n])
               /\ n = g => ToSet(r[n]) = ToSet(members[n]) \cup {i}
               /\ n # g => ToSet(r[n]) = ToSet(members[n]) \ {i}
               /\ \A x, y : Before(r[n], x, y) =>
                    (x # i /\ y # i /\ Before(members[n], x, y)) \/ (n = g /\ x # i /\ y = i)
    <2>1. CASE n # g
      <3>1. r[n] = rest[n]
        BY <1>2, <1>5, <2>1
      <3> QED BY <1>2, <2>1, <3>1
    <2>2. CASE n = g
      <3>1. /\ IsInjective(s) /\ ToSet(s) = ToSet(members[n]) \ {i}
            /\ \A x, y : Before(s, x, y) => x # i /\ y # i /\ Before(members[n], x, y)
        BY <1>2, <1>3, <2>2
      <3>2. r[n] = t
        BY <1>2, <1>5, <2>2
      <3> QED BY <1>6, <2>2, <3>1, <3>2
    <2> QED BY <2>1, <2>2
  <1> QED BY <1>7 DEF PutLast

LEMMA BackType ==
  ASSUME TypeInv, NEW g \in Nbrs, NEW i \in Intfs
  PROVE  Back(g, i) \in [Nbrs -> Seq(Intfs)]
  <1>1. PICK rest : rest = [n \in Nbrs |-> RemoveFirst(members[n], i)]
    OBVIOUS
  <1>2. rest \in [Nbrs -> Seq(Intfs)]
    BY <1>1, LeaveProperties
  <1>3. PICK s, t : s = rest[g] /\ t = Append(s, i)
    OBVIOUS
  <1>4. s \in Seq(Intfs)
    BY <1>2, <1>3
  <1>5. Back(g, i) = [rest EXCEPT ![g] = t]
    BY <1>1, <1>2, <1>3 DEF Back
  <1>6. t \in Seq(Intfs)
    BY <1>3, <1>4, AppendElements
  <1> QED BY <1>2, <1>5, <1>6

\* Interface i is placed anew in its group.
LEMMA RefreshCases ==
  ASSUME NEW i \in Intfs, RefreshGroup(i)
  PROVE  \/ grp[i] = NULL /\ members' = members
         \/ grp[i] # NULL /\ FirstUp(state', i) /\ members' = InFront(grp[i], i)
         \/ grp[i] # NULL /\ ~FirstUp(state', i) /\ members' = Back(grp[i], i)
  BY DEF RefreshGroup, Rejoin, InFront, Back

LEMMA RefreshType ==
  ASSUME TypeInv, NEW i \in Intfs, RefreshGroup(i)
  PROVE  members' \in [Nbrs -> Seq(Intfs)]
  <1>1. grp[i] \in Nbrs \cup {NULL} /\ members \in [Nbrs -> Seq(Intfs)]
    BY DEF TypeInv, TypeOK
  <1> QED BY <1>1, RefreshCases, FrontType, BackType, ZenonT(40)

\* The ARP table stays one.
LEMMA ArpTypes ==
  ASSUME arp \in [Ips -> Entries]
  PROVE  /\ \A V : Cleared(V) \in [Ips -> Entries]
         /\ \A v \in Ips, a \in Links : Entered(v, a) \in [Ips -> Entries]
         /\ NoEntry \in Entries /\ [adj |-> NULL, sane |-> TRUE] \in Entries
  <1>1. NoEntry \in Entries /\ [adj |-> NULL, sane |-> TRUE] \in Entries
    BY DEF NoEntry, Entries
  <1>2. \A V : Cleared(V) \in [Ips -> Entries]
    BY <1>1 DEF Cleared
  <1>3. ASSUME NEW v \in Ips, NEW a \in Links PROVE Entered(v, a) \in [Ips -> Entries]
    <2>1. arp[v].sane \in BOOLEAN
      BY DEF Entries
    <2>2. [adj |-> a, sane |-> arp[v].sane] \in Entries
      BY <2>1 DEF Entries
    <2> QED BY <2>2 DEF Entered
  <1> QED BY <1>1, <1>2, <1>3

\* The types of what GoDown and Free assign.
LEMMA GoDownType ==
  ASSUME TypeInv, NEW a \in Links, GoDown(a)
  PROVE  /\ state' \in [Links -> {"none", "DOWN", "INIT", "UP"}]
         /\ exp' \in [Links -> Timer] /\ del' \in [Links -> Timer]
         /\ members' \in [Nbrs -> Seq(Intfs)]
         /\ upCount' \in 0..(Wrap - 1) /\ arp' \in [Ips -> Entries]
         /\ recon' \in BOOLEAN /\ reconTimer' \in Timer /\ genTask' \in BOOLEAN
         /\ broken' \in {"no", "assert", "null", "uaf"}
  <1>1. a[1] \in Intfs
    BY AdjacencyAssumption
  <1>2. /\ state' \in [Links -> {"none", "DOWN", "INIT", "UP"}]
        /\ exp' \in [Links -> Timer] /\ del' \in [Links -> Timer]
    BY DEF TypeInv, TypeOK, GoDown, StartDelete, Timer
  <1>3. members' \in [Nbrs -> Seq(Intfs)]
    BY <1>1, RefreshType DEF GoDown
  <1>4. upCount' \in 0..(Wrap - 1)
    BY UpCountLessType DEF TypeInv, TypeOK, GoDown
  <1>5. arp' \in [Ips -> Entries]
    BY ArpTypes DEF TypeInv, TypeOK, GoDown, Unmap
  <1>6. /\ recon' \in BOOLEAN /\ reconTimer' \in Timer /\ genTask' \in BOOLEAN
        /\ broken' \in {"no", "assert", "null", "uaf"}
    BY DEF TypeInv, TypeOK, GoDown, StartReconTimer, Timer
  <1> QED BY <1>2, <1>3, <1>4, <1>5, <1>6

LEMMA FreeType ==
  ASSUME TypeInv, NEW S \in SUBSET Links, NEW i \in Intfs, NEW rest \in Seq(Nbrs),
         NEW jobs \in [Links -> {"none", "expire", "delete", "dangling"}],
         NEW leave \in BOOLEAN, Free(S, i, rest, jobs, leave)
  PROVE  /\ state' \in [Links -> {"none", "DOWN", "INIT", "UP"}]
         /\ exp' \in [Links -> Timer] /\ del' \in [Links -> Timer]
         /\ job' \in [Links -> {"none", "expire", "delete", "dangling"}]
         /\ list' \in [Intfs -> Seq(Nbrs)]
         /\ grp' \in [Intfs -> Nbrs \cup {NULL}] /\ groups' \subseteq Nbrs
         /\ members' \in [Nbrs -> Seq(Intfs)]
         /\ upCount' \in 0..(Wrap - 1) /\ arp' \in [Ips -> Entries]
         /\ broken' \in {"no", "assert", "null", "uaf"}
  <1>1. /\ state' \in [Links -> {"none", "DOWN", "INIT", "UP"}]
        /\ exp' \in [Links -> Timer] /\ del' \in [Links -> Timer]
    BY DEF TypeInv, TypeOK, Free, Timer
  <1>2. job' \in [Links -> {"none", "expire", "delete", "dangling"}]
    BY DEF Free
  <1>3. list' \in [Intfs -> Seq(Nbrs)]
    BY DEF TypeInv, TypeOK, Free
  <1>4. upCount' \in 0..(Wrap - 1)
    <2>1. PICK k : k = Cardinality({a \in S : state[a] = "UP"}) /\ upCount' = UpCountLess(k)
      BY DEF Free
    <2>2. k \in Nat
      <3>1. IsFiniteSet({a \in S : state[a] = "UP"})
        BY AdjacencyAssumption, FS_Subset
      <3> QED BY <2>1, <3>1, FS_CardinalityType
    <2> QED BY <2>1, <2>2, UpCountLessType DEF TypeInv, TypeOK
  <1>5. arp' \in [Ips -> Entries]
    BY ArpTypes DEF Free, TypeInv, TypeOK
  <1>6. PICK names : names = {a[2] : a \in S} /\ LeaveGroup(i, names, leave)
    BY DEF Free
  <1>7. /\ grp' \in [Intfs -> Nbrs \cup {NULL}] /\ groups' \subseteq Nbrs
        /\ broken' \in {"no", "assert", "null", "uaf"}
    BY <1>6 DEF LeaveGroup, TypeInv, TypeOK
  <1>8. members' \in [Nbrs -> Seq(Intfs)]
    BY <1>6, LeaveProperties DEF LeaveGroup, TypeInv, TypeOK
  <1> QED BY <1>1, <1>2, <1>3, <1>4, <1>5, <1>7, <1>8

------------------------------------------------------------------------------
(* Types *)

LEMMA TypeInit == Init => TypeInv
  <1>1. /\ \A a \in Links : (CHOOSE v \in Nets[a] : TRUE) \in Nets[a]
        /\ \A a \in Links : Nets[a] \subseteq Ips
        /\ (CHOOSE v \in Softs : TRUE) \in Softs
    BY AdjacencyAssumption
  <1>2. 0 \in 0..(Wrap - 1) /\ 0 \in 0..MaxHellos /\ 0 \in 0..MaxConfigs
    BY WrapType, AdjacencyAssumption
  <1>3. << >> \in Seq(Nbrs) /\ << >> \in Seq(Intfs)
    OBVIOUS
  <1> SUFFICES ASSUME Init PROVE TypeInv
    OBVIOUS
  <1>4. /\ state \in [Links -> {"none", "DOWN", "INIT", "UP"}]
        /\ exp \in [Links -> Timer] /\ del \in [Links -> Timer]
        /\ job \in [Links -> {"none", "expire", "delete", "dangling"}]
        /\ broken \in {"no", "assert", "null", "uaf"}
    BY DEF Init, Timer
  <1>5. /\ ip \in [Links -> Ips] /\ \A a \in Links : ip[a] \in Nets[a]
        /\ soft \in [Links -> Softs]
        /\ list \in [Intfs -> Seq(Nbrs)] /\ members \in [Nbrs -> Seq(Intfs)]
    BY <1>1, <1>3 DEF Init
  <1>6. /\ enabled \in [Intfs -> BOOLEAN] /\ up \in [Intfs -> BOOLEAN]
        /\ l3 \in [Intfs -> BOOLEAN] /\ hello \in [Intfs -> BOOLEAN]
        /\ recon \in BOOLEAN /\ reconJob \in BOOLEAN
        /\ onDemand \in BOOLEAN /\ periodic \in BOOLEAN /\ lost \in BOOLEAN
        /\ genTask \in BOOLEAN
    BY DEF Init
  <1>7. /\ grp \in [Intfs -> Nbrs \cup {NULL}] /\ groups \subseteq Nbrs
        /\ upCount \in 0..(Wrap - 1) /\ arp \in [Ips -> Entries]
        /\ reconTimer \in Timer /\ lsp \subseteq Links \X Ips \X Softs
        /\ hellos \in 0..MaxHellos /\ configs \in 0..MaxConfigs
    BY <1>2 DEF Init, Timer, NoEntry, Entries
  <1> QED BY <1>4, <1>5, <1>6, <1>7 DEF TypeInv, TypeOK

\* A neighbour's address is one of its interface.
LEMMA AddressType ==
  ASSUME TypeInv, NEW a \in Links, \E v \in Nets[a] : ip' = [ip EXCEPT ![a] = v]
  PROVE  ip' \in [Links -> Ips] /\ \A b \in Links : ip'[b] \in Nets[b]
  <1>1. PICK v \in Nets[a] : ip' = [ip EXCEPT ![a] = v]
    OBVIOUS
  <1>2. v \in Ips
    BY AdjacencyAssumption
  <1>3. ip \in [Links -> Ips] /\ \A b \in Links : ip[b] \in Nets[b]
    BY DEF TypeInv, TypeOK
  <1> QED BY <1>1, <1>2, <1>3

LEMMA TypeHello ==
  ASSUME TypeInv, NEW a \in Links,
         HelloNew(a) \/ HelloChanged(a) \/ HelloInit(a) \/ HelloUp(a) \/ HelloAgain(a)
  PROVE  TypeInv'
  <1>1. a[1] \in Intfs /\ a[2] \in Nbrs /\ a = <<a[1], a[2]>> /\ MaxHellos \in Nat
    BY AdjacencyAssumption
  <1>2. ASSUME HelloNew(a) PROVE TypeInv'
    <2>1. list' \in [Intfs -> Seq(Nbrs)]
      <3>1. list[a[1]] \in Seq(Nbrs)
        BY <1>1 DEF TypeInv, TypeOK
      <3>2. <<a[2]>> \o list[a[1]] \in Seq(Nbrs)
        BY <1>1, <3>1, ConsElements
      <3> QED BY <1>1, <1>2, <3>2 DEF HelloNew, TypeInv, TypeOK
    <2>2. members' \in [Nbrs -> Seq(Intfs)]
      <3>1. members' = IF grp[a[1]] = a[2] THEN members ELSE Back(a[2], a[1])
        BY <1>2 DEF HelloNew, JoinGroup, Rejoin, Back
      <3>2. members \in [Nbrs -> Seq(Intfs)]
        BY DEF TypeInv, TypeOK
      <3>3. PICK r : r = Back(a[2], a[1])
        OBVIOUS
      <3>4. r \in [Nbrs -> Seq(Intfs)]
        BY <1>1, <3>3, BackType
      <3> QED BY <3>1, <3>2, <3>3, <3>4
    <2>3. /\ state' \in [Links -> {"none", "DOWN", "INIT", "UP"}]
          /\ del' \in [Links -> Timer] /\ soft' \in [Links -> Softs]
          /\ ip' \in [Links -> Ips] /\ \A b \in Links : ip'[b] \in Nets[b]
      <3>1. \E v \in Nets[a] : ip' = [ip EXCEPT ![a] = v]
        BY <1>2 DEF HelloNew
      <3> QED BY <1>2, <3>1, AddressType DEF HelloNew, StartDelete, TypeInv, TypeOK, Timer
    <2>4. grp' \in [Intfs -> Nbrs \cup {NULL}] /\ groups' \subseteq Nbrs
      BY <1>1, <1>2 DEF HelloNew, JoinGroup, TypeInv, TypeOK
    <2>5. /\ hellos' \in 0..MaxHellos
          /\ UNCHANGED <<exp, job, upCount, arp, reconVars, genTask, broken, intfVars,
                         nodeVars, reconJob, lsp, configs>>
      BY <1>1, <1>2 DEF HelloNew, Receive, TypeInv, TypeOK
    <2> QED BY <2>1, <2>2, <2>3, <2>4, <2>5 DEF TypeInv, TypeOK, intfVars, nodeVars, reconVars
  <1>3. ASSUME HelloChanged(a) PROVE TypeInv'
    <2>1. /\ ip' \in [Links -> Ips] /\ \A b \in Links : ip'[b] \in Nets[b]
          /\ soft' \in [Links -> Softs]
      <3>1. \E v \in Nets[a] : ip' = [ip EXCEPT ![a] = v]
        BY <1>3 DEF HelloChanged
      <3>2. soft' \in [Links -> Softs]
        BY <1>3 DEF HelloChanged, TypeInv, TypeOK
      <3> QED BY <3>1, <3>2, AddressType
    <2>2. CASE state[a] = "DOWN"
      <3>1. arp' \in [Ips -> Entries]
        BY <1>3, <2>2, ArpTypes DEF HelloChanged, TypeInv, TypeOK
      <3>2. UNCHANGED <<state, exp, del, members, upCount, reconVars, genTask, broken, list,
                        job, grp, groups, intfVars, nodeVars, reconJob, lsp, configs>>
        BY <1>3, <2>2 DEF HelloChanged, Receive
      <3>3. hellos' \in 0..MaxHellos
        BY <1>1, <1>3 DEF HelloChanged, Receive, TypeInv, TypeOK
      <3> QED BY <2>1, <3>1, <3>2, <3>3 DEF TypeInv, TypeOK, intfVars, nodeVars, reconVars
    <2>3. CASE state[a] # "DOWN"
      <3>1. GoDown(a)
        BY <1>3, <2>3 DEF HelloChanged
      <3>2. /\ UNCHANGED <<list, job, grp, groups, intfVars, nodeVars, reconJob, lsp, configs>>
            /\ hellos' \in 0..MaxHellos
        BY <1>1, <1>3 DEF HelloChanged, Receive, TypeInv, TypeOK
      <3> QED BY <2>1, <3>1, <3>2, GoDownType DEF TypeInv, TypeOK, intfVars, nodeVars
    <2> QED BY <2>2, <2>3
  <1>4. ASSUME HelloInit(a) PROVE TypeInv'
    BY <1>1, <1>4 DEF HelloInit, Receive, StartExpiry, TypeInv, TypeOK, Timer, intfVars,
                      grpVars, nodeVars, reconVars
  <1>5. ASSUME HelloUp(a) PROVE TypeInv'
    <2>1. members' \in [Nbrs -> Seq(Intfs)]
      BY <1>1, <1>5, RefreshType DEF HelloUp
    <2>2. upCount' \in 0..(Wrap - 1)
      <3>1. upCount' = (upCount + 1) % Wrap /\ upCount \in 0..(Wrap - 1)
        BY <1>5 DEF HelloUp, TypeInv, TypeOK
      <3>2. ASSUME NEW w \in Nat, w > 0, NEW u \in 0..(w - 1)
            PROVE  (u + 1) % w \in 0..(w - 1)
        BY <3>2
      <3> QED BY <3>1, <3>2, WrapType
    <2>3. arp' \in [Ips -> Entries]
      BY <1>5, ArpTypes DEF HelloUp, Map, TypeInv, TypeOK
    <2>4. recon' \in BOOLEAN /\ genTask' \in BOOLEAN
      BY <1>5 DEF HelloUp, TypeInv, TypeOK
    <2>5. reconTimer' \in Timer /\ broken' \in {"no", "assert", "null", "uaf"}
      BY <1>5 DEF HelloUp, StartReconTimer, TypeInv, TypeOK, Timer
    <2>6. /\ state' \in [Links -> {"none", "DOWN", "INIT", "UP"}]
          /\ exp' \in [Links -> Timer] /\ soft' \in [Links -> Softs]
      BY <1>5 DEF HelloUp, TypeInv, TypeOK, Timer
    <2> QED BY <1>1, <1>5, <2>1, <2>2, <2>3, <2>4, <2>5, <2>6
        DEF HelloUp, Receive, TypeInv, TypeOK, intfVars, nodeVars
  <1>6. ASSUME HelloAgain(a) PROVE TypeInv'
    BY <1>1, <1>6 DEF HelloAgain, Receive, TypeInv, TypeOK, Timer, intfVars, grpVars,
                      nodeVars, reconVars
  <1> QED BY <1>2, <1>3, <1>4, <1>5, <1>6

LEMMA TypeTimers ==
  ASSUME TypeInv, NEW a \in Links,
         FireExpiry(a) \/ FireDelete(a) \/ ExpireJob(a) \/ DanglingJob(a)
  PROVE  TypeInv'
  <1>1. ASSUME FireExpiry(a) \/ FireDelete(a) PROVE TypeInv'
    <2>1. /\ exp' \in [Links -> Timer] /\ del' \in [Links -> Timer]
          /\ job' \in [Links -> {"none", "expire", "delete", "dangling"}]
      BY <1>1 DEF FireExpiry, FireDelete, TypeInv, TypeOK, Timer
    <2>2. UNCHANGED <<state, ip, soft, list, intfVars, grpVars, upCount, arp, reconVars,
                      reconJob, nodeVars, genTask, lsp, broken, hellos, configs>>
      BY <1>1 DEF FireExpiry, FireDelete
    <2> QED BY <2>1, <2>2 DEF TypeInv, TypeOK, intfVars, grpVars, reconVars, nodeVars
  <1>2. ASSUME ExpireJob(a) PROVE TypeInv'
    <2>1. /\ job' \in [Links -> {"none", "expire", "delete", "dangling"}]
          /\ ip' = ip
      BY <1>2 DEF ExpireJob, TypeInv, TypeOK
    <2>2. CASE exp[a] = "off"
      BY <1>2, <2>1, <2>2 DEF ExpireJob, TypeInv, TypeOK, Timer, intfVars, reconVars, nodeVars
    <2>3. CASE exp[a] # "off"
      <3>1. GoDown(a)
        BY <1>2, <2>3 DEF ExpireJob
      <3> QED BY <1>2, <2>1, <3>1, GoDownType DEF ExpireJob, TypeInv, TypeOK, intfVars, nodeVars
    <2> QED BY <2>2, <2>3
  <1>3. ASSUME DanglingJob(a) PROVE TypeInv'
    BY <1>3 DEF DanglingJob, TypeInv, TypeOK, adjVars, intfVars, grpVars, reconVars, nodeVars
  <1> QED BY <1>1, <1>2, <1>3

LEMMA TypeNode ==
  ASSUME TypeInv, FireRecon \/ ExitRecon \/ PeriodicFlood \/ Generate
                  \/ DisableOnDemand \/ EnableOnDemand
  PROVE  TypeInv'
  <1>1. ASSUME FireRecon PROVE TypeInv'
    BY <1>1 DEF FireRecon, TypeInv, TypeOK, Timer, adjVars, intfVars, grpVars, nodeVars
  <1>2. ASSUME ExitRecon PROVE TypeInv'
    BY <1>2 DEF ExitRecon, ExitGen, StopReconTimer, TypeInv, TypeOK, Timer, adjVars,
                intfVars, grpVars, nodeVars
  <1>3. ASSUME PeriodicFlood PROVE TypeInv'
    BY <1>3 DEF PeriodicFlood, TypeInv, TypeOK, Timer, adjVars, intfVars, grpVars, reconVars,
                nodeVars
  <1>4. ASSUME Generate PROVE TypeInv'
    <2>1. Advertised \subseteq Links \X Ips \X Softs
      BY DEF Advertised, TypeInv, TypeOK
    <2> QED BY <1>4, <2>1 DEF Generate, TypeInv, TypeOK, adjVars, intfVars, grpVars, reconVars,
                              nodeVars
  <1>5. ASSUME DisableOnDemand \/ EnableOnDemand PROVE TypeInv'
    <2>1. onDemand' \in BOOLEAN /\ periodic' \in BOOLEAN /\ lost' \in BOOLEAN
      BY <1>5 DEF DisableOnDemand, EnableOnDemand, TypeInv, TypeOK
    <2>2. configs' \in 0..MaxConfigs
      BY <1>5, AdjacencyAssumption
      DEF DisableOnDemand, EnableOnDemand, Configure, TypeInv, TypeOK
    <2>3. UNCHANGED <<adjVars, job, intfVars, grpVars, upCount, arp, reconVars, reconJob,
                      genTask, lsp, broken, hellos>>
      BY <1>5 DEF DisableOnDemand, EnableOnDemand
    <2> QED BY <2>1, <2>2, <2>3 DEF TypeInv, TypeOK, adjVars, intfVars, grpVars, reconVars
  <1> QED BY <1>1, <1>2, <1>3, <1>4, <1>5

\* What is freed: the adjacency of a delete job, or those of an interface.
LEMMA AdjsOnType ==
  ASSUME NEW i \in Intfs
  PROVE  AdjsOn(i) \in SUBSET Links /\ << >> \in Seq(Nbrs)
  BY DEF AdjsOn

LEMMA TypeFree ==
  ASSUME TypeInv, NEW i \in Intfs,
         \/ \E a \in Links : DeleteJob(a)
         \/ Disable(i) \/ Shut(i) \/ RemoveIp(i)
  PROVE  TypeInv'
  <1>1. ASSUME NEW a \in Links, DeleteJob(a) PROVE TypeInv'
    <2>1. a[1] \in Intfs /\ a[2] \in Nbrs
      BY AdjacencyAssumption
    <2>2. PICK rest, jobs : rest = RemoveFirst(list[a[1]], a[2]) /\ jobs = [job EXCEPT ![a] = "none"]
      OBVIOUS
    <2>3. rest \in Seq(Nbrs)
      <3>1. list[a[1]] \in Seq(Nbrs)
        BY <2>1 DEF TypeInv, TypeOK
      <3> QED BY <2>2, <3>1, RemoveFirstProperties
    <2>4. jobs \in [Links -> {"none", "expire", "delete", "dangling"}]
      BY <2>2 DEF TypeInv, TypeOK
    <2>5. Free({a}, a[1], rest, jobs, FALSE)
      BY <1>1, <2>2 DEF DeleteJob
    <2> QED BY <1>1, <2>1, <2>3, <2>4, <2>5, FreeType
        DEF DeleteJob, TypeInv, TypeOK, intfVars, reconVars, nodeVars
  <1>2. job \in [Links -> {"none", "expire", "delete", "dangling"}]
    BY DEF TypeInv, TypeOK
  <1>3. ASSUME Disable(i) PROVE TypeInv'
    <2>1. Free(AdjsOn(i), i, << >>, job, TRUE)
      BY <1>3 DEF Disable
    <2>2. configs' \in 0..MaxConfigs /\ UNCHANGED <<ip, soft, up, l3, reconVars, reconJob,
                                                    nodeVars, genTask, lsp, hellos>>
      BY <1>3, AdjacencyAssumption DEF Disable, Configure, TypeInv, TypeOK
    <2>3. enabled' \in [Intfs -> BOOLEAN] /\ hello' \in [Intfs -> BOOLEAN]
      BY <1>3 DEF Disable, TypeInv, TypeOK
    <2> QED BY <1>2, <2>1, <2>2, <2>3, FreeType, AdjsOnType
        DEF TypeInv, TypeOK, reconVars, nodeVars
  <1>4. ASSUME Shut(i) \/ RemoveIp(i) PROVE TypeInv'
    <2>1. Withdraw(i) /\ Configure
      BY <1>4 DEF Shut, RemoveIp
    <2>2. configs' \in 0..MaxConfigs /\ UNCHANGED <<ip, soft, enabled, reconVars, reconJob,
                                                    nodeVars, lsp, hellos>>
      BY <2>1, AdjacencyAssumption DEF Configure, Withdraw, TypeInv, TypeOK
    <2>3. up' \in [Intfs -> BOOLEAN] /\ l3' \in [Intfs -> BOOLEAN]
      BY <1>4 DEF Shut, RemoveIp, TypeInv, TypeOK
    <2>4. CASE enabled[i]
      <3>1. Free(AdjsOn(i), i, << >>, job, FALSE)
        BY <2>1, <2>4 DEF Withdraw
      <3>2. hello' \in [Intfs -> BOOLEAN] /\ genTask' \in BOOLEAN
        BY <2>1, <2>4 DEF Withdraw, TypeInv, TypeOK
      <3> QED BY <1>2, <2>2, <2>3, <3>1, <3>2, FreeType, AdjsOnType
          DEF TypeInv, TypeOK, reconVars, nodeVars
    <2>5. CASE ~enabled[i]
      BY <2>1, <2>2, <2>3, <2>5 DEF Withdraw, TypeInv, TypeOK, Timer, reconVars, nodeVars, grpVars
    <2> QED BY <2>4, <2>5
  <1> QED BY <1>1, <1>3, <1>4

LEMMA TypeConfig ==
  ASSUME TypeInv, NEW i \in Intfs, Enable(i) \/ NoShut(i) \/ AddIp(i) \/ ChangeIp(i)
  PROVE  TypeInv'
  <1>1. ASSUME Enable(i) PROVE TypeInv'
    BY <1>1, AdjacencyAssumption
    DEF Enable, Configure, TypeInv, TypeOK, adjVars, grpVars, reconVars, nodeVars
  <1>2. ASSUME NoShut(i) \/ AddIp(i) PROVE TypeInv'
    <2>1. up' \in [Intfs -> BOOLEAN] /\ l3' \in [Intfs -> BOOLEAN]
      BY <1>2 DEF NoShut, AddIp, TypeInv, TypeOK
    <2>2. Restore(i) /\ Configure
      BY <1>2 DEF NoShut, AddIp
    <2>3. hello' \in [Intfs -> BOOLEAN]
      BY <2>2 DEF Restore, TypeInv, TypeOK
    <2>4. broken' \in {"no", "assert", "null", "uaf"}
      BY <2>2 DEF Restore, TypeInv, TypeOK
    <2>5. configs' \in 0..MaxConfigs
      BY <2>2, AdjacencyAssumption DEF Configure, TypeInv, TypeOK
    <2>6. UNCHANGED <<adjVars, job, enabled, grpVars, upCount, arp, reconVars, reconJob,
                      nodeVars, genTask, lsp, hellos>>
      BY <2>2 DEF Restore
    <2> QED BY <2>1, <2>3, <2>4, <2>5, <2>6
        DEF TypeInv, TypeOK, adjVars, grpVars, reconVars, nodeVars
  <1>3. ASSUME ChangeIp(i) PROVE TypeInv'
    BY <1>3, AdjacencyAssumption
    DEF ChangeIp, Configure, TypeInv, TypeOK, adjVars, grpVars, reconVars, nodeVars
  <1> QED BY <1>1, <1>2, <1>3

LEMMA TypeArp ==
  ASSUME TypeInv, DataPlane
  PROVE  TypeInv'
  <1>1. PICK v \in Resolving : Resolve(v) \/ Settle(v)
    BY DEF DataPlane
  <1>2. UNCHANGED <<adjVars, job, intfVars, grpVars, upCount, reconVars, reconJob,
                    nodeVars, genTask, lsp, broken, hellos, configs>>
    BY <1>1 DEF Resolve, Settle
  <1>3. arp' \in [Ips -> Entries]
    BY <1>1, ArpTypes DEF Resolve, Settle, TypeInv, TypeOK
  <1> QED BY <1>2, <1>3 DEF TypeInv, TypeOK, adjVars, intfVars, grpVars, reconVars, nodeVars

\* A hello from another subnet finds an adjacency that exists.
LEMMA ForeignProperties ==
  ASSUME TypeInv, ListSound, NEW i \in Intfs, HelloForeign(i)
  PROVE  \E a \in Links : /\ a[1] = i /\ state[a] \in {"INIT", "UP"}
                          /\ GoDown(a) /\ ip' = ip /\ soft' = soft
  <1>1. PICK n : n = Head(list[i])
    OBVIOUS
  <1>2. /\ list[i] # << >> /\ state[<<i, n>>] # "DOWN" /\ GoDown(<<i, n>>)
        /\ ip' = ip /\ soft' = soft
    BY <1>1 DEF HelloForeign
  <1>3. list[i] \in Seq(Nbrs)
    BY DEF TypeInv, TypeOK
  <1>4. n \in Nbrs /\ n \in ToSet(list[i])
    BY <1>1, <1>2, <1>3, TailElements
  <1>5. <<i, n>> \in Links /\ state[<<i, n>>] # "none"
    BY <1>4 DEF ListSound
  <1>6. state[<<i, n>>] \in {"none", "DOWN", "INIT", "UP"}
    BY <1>5 DEF TypeInv, TypeOK
  <1> QED BY <1>2, <1>5, <1>6

LEMMA TypeStep ==
  ASSUME TypeInv, broken = "no" => ListSound, [Next]_vars
  PROVE  TypeInv'
  <1>1. ASSUME NEW a \in Links,
               HelloNew(a) \/ HelloChanged(a) \/ HelloInit(a) \/ HelloUp(a) \/ HelloAgain(a)
        PROVE  TypeInv'
    BY <1>1, TypeHello
  <1>2. ASSUME ListSound, NEW i \in Intfs, HelloForeign(i) PROVE TypeInv'
    <2>1. PICK a \in Links : GoDown(a) /\ ip' = ip
      BY <1>2, ForeignProperties
    <2>2. ip' \in [Links -> Ips] /\ \A b \in Links : ip'[b] \in Nets[b]
      BY <2>1 DEF TypeInv, TypeOK
    <2>3. /\ hellos' \in 0..MaxHellos
          /\ UNCHANGED <<soft, list, job, grp, groups, intfVars, nodeVars, reconJob, lsp, configs>>
      BY <1>2, AdjacencyAssumption DEF HelloForeign, Receive, TypeInv, TypeOK
    <2> QED BY <2>1, <2>2, <2>3, GoDownType DEF TypeInv, TypeOK, intfVars, nodeVars
  <1>3. ASSUME Fire \/ RunJob \/ PeriodicFlood \/ DataPlane PROVE TypeInv'
    BY <1>3, TypeTimers, TypeNode, TypeFree, TypeArp, AdjacencyAssumption DEF Fire, RunJob
  <1>4. ASSUME Config PROVE TypeInv'
    BY <1>4, TypeNode, TypeFree, TypeConfig DEF Config
  <1>5. CASE UNCHANGED vars
    BY <1>5 DEF TypeInv, TypeOK, vars
  <1> QED BY <1>1, <1>2, <1>3, <1>4, <1>5 DEF Next, Hello

------------------------------------------------------------------------------
(* The steps that change an adjacency *)

\* An adjacency in INIT or UP goes down: after a hello, or when it expires.
Down(a) ==
  /\ state[a] \in {"INIT", "UP"} /\ GoDown(a)
  /\ \A b \in Links : b # a => ip'[b] = ip[b] /\ soft'[b] = soft[b]
  /\ job' = job \/ (job[a] = "expire" /\ job' = [job EXCEPT ![a] = "none"])
  /\ UNCHANGED <<list, grp, groups, intfVars, nodeVars, reconJob, lsp>>

\* Adjacencies are deleted: all those of an interface that no longer qualifies,
\* or one by its job.
Gone(S, i, rest, jobs, leave) ==
  /\ S \in SUBSET Links /\ \A a \in S : a[1] = i
  /\ Free(S, i, rest, jobs, leave)
  /\ \/ /\ S = AdjsOn(i) /\ rest = << >> /\ jobs = job
        /\ enabled[i] /\ ~Qualifies(i)' /\ hello' = [hello EXCEPT ![i] = FALSE]
        /\ \A j \in Intfs : j # i => (Qualifies(j)' <=> Qualifies(j))
     \/ \E a \in Links :
          /\ S = {a} /\ state[a] # "none" /\ rest = RemoveFirst(list[i], a[2])
          /\ jobs = [job EXCEPT ![a] = "none"] /\ UNCHANGED intfVars
  /\ genTask => genTask'
  /\ UNCHANGED <<ip, soft, reconVars, reconJob, nodeVars, lsp>>

\* The state of an adjacency, but not that there is one.
Kept == list' = list /\ \A a \in Links : state'[a] = "none" <=> state[a] = "none"

LEMMA DownProperties ==
  ASSUME TypeInv, NEW a \in Links, Down(a)
  PROVE  /\ state' = [state EXCEPT ![a] = "DOWN"] /\ exp' = [exp EXCEPT ![a] = "off"]
         /\ del' = [del EXCEPT ![a] = IF @ = "off" THEN "armed" ELSE @]
         /\ arp' = Cleared({ip[a], ip'[a]})
         /\ RefreshGroup(a[1]) /\ Kept
  <1>1. /\ state' = [state EXCEPT ![a] = "DOWN"] /\ exp' = [exp EXCEPT ![a] = "off"]
        /\ del' = [del EXCEPT ![a] = IF @ = "off" THEN "armed" ELSE @]
        /\ arp' = Cleared({ip[a], ip'[a]})
        /\ RefreshGroup(a[1]) /\ list' = list
    BY DEF Down, GoDown, StartDelete, Unmap
  <1>2. \A b \in Links : state'[b] = "none" <=> state[b] = "none"
    BY <1>1 DEF Down, TypeInv, TypeOK
  <1> QED BY <1>1, <1>2 DEF Kept

LEMMA GoneAdjs ==
  ASSUME TypeInv, NEW S, NEW i \in Intfs, NEW rest, NEW jobs, NEW leave,
         Gone(S, i, rest, jobs, leave)
  PROVE  \A a \in Links : /\ state'[a] = IF a \in S THEN "none" ELSE state[a]
                          /\ exp'[a] = IF a \in S THEN "off" ELSE exp[a]
                          /\ del'[a] = IF a \in S THEN "off" ELSE del[a]
                          /\ a \in S => job'[a] \in {"none", "dangling"}
                          /\ a \notin S => job'[a] = job[a]
  <1>1. Free(S, i, rest, jobs, leave) /\ S \in SUBSET Links
    BY DEF Gone
  <1>2. \A a \in Links : /\ state'[a] = IF a \in S THEN "none" ELSE state[a]
                         /\ exp'[a] = IF a \in S THEN "off" ELSE exp[a]
                         /\ del'[a] = IF a \in S THEN "off" ELSE del[a]
    BY <1>1 DEF Free
  <1>3. \A a \in Links : job'[a] = IF a \in S /\ jobs[a] # "none" THEN "dangling" ELSE jobs[a]
    BY <1>1 DEF Free
  <1>4. \A a \in Links : a \notin S => jobs[a] = job[a]
    BY DEF Gone, TypeInv, TypeOK
  <1>5. \A a \in Links : /\ a \in S => job'[a] \in {"none", "dangling"}
                         /\ a \notin S => job'[a] = job[a]
    BY <1>3, <1>4
  <1> QED BY <1>2, <1>5

LEMMA GoneLists ==
  ASSUME TypeInv, NEW S, NEW i \in Intfs, NEW rest, NEW jobs, NEW leave,
         Gone(S, i, rest, jobs, leave)
  PROVE  list'[i] = rest /\ \A j \in Intfs : j # i => list'[j] = list[j]
  <1>1. list' = [list EXCEPT ![i] = rest] /\ list \in [Intfs -> Seq(Nbrs)]
    BY DEF Gone, Free, TypeInv, TypeOK
  <1> QED BY <1>1

\* A step that concerns the node as a whole, or neither it nor an adjacency.
OfNode == \/ FireRecon \/ ExitRecon \/ PeriodicFlood \/ Generate
          \/ DisableOnDemand \/ EnableOnDemand

Aside == /\ UNCHANGED <<adjVars, job, grpVars>> /\ (arp' = arp \/ DataPlane)
         /\ \/ OfNode
            \/ UNCHANGED <<lsp, nodeVars, reconVars, reconJob>> /\ (genTask => genTask')

\* Every step is one of these as far as adjacencies and groups are concerned.
LEMMA AdjStep ==
  ASSUME TypeInv, ListSound, JobSound, AdjTimers, Next, broken' = "no"
  PROVE  \/ \E a \in Links : \/ HelloNew(a) \/ (HelloChanged(a) /\ state[a] = "DOWN")
                             \/ HelloInit(a) \/ HelloUp(a) \/ HelloAgain(a) \/ Down(a)
                             \/ FireExpiry(a) \/ FireDelete(a)
         \/ \E i \in Intfs : \E S, rest, jobs, leave : Gone(S, i, rest, jobs, leave)
         \/ Aside
  <1> DEFINE Goal ==
         \/ \E a \in Links : \/ HelloNew(a) \/ (HelloChanged(a) /\ state[a] = "DOWN")
                             \/ HelloInit(a) \/ HelloUp(a) \/ HelloAgain(a) \/ Down(a)
                             \/ FireExpiry(a) \/ FireDelete(a)
         \/ \E i \in Intfs : \E S, rest, jobs, leave : Gone(S, i, rest, jobs, leave)
         \/ Aside
  <1>1. ASSUME NEW a \in Links, HelloChanged(a), state[a] # "DOWN" PROVE Down(a)
    <2>1. state[a] \in {"INIT", "UP"}
      BY <1>1 DEF HelloChanged, TypeInv, TypeOK
    <2>2. \A b \in Links : b # a => ip'[b] = ip[b] /\ soft'[b] = soft[b]
      BY <1>1 DEF HelloChanged, TypeInv, TypeOK
    <2> QED BY <1>1, <2>1, <2>2 DEF Down, HelloChanged, Receive
  <1>2. ASSUME NEW i \in Intfs, HelloForeign(i) PROVE \E a \in Links : Down(a)
    BY <1>2, ForeignProperties DEF Down, HelloForeign, Receive
  <1>3. ASSUME NEW a \in Links, ExpireJob(a) PROVE Down(a)
    <2>1. exp[a] # "off" /\ GoDown(a)
      BY <1>3 DEF ExpireJob
    <2> QED BY <1>3, <2>1 DEF ExpireJob, Down, AdjTimers
  <1>4. ASSUME NEW a \in Links, DeleteJob(a)
        PROVE  \E i \in Intfs : \E S, rest, jobs, leave : Gone(S, i, rest, jobs, leave)
    <2>1. a[1] \in Intfs /\ a[2] \in Nbrs /\ state[a] # "none"
      BY <1>4, AdjacencyAssumption DEF DeleteJob, JobSound
    <2>2. PICK S, rest, jobs : /\ S = {a} /\ rest = RemoveFirst(list[a[1]], a[2])
                               /\ jobs = [job EXCEPT ![a] = "none"]
      OBVIOUS
    <2>3. Free(S, a[1], rest, jobs, FALSE)
      BY <1>4, <2>2 DEF DeleteJob
    <2>4. UNCHANGED <<ip, soft, intfVars, reconVars, reconJob, nodeVars, genTask, lsp>>
      BY <1>4 DEF DeleteJob
    <2>5. Gone(S, a[1], rest, jobs, FALSE)
      BY <2>1, <2>2, <2>3, <2>4 DEF Gone
    <2> QED BY <2>1, <2>5
  <1>5. ASSUME NEW i \in Intfs, Disable(i)
        PROVE  \E S, rest, jobs, leave : Gone(S, i, rest, jobs, leave)
    <2>1. AdjsOn(i) \in SUBSET Links /\ \A a \in AdjsOn(i) : a[1] = i
      BY DEF AdjsOn
    <2>2. enabled[i] /\ ~Qualifies(i)' /\ \A j \in Intfs : j # i => (Qualifies(j)' <=> Qualifies(j))
      BY <1>5 DEF Disable, Qualifies, TypeInv, TypeOK
    <2> QED BY <1>5, <2>1, <2>2 DEF Disable, Gone
  <1>6. ASSUME NEW i \in Intfs, Shut(i) \/ RemoveIp(i)
        PROVE  Goal
    <2>1. AdjsOn(i) \in SUBSET Links /\ \A a \in AdjsOn(i) : a[1] = i
      BY DEF AdjsOn
    <2>2. ~Qualifies(i)' /\ \A j \in Intfs : j # i => (Qualifies(j)' <=> Qualifies(j))
      BY <1>6 DEF Shut, RemoveIp, Withdraw, Qualifies, TypeInv, TypeOK
    <2>3. Withdraw(i)
      BY <1>6 DEF Shut, RemoveIp
    <2>4. CASE enabled[i]
      <3>1. Gone(AdjsOn(i), i, << >>, job, FALSE)
        BY <2>1, <2>2, <2>3, <2>4 DEF Withdraw, Gone
      <3> QED BY <3>1
    <2>5. CASE ~enabled[i]
      BY <2>3, <2>5 DEF Withdraw, Aside, adjVars, grpVars
    <2> QED BY <2>4, <2>5
  <1>7. ASSUME NEW i \in Intfs, Enable(i) \/ NoShut(i) \/ AddIp(i) \/ ChangeIp(i)
        PROVE  Aside
    BY <1>7 DEF Aside, Enable, NoShut, AddIp, Restore, ChangeIp
  <1>8. ASSUME OfNode PROVE Aside
    BY <1>8 DEF Aside, OfNode, FireRecon, ExitRecon, PeriodicFlood, Generate, DisableOnDemand, EnableOnDemand
  <1>9. ASSUME NEW a \in Links PROVE ~DanglingJob(a)
    BY DEF DanglingJob
  <1>10. Hello \/ Fire \/ RunJob \/ PeriodicFlood \/ DataPlane \/ Config
    BY DEF Next
  <1>11. ASSUME Hello PROVE Goal
    BY <1>1, <1>2, <1>11 DEF Hello
  <1>12. ASSUME Fire \/ RunJob \/ PeriodicFlood PROVE Goal
    BY <1>3, <1>4, <1>8, <1>9, <1>12 DEF Fire, RunJob, OfNode
  <1>13. ASSUME Config PROVE Goal
    BY <1>5, <1>6, <1>7, <1>8, <1>13 DEF Config, OfNode
  <1>14. ASSUME DataPlane PROVE Goal
    <2>1. PICK v \in Resolving : Resolve(v) \/ Settle(v)
      BY <1>14 DEF DataPlane
    <2>2. UNCHANGED <<adjVars, job, grpVars, lsp, nodeVars, reconVars, reconJob, genTask>>
      BY <2>1 DEF Resolve, Settle
    <2> QED BY <1>14, <2>2 DEF Aside
  <1> QED BY <1>10, <1>11, <1>12, <1>13, <1>14

------------------------------------------------------------------------------
(* Lists, jobs and timers of the adjacencies *)

LEMMA ListStep ==
  ASSUME TypeInv, ListSound, JobSound, AdjTimers, Next, broken' = "no"
  PROVE  ListSound'
  <1>1. ASSUME Kept PROVE ListSound'
    BY <1>1 DEF Kept, ListSound
  <1>2. ASSUME NEW a \in Links, \/ HelloChanged(a) /\ state[a] = "DOWN"
                                \/ HelloInit(a) \/ HelloUp(a) \/ HelloAgain(a)
                                \/ FireExpiry(a) \/ FireDelete(a)
        PROVE  Kept
    BY <1>2 DEF HelloChanged, HelloInit, HelloUp, HelloAgain, FireExpiry, FireDelete, Kept,
                TypeInv, TypeOK
  <1>3. ASSUME NEW a \in Links, HelloNew(a) PROVE ListSound'
    <2>1. PICK i \in Intfs, n \in Nbrs : a = <<i, n>>
      BY AdjacencyAssumption
    <2>2. /\ list[i] \in Seq(Nbrs) /\ state[a] = "none" /\ IsInjective(list[i])
          /\ n \notin ToSet(list[i])
      BY <1>3, <2>1 DEF HelloNew, TypeInv, TypeOK, ListSound
    <2>3. PICK s : s = <<n>> \o list[i]
      OBVIOUS
    <2>4. IsInjective(s) /\ ToSet(s) = ToSet(list[i]) \cup {n}
      BY <2>1, <2>2, <2>3, ConsElements
    <2>5. /\ list'[i] = s /\ \A j \in Intfs : j # i => list'[j] = list[j]
          /\ state' = [state EXCEPT ![a] = "DOWN"]
      BY <1>3, <2>1, <2>3 DEF HelloNew, TypeInv, TypeOK
    <2>6. /\ state'[a] = "DOWN" /\ \A b \in Links : b # a => state'[b] = state[b]
      BY <2>5 DEF TypeInv, TypeOK
    <2>7. ASSUME NEW j \in Intfs
          PROVE  /\ IsInjective(list'[j])
                 /\ \A m \in Nbrs :
                      m \in ToSet(list'[j]) <=> <<j, m>> \in Links /\ state'[j, m] # "none"
      <3>1. CASE j = i
        BY <2>1, <2>4, <2>5, <2>6, <3>1 DEF ListSound
      <3>2. CASE j # i
        BY <2>1, <2>5, <2>6, <3>2 DEF ListSound
      <3> QED BY <3>1, <3>2
    <2> QED BY <2>7 DEF ListSound
  <1>4. ASSUME NEW i \in Intfs, NEW S, NEW rest, NEW jobs, NEW leave,
               Gone(S, i, rest, jobs, leave)
        PROVE  ListSound'
    <2>1. /\ \A a \in Links : state'[a] = IF a \in S THEN "none" ELSE state[a]
          /\ list'[i] = rest /\ \A j \in Intfs : j # i => list'[j] = list[j]
          /\ \A a \in S : a[1] = i
      <3>1. \A a \in Links : state'[a] = IF a \in S THEN "none" ELSE state[a]
        BY <1>4, GoneAdjs
      <3>2. list'[i] = rest /\ \A j \in Intfs : j # i => list'[j] = list[j]
        BY <1>4, GoneLists
      <3> QED BY <1>4, <3>1, <3>2 DEF Gone
    <2>2. list[i] \in Seq(Nbrs) /\ IsInjective(list[i])
      BY DEF TypeInv, TypeOK, ListSound
    <2>3. /\ IsInjective(rest)
          /\ \A m \in Nbrs : m \in ToSet(rest) <=> <<i, m>> \in Links /\ state'[i, m] # "none"
      <3>1. CASE S = AdjsOn(i) /\ rest = << >>
        <4>1. IsInjective(<< >>) /\ ToSet(<< >>) = {}
          BY DEF IsInjective, ToSet
        <4> QED BY <2>1, <3>1, <4>1 DEF AdjsOn
      <3>2. ASSUME NEW a \in Links, S = {a}, rest = RemoveFirst(list[i], a[2])
            PROVE  /\ IsInjective(rest)
                   /\ \A m \in Nbrs : m \in ToSet(rest) <=> <<i, m>> \in Links /\ state'[i, m] # "none"
        <4>1. a = <<i, a[2]>>
          BY <2>1, <3>2, AdjacencyAssumption
        <4>2. IsInjective(rest) /\ ToSet(rest) = ToSet(list[i]) \ {a[2]}
          BY <2>2, <3>2, RemoveFirstProperties
        <4>3. ASSUME NEW m \in Nbrs
              PROVE  m \in ToSet(rest) <=> <<i, m>> \in Links /\ state'[<<i, m>>] # "none"
          <5>1. <<i, m>> \in S <=> m = a[2]
            BY <3>2, <4>1
          <5>2. m \in ToSet(list[i]) <=> <<i, m>> \in Links /\ state[<<i, m>>] # "none"
            BY DEF ListSound
          <5> QED BY <2>1, <4>2, <5>1, <5>2
        <4> QED BY <4>2, <4>3
      <3> QED BY <1>4, <3>1, <3>2 DEF Gone
    <2>4. ASSUME NEW j \in Intfs, j # i
          PROVE  /\ IsInjective(list'[j])
                 /\ \A m \in Nbrs :
                      m \in ToSet(list'[j]) <=> <<j, m>> \in Links /\ state'[j, m] # "none"
      BY <2>1, <2>4, ZenonT(40) DEF ListSound
    <2> QED BY <2>1, <2>3, <2>4 DEF ListSound
  <1>5. ASSUME Aside PROVE Kept
    BY <1>5 DEF Aside, adjVars, Kept
  <1> QED BY <1>1, <1>2, <1>3, <1>4, <1>5, AdjStep, DownProperties

LEMMA TimerStep ==
  ASSUME TypeInv, ListSound, JobSound, AdjTimers, Next, broken' = "no"
  PROVE  JobSound' /\ AdjTimers'
  <1> USE DEF JobSound, AdjTimers
  <1>1. ASSUME NEW a \in Links, HelloNew(a) PROVE JobSound' /\ AdjTimers'
    BY <1>1 DEF HelloNew, StartDelete, TypeInv, TypeOK
  <1>2. ASSUME NEW a \in Links, HelloChanged(a), state[a] = "DOWN"
        PROVE  JobSound' /\ AdjTimers'
    BY <1>2 DEF HelloChanged
  <1>3. ASSUME NEW a \in Links, HelloInit(a) PROVE JobSound' /\ AdjTimers'
    BY <1>3 DEF HelloInit, StartExpiry, TypeInv, TypeOK
  <1>4. ASSUME NEW a \in Links, HelloUp(a) PROVE JobSound' /\ AdjTimers'
    <2>1. /\ state[a] = "INIT" /\ state' = [state EXCEPT ![a] = "UP"]
          /\ exp' = [exp EXCEPT ![a] = "armed"] /\ UNCHANGED <<del, job>>
      BY <1>4 DEF HelloUp
    <2> QED BY <2>1 DEF TypeInv, TypeOK
  <1>5. ASSUME NEW a \in Links, HelloAgain(a) PROVE JobSound' /\ AdjTimers'
    BY <1>5 DEF HelloAgain, TypeInv, TypeOK
  <1>6. ASSUME NEW a \in Links, Down(a) PROVE JobSound' /\ AdjTimers'
    <2>1. /\ state[a] \in {"INIT", "UP"} /\ state' = [state EXCEPT ![a] = "DOWN"]
          /\ exp' = [exp EXCEPT ![a] = "off"]
          /\ del' = [del EXCEPT ![a] = IF @ = "off" THEN "armed" ELSE @]
          /\ job' = job \/ job' = [job EXCEPT ![a] = "none"]
      BY <1>6, DownProperties DEF Down
    <2> QED BY <2>1 DEF TypeInv, TypeOK
  <1>7. ASSUME NEW a \in Links, FireExpiry(a) \/ FireDelete(a) PROVE JobSound' /\ AdjTimers'
    <2>1. CASE FireExpiry(a)
      BY <2>1 DEF FireExpiry, TypeInv, TypeOK
    <2>2. CASE FireDelete(a)
      BY <2>2 DEF FireDelete, TypeInv, TypeOK
    <2> QED BY <1>7, <2>1, <2>2
  <1>8. ASSUME NEW i \in Intfs, NEW S, NEW rest, NEW jobs, NEW leave,
               Gone(S, i, rest, jobs, leave)
        PROVE  JobSound' /\ AdjTimers'
    <2>1. \A a \in Links : /\ state'[a] = IF a \in S THEN "none" ELSE state[a]
                           /\ exp'[a] = IF a \in S THEN "off" ELSE exp[a]
                           /\ del'[a] = IF a \in S THEN "off" ELSE del[a]
                           /\ a \in S => job'[a] \in {"none", "dangling"}
                           /\ a \notin S => job'[a] = job[a]
      BY <1>8, GoneAdjs
    <2> QED BY <2>1
  <1>9. ASSUME Aside PROVE JobSound' /\ AdjTimers'
    BY <1>9 DEF Aside, adjVars
  <1> QED BY <1>1, <1>2, <1>3, <1>4, <1>5, <1>6, <1>7, <1>8, <1>9, AdjStep

------------------------------------------------------------------------------
(* Interfaces *)

LEMMA QualifiedStep ==
  ASSUME TypeInv, ListSound, JobSound, AdjTimers, Qualified, Next, broken' = "no"
  PROVE  Qualified'
  <1>1. ASSUME NEW b \in Links, state'[b] # "none"
        PROVE  state[b] # "none" \/ HelloNew(b)
    <2>1. ASSUME NEW a \in Links, HelloNew(a) PROVE state[b] # "none" \/ HelloNew(b)
      BY <1>1, <2>1 DEF HelloNew, TypeInv, TypeOK
    <2>2. ASSUME NEW a \in Links, \/ HelloChanged(a) /\ state[a] = "DOWN"
                                  \/ HelloInit(a) \/ HelloUp(a) \/ HelloAgain(a)
                                  \/ FireExpiry(a) \/ FireDelete(a)
          PROVE  state[b] # "none"
      BY <1>1, <2>2 DEF HelloChanged, HelloInit, HelloUp, HelloAgain, FireExpiry, FireDelete,
                        TypeInv, TypeOK
    <2>3. ASSUME NEW a \in Links, Down(a) PROVE state[b] # "none"
      BY <1>1, <2>3, DownProperties DEF Kept
    <2>4. ASSUME NEW i \in Intfs, NEW S, NEW rest, NEW jobs, NEW leave,
                 Gone(S, i, rest, jobs, leave)
          PROVE  state[b] # "none"
      <3>1. \A a \in Links : state'[a] = IF a \in S THEN "none" ELSE state[a]
        BY <2>4, GoneAdjs
      <3> QED BY <1>1, <3>1
    <2>5. ASSUME Aside PROVE state[b] # "none"
      BY <1>1, <2>5 DEF Aside, adjVars
    <2> QED BY <2>1, <2>2, <2>3, <2>4, <2>5, AdjStep
  <1>2. ASSUME UNCHANGED intfVars PROVE Qualified'
    <2>1. \A i \in Intfs : Qualifies(i)' <=> Qualifies(i)
      BY <1>2 DEF intfVars, Qualifies
    <2>2. hello' = hello
      BY <1>2 DEF intfVars
    <2>3. \A b \in Links : HelloNew(b) => Qualifies(b[1])
      BY DEF HelloNew, Receive
    <2>4. \A b \in Links : b[1] \in Intfs
      BY AdjacencyAssumption
    <2> QED BY <1>1, <2>1, <2>2, <2>3, <2>4 DEF Qualified
  <1>3. ASSUME NEW i \in Intfs, Disable(i) \/ ((Shut(i) \/ RemoveIp(i)) /\ enabled[i])
        PROVE  Qualified'
    <2>1. \/ Free(AdjsOn(i), i, << >>, job, TRUE)
          \/ Free(AdjsOn(i), i, << >>, job, FALSE)
      BY <1>3 DEF Disable, Shut, RemoveIp, Withdraw
    <2>2. \A a \in Links : state'[a] = IF a \in AdjsOn(i) THEN "none" ELSE state[a]
      BY <2>1 DEF Free
    <2>3. \A a \in Links : state'[a] # "none" => state[a] # "none" /\ a[1] # i
      BY <2>2 DEF AdjsOn
    <2>4. ~Qualifies(i)' /\ \A j \in Intfs : j # i => (Qualifies(j)' <=> Qualifies(j))
      BY <1>3 DEF Disable, Shut, RemoveIp, Withdraw, Qualifies, TypeInv, TypeOK
    <2>5. hello' = [hello EXCEPT ![i] = FALSE]
      BY <1>3 DEF Disable, Shut, RemoveIp, Withdraw
    <2>6. ~hello'[i] /\ \A j \in Intfs : j # i => (hello'[j] <=> hello[j])
      BY <2>5 DEF TypeInv, TypeOK
    <2>7. \A b \in Links : b[1] \in Intfs
      BY AdjacencyAssumption
    <2> QED BY <2>3, <2>4, <2>6, <2>7 DEF Qualified
  <1>4. ASSUME NEW i \in Intfs, UNCHANGED state,
               \A j \in Intfs : j # i => (Qualifies(j)' <=> Qualifies(j)) /\ (hello'[j] <=> hello[j]),
               Qualifies(i) => Qualifies(i)', hello'[i] <=> Qualifies(i)'
        PROVE  Qualified'
    <2>1. \A b \in Links : b[1] \in Intfs
      BY AdjacencyAssumption
    <2> QED BY <1>4, <2>1 DEF Qualified
  <1>5. ASSUME NEW i \in Intfs, (Shut(i) \/ RemoveIp(i)) /\ ~enabled[i] PROVE Qualified'
    <2>1. /\ UNCHANGED <<state, hello, enabled>>
          /\ \A j \in Intfs : j # i => (Qualifies(j)' <=> Qualifies(j))
      BY <1>5 DEF Shut, RemoveIp, Withdraw, Qualifies, TypeInv, TypeOK
    <2>2. ~Qualifies(i) /\ ~Qualifies(i)' /\ ~hello[i]
      BY <1>5, <2>1 DEF Qualifies, Qualified
    <2> QED BY <1>4, <2>1, <2>2
  <1>6. ASSUME NEW i \in Intfs, Enable(i) \/ NoShut(i) \/ AddIp(i) \/ ChangeIp(i)
        PROVE  Qualified'
    <2>1. UNCHANGED state
      BY <1>6 DEF Enable, NoShut, AddIp, ChangeIp, Restore, adjVars
    <2>2. hello[i] <=> Qualifies(i)
      BY DEF Qualified
    <2>3. CASE Enable(i)
      <3>1. /\ enabled' = [enabled EXCEPT ![i] = TRUE] /\ UNCHANGED <<up, l3>>
            /\ hello' = [hello EXCEPT ![i] = @ \/ (up[i] /\ l3[i])]
        BY <2>3 DEF Enable
      <3>2. /\ enabled'[i] /\ \A j \in Intfs : j # i => (enabled'[j] <=> enabled[j])
            /\ hello'[i] <=> (hello[i] \/ (up[i] /\ l3[i]))
            /\ \A j \in Intfs : j # i => (hello'[j] <=> hello[j])
        BY <3>1 DEF TypeInv, TypeOK
      <3> QED BY <1>4, <2>1, <2>2, <3>1, <3>2 DEF Qualifies
    <2>4. CASE NoShut(i) \/ AddIp(i)
      <3>1. /\ \A j \in Intfs : j # i => (up'[j] <=> up[j]) /\ (l3'[j] <=> l3[j])
            /\ up[i] => up'[i]
            /\ l3[i] => l3'[i]
        BY <2>4 DEF NoShut, AddIp, TypeInv, TypeOK
      <3>2. /\ hello' = [hello EXCEPT ![i] = @ \/ (enabled[i] /\ up'[i] /\ l3'[i])]
            /\ UNCHANGED enabled
        BY <2>4 DEF NoShut, AddIp, Restore
      <3>3. /\ hello'[i] <=> (hello[i] \/ (enabled[i] /\ up'[i] /\ l3'[i]))
            /\ \A j \in Intfs : j # i => (hello'[j] <=> hello[j])
        BY <3>2 DEF TypeInv, TypeOK
      <3> QED BY <1>4, <2>1, <2>2, <3>1, <3>2, <3>3 DEF Qualifies
    <2>5. CASE ChangeIp(i)
      <3>1. /\ l3[i] /\ enabled[i] /\ hello' = [hello EXCEPT ![i] = up[i]]
            /\ UNCHANGED <<enabled, up, l3>>
        BY <2>5 DEF ChangeIp
      <3>2. (hello'[i] <=> up[i]) /\ \A j \in Intfs : j # i => (hello'[j] <=> hello[j])
        BY <3>1 DEF TypeInv, TypeOK
      <3> QED BY <1>4, <2>1, <2>2, <3>1, <3>2 DEF Qualifies
    <2> QED BY <1>6, <2>3, <2>4, <2>5
  <1>7. ASSUME Hello \/ Fire \/ RunJob \/ PeriodicFlood \/ DataPlane
        PROVE  UNCHANGED intfVars
    <2>1. ASSUME Hello PROVE UNCHANGED intfVars
      BY <2>1 DEF Hello, HelloNew, HelloChanged, HelloInit, HelloUp, HelloAgain, HelloForeign,
                  Receive
    <2>2. ASSUME Fire \/ RunJob \/ PeriodicFlood PROVE UNCHANGED intfVars
      BY <2>2 DEF Fire, FireRecon, FireExpiry, FireDelete, RunJob, ExitRecon, Generate,
                  ExpireJob, DeleteJob, DanglingJob, PeriodicFlood
    <2>3. ASSUME DataPlane PROVE UNCHANGED intfVars
      BY <2>3 DEF DataPlane, Resolve, Settle
    <2> QED BY <1>7, <2>1, <2>2, <2>3
  <1>8. ASSUME DisableOnDemand \/ EnableOnDemand PROVE UNCHANGED intfVars
    BY <1>8 DEF DisableOnDemand, EnableOnDemand
  <1> QED BY <1>2, <1>3, <1>5, <1>6, <1>7, <1>8 DEF Next, Config

------------------------------------------------------------------------------
(* ARP entries *)

\* What a table says after the entries of the addresses V have gone, those of
\* the adjacencies L that are up no longer among them.
LEMMA ClearedMapping ==
  ASSUME TypeInv, Mapping, NEW V, NEW L \in SUBSET Links, arp' = Cleared(V),
         \A v \in V : \E a \in L : v \in Nets[a],
         \A a \in L : state'[a] # "UP" /\ (state[a] = "UP" => ip[a] \in V),
         \A a \in Links \ L : (state'[a] = "UP" <=> state[a] = "UP")
                              /\ (state[a] = "UP" => ip'[a] = ip[a])
  PROVE  Mapping'
  <1>1. arp \in [Ips -> Entries] /\ ip \in [Links -> Ips]
    BY DEF TypeInv, TypeOK
  <1>2. /\ \A v \in Ips : v \in V => arp'[v].adj = NULL
        /\ \A v \in Ips : v \notin V => arp'[v] = arp[v]
    BY <1>1 DEF Cleared, NoEntry
  <1>3. ASSUME NEW v \in Ips, arp'[v].adj # NULL
        PROVE  state'[arp'[v].adj] = "UP" /\ ip'[arp'[v].adj] = v
    <2>1. v \notin V /\ arp'[v] = arp[v]
      BY <1>2, <1>3
    <2>2. PICK a : a = arp[v].adj
      OBVIOUS
    <2>3. a \in Links /\ state[a] = "UP" /\ ip[a] = v
      BY <1>1, <1>3, <2>1, <2>2 DEF Mapping, EntriesLive, Entries
    <2>4. a \notin L
      BY <2>1, <2>3
    <2> QED BY <2>1, <2>2, <2>3, <2>4
  <1>4. ASSUME NEW a \in Links, state'[a] = "UP", ip'[a] \notin Resolving,
               \A b \in Links \ {a} : ip'[a] \notin Nets[b]
        PROVE  arp'[ip'[a]].adj = a
    <2>1. a \notin L /\ state[a] = "UP" /\ ip'[a] = ip[a]
      BY <1>4
    <2>2. arp[ip[a]].adj = a /\ ip[a] \in Ips
      BY <1>1, <1>4, <2>1 DEF Mapping, EntriesPresent, Private
    <2>3. ip[a] \notin V
      BY <1>4, <2>1
    <2> QED BY <1>2, <2>1, <2>2, <2>3
  <1> QED BY <1>3, <1>4 DEF Mapping, EntriesLive, EntriesPresent, Private

\* A neighbour that comes up gets the entry of its address.
LEMMA EnteredMapping ==
  ASSUME TypeInv, Mapping, NEW a \in Links, arp' = Entered(ip[a], a), ip' = ip,
         state[a] # "UP", state'[a] = "UP",
         \A b \in Links : b # a => state'[b] = state[b]
  PROVE  Mapping'
  <1>1. arp \in [Ips -> Entries] /\ ip \in [Links -> Ips] /\ \A b \in Links : ip[b] \in Nets[b]
    BY DEF TypeInv, TypeOK
  <1>2. /\ arp'[ip[a]].adj = a
        /\ \A v \in Ips : v # ip[a] => arp'[v] = arp[v]
    BY <1>1 DEF Entered
  <1>3. ASSUME NEW v \in Ips, arp'[v].adj # NULL
        PROVE  state'[arp'[v].adj] = "UP" /\ ip'[arp'[v].adj] = v
    <2>1. CASE v = ip[a]
      BY <1>2, <2>1
    <2>2. CASE v # ip[a]
      <3>1. arp'[v] = arp[v]
        BY <1>2, <2>2
      <3>2. PICK b : b = arp[v].adj
        OBVIOUS
      <3>3. b \in Links /\ state[b] = "UP" /\ ip[b] = v
        BY <1>1, <1>3, <3>1, <3>2 DEF Mapping, EntriesLive, Entries
      <3> QED BY <3>1, <3>2, <3>3
    <2> QED BY <2>1, <2>2
  <1>4. ASSUME NEW b \in Links, state'[b] = "UP", ip'[b] \notin Resolving,
               \A c \in Links \ {b} : ip'[b] \notin Nets[c]
        PROVE  arp'[ip'[b]].adj = b
    <2>1. CASE b = a
      BY <1>2, <2>1
    <2>2. CASE b # a
      <3>1. arp[ip[b]].adj = b /\ ip[b] \in Ips
        BY <1>1, <1>4, <2>2 DEF Mapping, EntriesPresent, Private
      <3>2. ip[b] # ip[a]
        BY <1>1, <1>4, <2>2
      <3> QED BY <1>2, <3>1, <3>2
    <2> QED BY <2>1, <2>2
  <1> QED BY <1>3, <1>4 DEF Mapping, EntriesLive, EntriesPresent, Private

\* ARP's own entries come and go at addresses it resolves.
LEMMA DataPlaneMapping ==
  ASSUME TypeInv, Mapping, DataPlane
  PROVE  Mapping'
  <1>1. arp \in [Ips -> Entries] /\ ip \in [Links -> Ips]
    BY DEF TypeInv, TypeOK
  <1>2. PICK v \in Resolving : Resolve(v) \/ Settle(v)
    BY DEF DataPlane
  <1>3. /\ v \in Ips /\ state' = state /\ ip' = ip
        /\ arp'[v].adj = NULL
        /\ \A u \in Ips : u # v => arp'[u] = arp[u]
    BY <1>1, <1>2, AdjacencyAssumption DEF Resolve, Settle, NoEntry, adjVars
  <1>4. EntriesLive'
    BY <1>3 DEF Mapping, EntriesLive
  <1>5. EntriesPresent'
    BY <1>1, <1>3 DEF Mapping, EntriesPresent, Private
  <1> QED BY <1>4, <1>5 DEF Mapping

LEMMA MappingStep ==
  ASSUME TypeInv, TypeInv', ListSound, JobSound, AdjTimers, Mapping, Next, broken' = "no"
  PROVE  Mapping'
  <1>1. ASSUME arp' = arp,
               \A a \in Links : (state'[a] = "UP" <=> state[a] = "UP")
                                /\ (state[a] = "UP" => ip'[a] = ip[a])
        PROVE  Mapping'
    <2>1. \A v \in Ips : arp[v].adj \in Links \cup {NULL}
      BY DEF TypeInv, TypeOK, Entries
    <2>2. EntriesLive'
      BY <1>1, <2>1 DEF Mapping, EntriesLive
    <2>3. EntriesPresent'
      BY <1>1 DEF Mapping, EntriesPresent, Private
    <2> QED BY <2>2, <2>3 DEF Mapping
  <1>2. ASSUME NEW a \in Links, HelloNew(a) \/ HelloInit(a) \/ HelloAgain(a)
                                \/ FireExpiry(a) \/ FireDelete(a)
        PROVE  Mapping'
    <2>1. /\ arp' = arp
          /\ \A b \in Links : (state'[b] = "UP" <=> state[b] = "UP")
                              /\ (state[b] = "UP" => ip'[b] = ip[b])
      BY <1>2 DEF HelloNew, HelloInit, HelloAgain, FireExpiry, FireDelete, TypeInv, TypeOK
    <2> QED BY <1>1, <2>1
  <1> DEFINE StillUp(L) == \A b \in Links \ L : (state'[b] = "UP" <=> state[b] = "UP")
                                             /\ (state[b] = "UP" => ip'[b] = ip[b])
  <1>3. ASSUME NEW a \in Links, HelloChanged(a), state[a] = "DOWN" PROVE Mapping'
    <2>1. arp' = Cleared({ip[a]}) /\ state' = state
      BY <1>3 DEF HelloChanged
    <2>2. \A b \in Links : b # a => ip'[b] = ip[b]
      BY <1>3 DEF HelloChanged, TypeInv, TypeOK
    <2>3. ip[a] \in Nets[a]
      BY DEF TypeInv, TypeOK
    <2>4. PICK V, L : V = {ip[a]} /\ L = {a}
      OBVIOUS
    <2>5. L \in SUBSET Links /\ arp' = Cleared(V) /\ StillUp(L)
      BY <2>1, <2>2, <2>4
    <2> QED BY <1>3, <2>1, <2>3, <2>4, <2>5, ClearedMapping
  <1>4. ASSUME NEW a \in Links, HelloUp(a) PROVE Mapping'
    <2>1. /\ arp' = Entered(ip[a], a) /\ ip' = ip
          /\ state' = [state EXCEPT ![a] = "UP"] /\ state[a] = "INIT"
      BY <1>4 DEF HelloUp, Map
    <2>2. state'[a] = "UP" /\ \A b \in Links : b # a => state'[b] = state[b]
      BY <2>1 DEF TypeInv, TypeOK
    <2> QED BY <2>1, <2>2, EnteredMapping
  <1>5. ASSUME NEW a \in Links, Down(a) PROVE Mapping'
    <2>1. /\ arp' = Cleared({ip[a], ip'[a]})
          /\ state' = [state EXCEPT ![a] = "DOWN"]
          /\ \A b \in Links : b # a => ip'[b] = ip[b]
      BY <1>5, DownProperties DEF Down
    <2>2. state'[a] # "UP" /\ \A b \in Links : b # a => state'[b] = state[b]
      BY <2>1 DEF TypeInv, TypeOK
    <2>3. ip[a] \in Nets[a] /\ ip'[a] \in Nets[a]
      BY DEF TypeInv, TypeOK
    <2>4. PICK V, L : V = {ip[a], ip'[a]} /\ L = {a}
      OBVIOUS
    <2>5. L \in SUBSET Links /\ arp' = Cleared(V) /\ StillUp(L)
      BY <2>1, <2>2, <2>4
    <2> QED BY <2>2, <2>3, <2>4, <2>5, ClearedMapping
  <1>6. ASSUME NEW i \in Intfs, NEW S, NEW rest, NEW jobs, NEW leave,
               Gone(S, i, rest, jobs, leave)
        PROVE  Mapping'
    <2>1. \A a \in Links : state'[a] = IF a \in S THEN "none" ELSE state[a]
      BY <1>6, GoneAdjs
    <2>2. PICK V : V = {ip[a] : a \in {b \in S : state[b] = "UP"}}
      OBVIOUS
    <2>3. arp' = Cleared(V) /\ S \in SUBSET Links /\ ip' = ip
      BY <1>6, <2>2 DEF Gone, Free
    <2>4. ASSUME NEW v \in V PROVE \E a \in S : v \in Nets[a]
      <3>1. PICK a \in S : v = ip[a]
        BY <2>2
      <3>2. ip[a] \in Nets[a]
        BY <2>3 DEF TypeInv, TypeOK
      <3> QED BY <3>1, <3>2
    <2>5. \A a \in S : state'[a] # "UP" /\ (state[a] = "UP" => ip[a] \in V)
      BY <2>1, <2>2, <2>3
    <2>6. StillUp(S)
      BY <2>1, <2>3
    <2> QED BY <2>3, <2>4, <2>5, <2>6, ClearedMapping
  <1>7. ASSUME Aside PROVE Mapping'
    <2>1. CASE arp' = arp
      BY <1>1, <1>7, <2>1 DEF Aside, adjVars
    <2>2. CASE DataPlane
      BY <2>2, DataPlaneMapping
    <2> QED BY <1>7, <2>1, <2>2 DEF Aside
  <1> QED BY <1>2, <1>3, <1>4, <1>5, <1>6, <1>7, AdjStep

------------------------------------------------------------------------------
(* Reconciliation and the LSP *)

\* Nothing new is to be advertised.
Fewer == \A a \in Links : state'[a] = "UP" =>
           state[a] = "UP" /\ ip'[a] = ip[a] /\ soft'[a] = soft[a]

LEMMA AdvertisedFewer ==
  ASSUME Fewer
  PROVE  Advertised' \subseteq Advertised
  BY DEF Fewer, Advertised

LEMMA NodeStep ==
  ASSUME TypeInv, ListSound, JobSound, AdjTimers, ReconTimer, FloodMode, Complete,
         Next, broken' = "no"
  PROVE  ReconTimer' /\ FloodMode' /\ Complete'
  <1>1. ASSUME Fewer, UNCHANGED <<lsp, nodeVars>>, genTask => genTask', recon => genTask' \/ recon'
        PROVE  FloodMode' /\ Complete'
    BY <1>1, AdvertisedFewer DEF FloodMode, Complete, nodeVars
  <1>2. ASSUME UNCHANGED <<reconVars, reconJob>> PROVE ReconTimer'
    BY <1>2 DEF ReconTimer, reconVars
  <1>3. ASSUME NEW a \in Links, HelloNew(a) \/ HelloInit(a) \/ (HelloChanged(a) /\ state[a] = "DOWN")
        PROVE  ReconTimer' /\ FloodMode' /\ Complete'
    <2>1. Fewer
      BY <1>3 DEF HelloNew, HelloInit, HelloChanged, Fewer, TypeInv, TypeOK
    <2>2. UNCHANGED <<lsp, nodeVars, reconVars, reconJob>> /\ (genTask => genTask')
      BY <1>3 DEF HelloNew, HelloInit, HelloChanged, Receive
    <2> QED BY <1>1, <1>2, <2>1, <2>2 DEF reconVars
  <1>4. ASSUME NEW a \in Links, HelloAgain(a) PROVE ReconTimer' /\ FloodMode' /\ Complete'
    <2>1. UNCHANGED <<lsp, nodeVars, reconVars, reconJob, state, ip>> /\ (genTask => genTask')
      BY <1>4 DEF HelloAgain, Receive
    <2>2. CASE soft' = soft
      BY <1>1, <1>2, <2>1, <2>2 DEF Fewer, reconVars
    <2>3. CASE soft' # soft
      BY <1>2, <1>4, <2>1, <2>3 DEF HelloAgain, FloodMode, Complete, nodeVars
    <2> QED BY <2>2, <2>3
  <1>5. ASSUME NEW a \in Links, HelloUp(a) PROVE ReconTimer' /\ FloodMode' /\ Complete'
    <2>1. UNCHANGED <<lsp, nodeVars, reconJob>>
      BY <1>5 DEF HelloUp, Receive
    <2>2. FloodMode'
      BY <2>1 DEF FloodMode, nodeVars
    <2>3. ReconTimer'
      <3>1. CASE upCount' = 1 /\ onDemand /\ ~recon
        BY <1>5, <3>1 DEF HelloUp, EntersRecon, StartReconTimer, ReconTimer
      <3>2. CASE upCount' # 1 /\ recon
        BY <1>5, <3>2 DEF HelloUp, EntersRecon, StartReconTimer, ReconTimer
      <3>3. CASE ~(upCount' = 1 /\ onDemand /\ ~recon) /\ ~(upCount' # 1 /\ recon)
        BY <1>5, <2>1, <3>3 DEF HelloUp, EntersRecon, StartReconTimer, ReconTimer
      <3> QED BY <3>1, <3>2, <3>3
    <2>4. genTask' \/ recon' \/ lost'
      BY <1>5, <2>1 DEF HelloUp, EntersRecon, FloodMode, nodeVars
    <2> QED BY <2>2, <2>3, <2>4 DEF Complete
  <1>6. ASSUME NEW a \in Links, Down(a) PROVE ReconTimer' /\ FloodMode' /\ Complete'
    <2>1. state' = [state EXCEPT ![a] = "DOWN"]
      BY <1>6, DownProperties
    <2>2. Fewer
      BY <1>6, <2>1 DEF Down, Fewer, TypeInv, TypeOK
    <2>3. UNCHANGED <<lsp, nodeVars, reconJob, recon>> /\ (genTask => genTask')
      BY <1>6 DEF Down, GoDown
    <2>4. reconTimer' = reconTimer \/ (recon /\ reconTimer' = "armed")
      BY <1>6 DEF Down, GoDown, StartReconTimer
    <2> QED BY <1>1, <2>2, <2>3, <2>4 DEF ReconTimer
  <1>7. ASSUME NEW i \in Intfs, NEW S, NEW rest, NEW jobs, NEW leave,
               Gone(S, i, rest, jobs, leave)
        PROVE  ReconTimer' /\ FloodMode' /\ Complete'
    <2>1. \A a \in Links : state'[a] = IF a \in S THEN "none" ELSE state[a]
      BY <1>7, GoneAdjs
    <2>2. UNCHANGED <<ip, soft, lsp, nodeVars, reconVars, reconJob>> /\ (genTask => genTask')
      BY <1>7 DEF Gone
    <2>3. Fewer
      BY <2>1, <2>2 DEF Fewer
    <2> QED BY <1>1, <1>2, <2>2, <2>3 DEF reconVars
  <1>8. ASSUME UNCHANGED <<state, ip, soft>> PROVE Fewer /\ Advertised' = Advertised
    BY <1>8 DEF Fewer, Advertised
  <1>9. ASSUME FireRecon PROVE ReconTimer' /\ FloodMode' /\ Complete'
    <2>1. UNCHANGED <<state, ip, soft, lsp, nodeVars, recon, genTask>>
      BY <1>9 DEF FireRecon, adjVars
    <2> QED BY <1>1, <1>8, <1>9, <2>1 DEF FireRecon, ReconTimer
  <1>10. ASSUME ExitRecon PROVE ReconTimer' /\ FloodMode' /\ Complete'
    <2>1. /\ UNCHANGED <<state, ip, soft, lsp, nodeVars>> /\ ~recon'
          /\ genTask' = (genTask \/ recon)
      BY <1>10 DEF ExitRecon, ExitGen, adjVars
    <2>2. ReconTimer'
      BY <1>10, <2>1 DEF ExitRecon, StopReconTimer, ReconTimer
    <2> QED BY <1>1, <1>8, <2>1, <2>2
  <1>11. ASSUME PeriodicFlood PROVE ReconTimer' /\ FloodMode' /\ Complete'
    <2>1. UNCHANGED <<state, ip, soft, lsp, nodeVars, reconVars, reconJob>> /\ genTask'
      BY <1>11 DEF PeriodicFlood, adjVars
    <2> QED BY <1>1, <1>2, <1>8, <2>1
  <1>12. ASSUME Generate PROVE ReconTimer' /\ FloodMode' /\ Complete'
    <2>1. UNCHANGED <<state, ip, soft, nodeVars, reconVars, reconJob>> /\ lsp' = Advertised
      BY <1>12 DEF Generate, adjVars
    <2> QED BY <1>2, <1>8, <2>1 DEF FloodMode, Complete, nodeVars
  <1>13. ASSUME DisableOnDemand \/ EnableOnDemand PROVE ReconTimer' /\ FloodMode' /\ Complete'
    <2>1. UNCHANGED <<state, ip, soft, lsp, reconVars, reconJob, genTask>>
      BY <1>13 DEF DisableOnDemand, EnableOnDemand, adjVars
    <2>2. lost'
      BY <1>13 DEF DisableOnDemand, EnableOnDemand, FloodMode
    <2> QED BY <1>2, <2>1, <2>2 DEF FloodMode, Complete
  <1>14. ASSUME Aside PROVE ReconTimer' /\ FloodMode' /\ Complete'
    <2>1. CASE OfNode
      BY <1>9, <1>10, <1>11, <1>12, <1>13, <2>1 DEF OfNode
    <2>2. CASE ~OfNode
      BY <1>1, <1>2, <1>8, <1>14, <2>2 DEF Aside, adjVars, reconVars
    <2> QED BY <2>1, <2>2
  <1>15. ASSUME NEW a \in Links, FireExpiry(a) \/ FireDelete(a)
         PROVE  ReconTimer' /\ FloodMode' /\ Complete'
    <2>1. UNCHANGED <<state, ip, soft, lsp, nodeVars, reconVars, reconJob, genTask>>
      BY <1>15 DEF FireExpiry, FireDelete
    <2> QED BY <1>1, <1>2, <1>8, <2>1 DEF reconVars
  <1> QED BY <1>3, <1>4, <1>5, <1>6, <1>7, <1>14, <1>15, AdjStep

------------------------------------------------------------------------------
(* Groups *)

\* Interface i, member of a group or of none, is placed anew in its group.
LEMMA RefreshProperties ==
  ASSUME TypeInv, Membership, MemberOnce, NEW i \in Intfs, RefreshGroup(i), grp' = grp
  PROVE  /\ Membership' /\ MemberOnce'
         /\ \A n \in Nbrs : \A x, y \in Intfs : Before(members'[n], x, y) =>
              \/ x # i /\ y # i /\ Before(members[n], x, y)
              \/ n = grp[i] /\ FirstUp(state', i) /\ x = i /\ y # i
              \/ n = grp[i] /\ ~FirstUp(state', i) /\ x # i /\ y = i
  <1>1. grp[i] \in Nbrs \cup {NULL} /\ NULL \notin Nbrs
    BY AdjacencyAssumption DEF TypeInv, TypeOK
  <1>2. CASE grp[i] = NULL
    <2>1. members' = members
      BY <1>2 DEF RefreshGroup
    <2>2. \A n \in Nbrs : i \notin ToSet(members[n])
      BY <1>1, <1>2 DEF Membership
    <2>3. \A n \in Nbrs : \A x, y \in Intfs : Before(members[n], x, y) => x # i /\ y # i
      BY <2>2 DEF Before, ToSet
    <2>4. Membership' /\ MemberOnce'
      BY <2>1 DEF Membership, MemberOnce
    <2> QED BY <2>1, <2>3, <2>4
  <1>3. CASE grp[i] # NULL
    <2>1. PICK g \in Nbrs : g = grp[i]
      BY <1>1, <1>3
    <2>2. CASE FirstUp(state', i)
      <3>1. PICK r : r = InFront(g, i) /\ r = members'
        BY <1>3, <2>1, <2>2, RefreshCases
      <3>2. PutFirst(r, g, i)
        BY <3>1, RejoinFront
      <3>3. ASSUME NEW n \in Nbrs PROVE ToSet(r[n]) = ToSet(members[n])
        <4>1. CASE n = g
          <5>1. ToSet(r[n]) = ToSet(members[n]) \cup {i}
            BY <3>2, <4>1 DEF PutFirst
          <5>2. i \in ToSet(members[n])
            BY <2>1, <4>1 DEF Membership
          <5> QED BY <5>1, <5>2
        <4>2. CASE n # g
          <5>1. ToSet(r[n]) = ToSet(members[n]) \ {i}
            BY <3>2, <4>2 DEF PutFirst
          <5>2. i \notin ToSet(members[n])
            BY <2>1, <4>2 DEF Membership
          <5> QED BY <5>1, <5>2
        <4> QED BY <4>1, <4>2
      <3>4. Membership' /\ MemberOnce'
        BY <3>1, <3>2, <3>3 DEF Membership, MemberOnce, PutFirst
      <3> QED BY <2>1, <2>2, <3>1, <3>2, <3>4 DEF PutFirst
    <2>3. CASE ~FirstUp(state', i)
      <3>1. PICK r : r = Back(g, i) /\ r = members'
        BY <1>3, <2>1, <2>3, RefreshCases
      <3>2. PutLast(r, g, i)
        BY <3>1, RejoinBack
      <3>3. ASSUME NEW n \in Nbrs PROVE ToSet(r[n]) = ToSet(members[n])
        <4>1. CASE n = g
          <5>1. ToSet(r[n]) = ToSet(members[n]) \cup {i}
            BY <3>2, <4>1 DEF PutLast
          <5>2. i \in ToSet(members[n])
            BY <2>1, <4>1 DEF Membership
          <5> QED BY <5>1, <5>2
        <4>2. CASE n # g
          <5>1. ToSet(r[n]) = ToSet(members[n]) \ {i}
            BY <3>2, <4>2 DEF PutLast
          <5>2. i \notin ToSet(members[n])
            BY <2>1, <4>2 DEF Membership
          <5> QED BY <5>1, <5>2
        <4> QED BY <4>1, <4>2
      <3>4. Membership' /\ MemberOnce'
        BY <3>1, <3>2, <3>3 DEF Membership, MemberOnce, PutLast
      <3> QED BY <2>1, <2>3, <3>1, <3>2, <3>4 DEF PutLast
    <2> QED BY <2>2, <2>3
  <1> QED BY <1>2, <1>3

\* A new adjacency: its interface joins the group of its neighbour.
LEMMA JoinProperties ==
  ASSUME TypeInv, Membership, MemberOnce, NEW i \in Intfs, NEW n \in Nbrs, JoinGroup(<<i, n>>)
  PROVE  /\ Membership' /\ MemberOnce'
         /\ grp'[i] = n /\ \A j \in Intfs : j # i => grp'[j] = grp[j]
         /\ \A m \in Nbrs : \A x, y \in Intfs : Before(members'[m], x, y) =>
              Before(members[m], x, y) \/ (m = n /\ grp[i] # n /\ x # i /\ y = i)
  <1>1. /\ grp' = [grp EXCEPT ![i] = n]
        /\ members' = IF grp[i] = n THEN members ELSE Rejoin(n, i, FALSE)
    BY DEF JoinGroup
  <1>2. grp'[i] = n /\ \A j \in Intfs : j # i => grp'[j] = grp[j]
    BY <1>1 DEF TypeInv, TypeOK
  <1>3. CASE grp[i] = n
    <2>1. members' = members
      BY <1>1, <1>3
    <2>2. \A j \in Intfs : grp'[j] = grp[j]
      BY <1>2, <1>3
    <2>3. Membership' /\ MemberOnce'
      BY <2>1, <2>2 DEF Membership, MemberOnce
    <2> QED BY <1>2, <2>1, <2>3
  <1>4. CASE grp[i] # n
    <2>1. PICK r : r = Back(n, i) /\ r = members'
      BY <1>1, <1>4 DEF Rejoin, Back
    <2>2. PutLast(r, n, i)
      BY <2>1, RejoinBack
    <2>3. Membership' /\ MemberOnce'
      BY <1>2, <2>1, <2>2 DEF Membership, MemberOnce, PutLast
    <2>4. \A m \in Nbrs : \A x, y \in Intfs : Before(members'[m], x, y) =>
              Before(members[m], x, y) \/ (m = n /\ grp[i] # n /\ x # i /\ y = i)
      BY <1>4, <2>1, <2>2 DEF PutLast
    <2> QED BY <1>2, <2>3, <2>4
  <1> QED BY <1>3, <1>4

\* Adjacencies are gone: their interface may leave its group, and must if the
\* group is that of a neighbour it lost.
LEMMA LeaveGroupProperties ==
  ASSUME TypeInv, Membership, MemberOnce, NEW i \in Intfs, NEW names, NEW leave,
         LeaveGroup(i, names, leave)
  PROVE  /\ Membership' /\ MemberOnce'
         /\ grp'[i] = NULL \/ (grp'[i] = grp[i] /\ grp[i] \notin names)
         /\ \A j \in Intfs : j # i => grp'[j] = grp[j]
         /\ groups' = groups \ {n \in names : members'[n] = << >>}
         /\ \A n \in Nbrs : \A x, y \in Intfs :
              Before(members'[n], x, y) => Before(members[n], x, y)
  <1>1. PICK quits : quits <=> (leave \/ grp[i] \in names)
    OBVIOUS
  <1>2. /\ grp' = IF quits THEN [grp EXCEPT ![i] = NULL] ELSE grp
        /\ members' = IF quits THEN [n \in Nbrs |-> RemoveFirst(members[n], i)] ELSE members
        /\ groups' = groups \ {n \in names : members'[n] = << >>}
    BY <1>1, Zenon DEF LeaveGroup
  <1>3. CASE quits
    <2>1. PICK r : r = [n \in Nbrs |-> RemoveFirst(members[n], i)]
      OBVIOUS
    <2>2. members' = r
      BY <1>2, <1>3, <2>1
    <2>3. \A n \in Nbrs :
            /\ IsInjective(r[n]) /\ ToSet(r[n]) = ToSet(members[n]) \ {i}
            /\ \A x, y : Before(r[n], x, y) => x # i /\ y # i /\ Before(members[n], x, y)
      BY <2>1, LeaveProperties
    <2>4. grp'[i] = NULL /\ \A j \in Intfs : j # i => grp'[j] = grp[j]
      BY <1>2, <1>3 DEF TypeInv, TypeOK
    <2>5. Membership' /\ MemberOnce'
      BY <2>2, <2>3, <2>4, AdjacencyAssumption DEF Membership, MemberOnce
    <2> QED BY <1>2, <2>2, <2>3, <2>4, <2>5
  <1>4. CASE ~quits
    <2>1. grp' = grp /\ members' = members /\ grp[i] \notin names
      BY <1>1, <1>2, <1>4
    <2>2. Membership' /\ MemberOnce'
      BY <2>1 DEF Membership, MemberOnce
    <2> QED BY <1>2, <2>1, <2>2
  <1> QED BY <1>3, <1>4

LEMMA GoneGroups ==
  ASSUME TypeInv, NEW S, NEW i \in Intfs, NEW rest, NEW jobs, NEW leave,
         Gone(S, i, rest, jobs, leave)
  PROVE  \E names : /\ LeaveGroup(i, names, leave) /\ names = {a[2] : a \in S}
                    /\ S \in SUBSET Links /\ \A a \in S : a[1] = i
  <1>1. LeaveGroup(i, {a[2] : a \in S}, leave)
    BY DEF Gone, Free
  <1> QED BY <1>1 DEF Gone

LEMMA GroupStep ==
  ASSUME TypeInv, ListSound, JobSound, AdjTimers, Membership, MemberOnce, GroupAlive,
         Next, broken' = "no"
  PROVE  Membership' /\ MemberOnce' /\ GroupAlive'
  <1>1. ASSUME UNCHANGED grpVars, Kept PROVE Membership' /\ MemberOnce' /\ GroupAlive'
    BY <1>1 DEF grpVars, Kept, Membership, MemberOnce, GroupAlive
  <1>2. ASSUME NEW i \in Intfs, RefreshGroup(i), Kept, UNCHANGED <<grp, groups>>
        PROVE  Membership' /\ MemberOnce' /\ GroupAlive'
    <2>1. GroupAlive'
      BY <1>2 DEF Kept, GroupAlive
    <2> QED BY <1>2, <2>1, RefreshProperties
  <1>3. ASSUME NEW a \in Links, HelloNew(a) PROVE Membership' /\ MemberOnce' /\ GroupAlive'
    <2>1. PICK i \in Intfs, n \in Nbrs : a = <<i, n>>
      BY AdjacencyAssumption
    <2>2. JoinGroup(<<i, n>>) /\ state' = [state EXCEPT ![a] = "DOWN"]
      BY <1>3, <2>1 DEF HelloNew
    <2>3. Membership' /\ MemberOnce' /\ grp'[i] = n /\ \A j \in Intfs : j # i => grp'[j] = grp[j]
      BY <2>2, JoinProperties
    <2>4. groups' = groups \cup {n}
      BY <2>2 DEF JoinGroup
    <2>5. \A b \in Links : state'[b] = IF b = a THEN "DOWN" ELSE state[b]
      BY <2>2 DEF TypeInv, TypeOK
    <2>6. ASSUME NEW j \in Intfs, NEW m \in Nbrs, grp'[j] = m
          PROVE  m \in groups' /\ <<j, m>> \in Links /\ state'[<<j, m>>] # "none"
      <3>1. CASE j = i
        BY <2>1, <2>3, <2>4, <2>5, <2>6, <3>1
      <3>2. CASE j # i
        <4>1. m \in groups /\ <<j, m>> \in Links /\ state[<<j, m>>] # "none"
          BY <2>3, <2>6, <3>2 DEF GroupAlive
        <4> QED BY <2>4, <2>5, <4>1
      <3> QED BY <3>1, <3>2
    <2> QED BY <2>3, <2>6 DEF GroupAlive
  <1>4. ASSUME NEW a \in Links, HelloUp(a) PROVE Membership' /\ MemberOnce' /\ GroupAlive'
    <2>1. Kept
      BY <1>4 DEF HelloUp, Kept, TypeInv, TypeOK
    <2>2. a[1] \in Intfs /\ RefreshGroup(a[1]) /\ UNCHANGED <<grp, groups>>
      BY <1>4, AdjacencyAssumption DEF HelloUp
    <2> QED BY <1>2, <2>1, <2>2
  <1>5. ASSUME NEW a \in Links, Down(a) PROVE Membership' /\ MemberOnce' /\ GroupAlive'
    <2>1. a[1] \in Intfs /\ RefreshGroup(a[1]) /\ Kept
      BY <1>5, DownProperties, AdjacencyAssumption
    <2> QED BY <1>2, <1>5, <2>1 DEF Down
  <1>6. ASSUME NEW a \in Links, \/ HelloChanged(a) /\ state[a] = "DOWN"
                                \/ HelloInit(a) \/ HelloAgain(a)
                                \/ FireExpiry(a) \/ FireDelete(a)
        PROVE  Kept /\ UNCHANGED grpVars
    BY <1>6 DEF HelloChanged, HelloInit, HelloAgain, FireExpiry, FireDelete, Kept, grpVars,
                TypeInv, TypeOK
  <1>7. ASSUME NEW i \in Intfs, NEW S, NEW rest, NEW jobs, NEW leave,
               Gone(S, i, rest, jobs, leave)
        PROVE  Membership' /\ MemberOnce' /\ GroupAlive'
    <2>1. PICK names : /\ LeaveGroup(i, names, leave) /\ names = {a[2] : a \in S}
                       /\ S \in SUBSET Links /\ \A a \in S : a[1] = i
      BY <1>7, GoneGroups
    <2>2. /\ Membership' /\ MemberOnce'
          /\ grp'[i] = NULL \/ (grp'[i] = grp[i] /\ grp[i] \notin names)
          /\ \A j \in Intfs : j # i => grp'[j] = grp[j]
          /\ groups' = groups \ {n \in names : members'[n] = << >>}
      BY <2>1, LeaveGroupProperties
    <2>3. \A a \in Links : state'[a] = IF a \in S THEN "none" ELSE state[a]
      BY <1>7, GoneAdjs
    <2>4. ASSUME NEW j \in Intfs, NEW n \in Nbrs, grp'[j] = n
          PROVE  n \in groups' /\ <<j, n>> \in Links /\ state'[<<j, n>>] # "none"
      <3>1. grp[j] = n /\ (j = i => n \notin names)
        BY <2>2, <2>4, AdjacencyAssumption
      <3>2. n \in groups /\ <<j, n>> \in Links /\ state[<<j, n>>] # "none"
        BY <3>1 DEF GroupAlive
      <3>3. members'[n] # << >>
        <4>1. j \in ToSet(members'[n])
          BY <2>2, <2>4 DEF Membership
        <4> QED BY <4>1 DEF ToSet
      <3>4. <<j, n>> \notin S
        BY <2>1, <3>1
      <3> QED BY <2>2, <2>3, <3>2, <3>3, <3>4
    <2> QED BY <2>2, <2>4 DEF GroupAlive
  <1>8. ASSUME Aside PROVE Kept /\ UNCHANGED grpVars
    BY <1>8 DEF Aside, adjVars, Kept
  <1> QED BY <1>1, <1>3, <1>4, <1>5, <1>6, <1>7, <1>8, AdjStep

------------------------------------------------------------------------------
(* Groups over parallel point-to-point links *)

\* Two interfaces in the list of neighbour n's group each hear nobody but n.
LEMMA MembersAlone ==
  ASSUME ParallelPointToPoint, NEW n \in Nbrs, NEW s \in Seq(Intfs), IsInjective(s),
         \A j \in ToSet(s) : <<j, n>> \in Links,
         NEW x \in Intfs, NEW y \in Intfs, Before(s, x, y)
  PROVE  x \in ToSet(s) /\ y \in ToSet(s) /\ x # y /\ Alone(x, n) /\ Alone(y, n)
  <1>1. PICK i, j \in DOMAIN s : i < j /\ s[i] = x /\ s[j] = y
    BY DEF Before
  <1>2. i # j
    BY <1>1, Elements
  <1>3. x \in ToSet(s) /\ y \in ToSet(s) /\ x # y
    BY <1>1, <1>2 DEF ToSet, IsInjective
  <1> QED BY <1>3 DEF ParallelPointToPoint, Alone

\* An interface that hears one neighbour has it first in its list.
LEMMA HeadAlone ==
  ASSUME TypeInv, ListSound, NEW i \in Intfs, NEW n \in Nbrs, Alone(i, n), state[i, n] # "none"
  PROVE  list[i] # << >> /\ Head(list[i]) = n
  <1>1. list[i] \in Seq(Nbrs)
    BY DEF TypeInv, TypeOK
  <1>2. n \in ToSet(list[i])
    BY DEF ListSound, Alone
  <1>3. list[i] # << >>
    BY <1>1, <1>2, Elements
  <1>4. Head(list[i]) \in Nbrs /\ Head(list[i]) \in ToSet(list[i])
    BY <1>1, <1>3, TailElements
  <1> QED BY <1>3, <1>4 DEF ListSound, Alone

LEMMA GroupedStep ==
  ASSUME ParallelPointToPoint, TypeInv, ListSound, JobSound, AdjTimers, Membership,
         MemberOnce, GroupAlive, Grouped, Next, broken' = "no"
  PROVE  Grouped'
  <1>1. ASSUME UNCHANGED <<grp, groups>>, Kept PROVE Grouped'
    BY <1>1 DEF Kept, Grouped, Alone
  <1>2. ASSUME NEW a \in Links, HelloNew(a) PROVE Grouped'
    <2>1. PICK i \in Intfs, n \in Nbrs : a = <<i, n>>
      BY AdjacencyAssumption
    <2>2. JoinGroup(<<i, n>>) /\ state' = [state EXCEPT ![a] = "DOWN"]
      BY <1>2, <2>1 DEF HelloNew
    <2>3. grp'[i] = n /\ \A j \in Intfs : j # i => grp'[j] = grp[j]
      BY <2>2, JoinProperties
    <2>4. groups' = groups \cup {n}
      BY <2>2 DEF JoinGroup
    <2>5. \A b \in Links : state'[b] = IF b = a THEN "DOWN" ELSE state[b]
      BY <2>2 DEF TypeInv, TypeOK
    <2>6. ASSUME NEW j \in Intfs, NEW m \in Nbrs, <<j, m>> \in Links, state'[<<j, m>>] # "none"
          PROVE  m \in groups' /\ (Alone(j, m) => grp'[j] = m)
      <3>1. CASE <<j, m>> = a
        BY <2>1, <2>3, <2>4, <3>1
      <3>2. CASE <<j, m>> # a
        <4>1. m \in groups /\ (Alone(j, m) => grp[j] = m)
          BY <2>5, <2>6, <3>2 DEF Grouped
        <4>2. Alone(j, m) => j # i
          BY <2>1, <3>2 DEF Alone
        <4> QED BY <2>3, <2>4, <4>1, <4>2
      <3> QED BY <3>1, <3>2
    <2> QED BY <2>6 DEF Grouped, Alone
  <1>3. ASSUME NEW a \in Links, \/ HelloChanged(a) /\ state[a] = "DOWN"
                                \/ HelloInit(a) \/ HelloUp(a) \/ HelloAgain(a)
                                \/ FireExpiry(a) \/ FireDelete(a)
        PROVE  Kept /\ UNCHANGED <<grp, groups>>
    BY <1>3 DEF HelloChanged, HelloInit, HelloUp, HelloAgain, FireExpiry, FireDelete, Kept,
                grpVars, TypeInv, TypeOK
  <1>4. ASSUME NEW a \in Links, Down(a) PROVE Kept /\ UNCHANGED <<grp, groups>>
    BY <1>4, DownProperties DEF Down
  <1>5. ASSUME NEW i \in Intfs, NEW S, NEW rest, NEW jobs, NEW leave,
               Gone(S, i, rest, jobs, leave)
        PROVE  Grouped'
    <2>1. PICK names : /\ LeaveGroup(i, names, leave) /\ names = {a[2] : a \in S}
                       /\ S \in SUBSET Links /\ \A a \in S : a[1] = i
      BY <1>5, GoneGroups
    <2>2. /\ Membership'
          /\ \A j \in Intfs : j # i => grp'[j] = grp[j]
          /\ groups' = groups \ {n \in names : members'[n] = << >>}
      BY <2>1, LeaveGroupProperties
    <2>3. \A a \in Links : state'[a] = IF a \in S THEN "none" ELSE state[a]
      BY <1>5, GoneAdjs
    <2>4. ASSUME NEW j \in Intfs, NEW m \in Nbrs, <<j, m>> \in Links, state'[<<j, m>>] # "none"
          PROVE  m \in groups' /\ (Alone(j, m) => grp'[j] = m)
      <3>1. <<j, m>> \notin S /\ m \in groups /\ (Alone(j, m) => grp[j] = m)
        BY <2>3, <2>4 DEF Grouped
      \* If i hears only m and S is not all of its adjacencies, S holds another.
      <3>2. Alone(j, m) => j # i
        <4>1. SUFFICES ASSUME Alone(i, m), j = i PROVE FALSE
          OBVIOUS
        <4>2. CASE S = AdjsOn(i)
          BY <2>3, <2>4, <3>1, <4>1, <4>2 DEF AdjsOn
        <4>3. ASSUME NEW a \in Links, S = {a} PROVE FALSE
          <5>1. a = <<i, a[2]>> /\ a[2] \in Nbrs
            BY <2>1, <4>3, AdjacencyAssumption
          <5>2. a[2] = m
            BY <4>1, <5>1 DEF Alone
          <5> QED BY <3>1, <4>1, <4>3, <5>1, <5>2
        <4> QED BY <1>5, <4>2, <4>3 DEF Gone
      <3>3. ASSUME m \in names PROVE members'[m] # << >>
        <4>1. PICK a \in S : a[2] = m
          BY <2>1, <3>3
        <4>2. a = <<i, m>> /\ <<i, m>> \in Links /\ <<i, m>> \in S
          BY <2>1, <4>1, AdjacencyAssumption
        <4>3. j # i
          BY <3>1, <4>2
        <4>4. Alone(j, m)
          BY <2>4, <4>2, <4>3 DEF ParallelPointToPoint, Alone
        <4>5. grp'[j] = m
          BY <2>2, <3>1, <4>3, <4>4
        <4>6. j \in ToSet(members'[m])
          BY <2>2, <4>5 DEF Membership
        <4> QED BY <4>6 DEF ToSet
      <3> QED BY <2>2, <3>1, <3>2, <3>3
    <2> QED BY <2>4 DEF Grouped, Alone
  <1>6. ASSUME Aside PROVE Kept /\ UNCHANGED <<grp, groups>>
    BY <1>6 DEF Aside, adjVars, grpVars, Kept
  <1> QED BY <1>1, <1>2, <1>3, <1>4, <1>5, <1>6, AdjStep

LEMMA OrderedStep ==
  ASSUME ParallelPointToPoint, TypeInv, TypeInv', ListSound, ListSound', JobSound, AdjTimers,
         Membership, MemberOnce, GroupAlive, Membership', MemberOnce', GroupAlive',
         Ordered, Next, broken' = "no"
  PROVE  Ordered'
  <1>1. SUFFICES ASSUME NEW n \in Nbrs, NEW x \in Intfs, NEW y \in Intfs,
                        Before(members'[n], x, y), state'[<<y, n>>] = "UP"
                 PROVE  state'[<<x, n>>] = "UP"
    <2>1. \A m \in Nbrs : ToSet(members'[m]) \subseteq Intfs
      BY Elements DEF TypeInv, TypeOK
    <2> QED BY <1>1, <2>1 DEF Ordered
  <1>2. /\ x \in ToSet(members'[n]) /\ y \in ToSet(members'[n]) /\ x # y
        /\ Alone(x, n) /\ Alone(y, n) /\ grp'[x] = n /\ grp'[y] = n
        /\ <<x, n>> \in Links /\ <<y, n>> \in Links
    <2>1. PICK s : s = members'[n]
      OBVIOUS
    <2>2. s \in Seq(Intfs) /\ IsInjective(s)
      BY <2>1 DEF TypeInv, TypeOK, MemberOnce
    <2>3. \A j \in ToSet(s) : grp'[j] = n /\ <<j, n>> \in Links
      BY <2>1, <2>2, Elements, ZenonT(40) DEF Membership, GroupAlive
    <2>4. x \in ToSet(s) /\ y \in ToSet(s) /\ x # y /\ Alone(x, n) /\ Alone(y, n)
      BY <1>1, <2>1, <2>2, <2>3, MembersAlone
    <2> QED BY <2>1, <2>3, <2>4
  <1>3. ASSUME Before(members[n], x, y), state[<<y, n>>] = "UP" PROVE state[<<x, n>>] = "UP"
    <2>1. x \in ToSet(members[n]) /\ y \in ToSet(members[n])
      BY <1>3 DEF Before, ToSet
    <2> QED BY <1>3, <2>1 DEF Ordered
  <1>4. ASSUME members' = members,
               \A b \in Links : state'[b] = "UP" <=> state[b] = "UP"
        PROVE  state'[<<x, n>>] = "UP"
    BY <1>1, <1>2, <1>3, <1>4
  <1>5. ASSUME NEW a \in Links, HelloNew(a) PROVE state'[<<x, n>>] = "UP"
    <2>1. PICK i \in Intfs, m \in Nbrs : a = <<i, m>>
      BY AdjacencyAssumption
    <2>2. JoinGroup(<<i, m>>) /\ state' = [state EXCEPT ![a] = "DOWN"] /\ state[a] = "none"
      BY <1>5, <2>1 DEF HelloNew
    <2>3. \A b \in Links : state'[b] = IF b = a THEN "DOWN" ELSE state[b]
      BY <2>2 DEF TypeInv, TypeOK
    <2>4. Before(members[n], x, y) \/ (n = m /\ y = i)
      BY <1>1, <2>2, JoinProperties
    <2>5. <<y, n>> # a /\ state[<<y, n>>] = "UP"
      BY <1>1, <1>2, <2>3
    <2>6. state[<<x, n>>] = "UP"
      BY <1>3, <2>1, <2>4, <2>5
    <2> QED BY <1>2, <2>2, <2>3, <2>6
  \* An interface is placed anew: in front when it comes up, at the end when not.
  <1>6. ASSUME NEW a \in Links, HelloUp(a) \/ Down(a) PROVE state'[<<x, n>>] = "UP"
    <2>1. PICK i \in Intfs, m \in Nbrs : a = <<i, m>>
      BY AdjacencyAssumption
    <2>2. /\ RefreshGroup(i) /\ grp' = grp /\ list' = list /\ state[a] # "none"
          /\ HelloUp(a) => state' = [state EXCEPT ![a] = "UP"]
          /\ Down(a) => state' = [state EXCEPT ![a] = "DOWN"]
      BY <1>6, <2>1, DownProperties DEF HelloUp, Down
    <2>3. /\ \A b \in Links : b # a => state'[b] = state[b]
          /\ HelloUp(a) => state'[a] = "UP"
          /\ Down(a) => state'[a] = "DOWN"
      <3>1. CASE HelloUp(a) /\ ~Down(a)
        BY <2>2, <3>1 DEF TypeInv, TypeOK
      <3>2. CASE Down(a) /\ ~HelloUp(a)
        BY <2>2, <3>2 DEF TypeInv, TypeOK
      <3>3. ~(HelloUp(a) /\ Down(a))
        BY <2>2 DEF TypeInv, TypeOK
      <3> QED BY <1>6, <3>1, <3>2, <3>3
    <2>4. \/ x # i /\ y # i /\ Before(members[n], x, y)
          \/ n = grp[i] /\ FirstUp(state', i) /\ x = i /\ y # i
          \/ n = grp[i] /\ ~FirstUp(state', i) /\ x # i /\ y = i
      BY <1>1, <2>2, RefreshProperties
    <2>5. x = i \/ y = i => m = n /\ Alone(i, n)
      BY <1>2, <2>1 DEF Alone
    <2>6. x = i \/ y = i => list[i] # << >> /\ Head(list[i]) = n
      BY <2>1, <2>2, <2>5, HeadAlone
    <2>7. CASE x # i /\ y # i
      BY <1>1, <1>2, <1>3, <2>1, <2>3, <2>4, <2>7
    <2>8. CASE x = i
      <3>1. FirstUp(state', i)
        BY <1>2, <2>4, <2>8
      <3> QED BY <2>6, <2>8, <3>1 DEF FirstUp
    <2>9. CASE y = i
      <3>1. ~FirstUp(state', i)
        BY <1>2, <2>4, <2>9
      <3> QED BY <1>1, <2>6, <2>9, <3>1 DEF FirstUp
    <2> QED BY <2>7, <2>8, <2>9
  <1>7. ASSUME NEW a \in Links, \/ HelloChanged(a) /\ state[a] = "DOWN"
                                \/ HelloInit(a) \/ HelloAgain(a)
                                \/ FireExpiry(a) \/ FireDelete(a)
        PROVE  members' = members /\ \A b \in Links : state'[b] = "UP" <=> state[b] = "UP"
    BY <1>7 DEF HelloChanged, HelloInit, HelloAgain, FireExpiry, FireDelete, grpVars,
                TypeInv, TypeOK
  <1>8. ASSUME NEW i \in Intfs, NEW S, NEW rest, NEW jobs, NEW leave,
               Gone(S, i, rest, jobs, leave)
        PROVE  state'[<<x, n>>] = "UP"
    <2>1. PICK names : /\ LeaveGroup(i, names, leave) /\ names = {a[2] : a \in S}
                       /\ S \in SUBSET Links /\ \A a \in S : a[1] = i
      BY <1>8, GoneGroups
    <2>2. /\ grp'[i] = NULL \/ (grp'[i] = grp[i] /\ grp[i] \notin names)
          /\ Before(members[n], x, y)
      BY <1>1, <2>1, LeaveGroupProperties
    <2>3. \A a \in Links : state'[a] = IF a \in S THEN "none" ELSE state[a]
      BY <1>8, GoneAdjs
    <2>4. state[<<x, n>>] = "UP"
      BY <1>1, <1>2, <1>3, <2>2, <2>3
    <2>5. <<x, n>> \notin S
      BY <1>2, <2>1, <2>2, AdjacencyAssumption
    <2> QED BY <1>2, <2>3, <2>4, <2>5
  <1>9. ASSUME Aside PROVE state'[<<x, n>>] = "UP"
    BY <1>4, <1>9 DEF Aside, adjVars, grpVars
  <1> QED BY <1>4, <1>5, <1>6, <1>7, <1>8, <1>9, AdjStep

------------------------------------------------------------------------------
(* No assertion fails *)

\* The adjacencies to be freed all have their groups.
LEMMA NamesKnown ==
  ASSUME Grouped, NEW S \in SUBSET Links, \A a \in S : state[a] # "none"
  PROVE  {a[2] : a \in S} \subseteq groups
  <1>1. ASSUME NEW a \in S PROVE a[2] \in groups
    <2>1. PICK i \in Intfs, n \in Nbrs : a = <<i, n>>
      BY AdjacencyAssumption
    <2> QED BY <2>1 DEF Grouped
  <1> QED BY <1>1

LEMMA AssertStep ==
  ASSUME TypeInv, ListSound, JobSound, AdjTimers, Qualified, ReconTimer, Grouped, Next
  PROVE  AssertsHold'
  <1>1. broken = "no"
    BY DEF Next
  <1>2. ASSUME NEW a \in Links, GoDown(a) PROVE AssertsHold'
    BY <1>1, <1>2 DEF GoDown, ReconTimer, AssertsHold, TypeInv, TypeOK
  <1>3. ASSUME NEW S \in SUBSET Links, \A a \in S : state[a] # "none",
               NEW i, NEW rest, NEW jobs, NEW leave, Free(S, i, rest, jobs, leave)
        PROVE  AssertsHold'
    <2>1. {a[2] : a \in S} \subseteq groups
      BY <1>3, NamesKnown
    <2>2. LeaveGroup(i, {a[2] : a \in S}, leave)
      BY <1>3 DEF Free
    <2>3. broken' = broken
      BY <2>1, <2>2, Zenon DEF LeaveGroup
    <2> QED BY <1>1, <2>3 DEF AssertsHold
  <1>4. ASSUME NEW a \in Links, HelloNew(a) \/ HelloChanged(a) \/ HelloInit(a)
        PROVE  AssertsHold'
    BY <1>1, <1>2, <1>4 DEF HelloNew, HelloChanged, HelloInit, AssertsHold
  <1>5. ASSUME NEW a \in Links, HelloUp(a) PROVE AssertsHold'
    <2>1. exp[a] # "off" /\ (recon => reconTimer # "off")
      BY <1>5 DEF HelloUp, AdjTimers, ReconTimer, TypeInv, TypeOK
    <2>2. broken' = "null" \/ broken' = broken
      BY <1>5, <2>1 DEF HelloUp
    <2> QED BY <1>1, <2>2 DEF AssertsHold
  <1>6. ASSUME NEW a \in Links, HelloAgain(a) PROVE AssertsHold'
    BY <1>1, <1>6 DEF HelloAgain, AdjTimers, AssertsHold
  <1>7. ASSUME NEW i \in Intfs, HelloForeign(i) PROVE AssertsHold'
    BY <1>2, <1>7, ForeignProperties
  <1>8. ASSUME NEW a \in Links, FireExpiry(a) \/ FireDelete(a) \/ ExpireJob(a) \/ DanglingJob(a)
        PROVE  AssertsHold'
    BY <1>1, <1>2, <1>8 DEF FireExpiry, FireDelete, ExpireJob, DanglingJob, AssertsHold
  <1>9. ASSUME NEW a \in Links, DeleteJob(a) PROVE AssertsHold'
    <2>1. state[a] # "none"
      BY <1>9 DEF DeleteJob, JobSound
    <2> QED BY <1>3, <1>9, <2>1 DEF DeleteJob
  <1>10. ASSUME NEW i \in Intfs, Disable(i) \/ Shut(i) \/ RemoveIp(i) PROVE AssertsHold'
    <2>1. AdjsOn(i) \in SUBSET Links /\ \A a \in AdjsOn(i) : state[a] # "none"
      BY DEF AdjsOn
    <2>2. CASE Disable(i)
      BY <1>3, <2>1, <2>2 DEF Disable
    <2>3. CASE Shut(i) \/ RemoveIp(i)
      <3>1. Withdraw(i)
        BY <2>3 DEF Shut, RemoveIp
      <3>2. CASE enabled[i]
        BY <1>3, <2>1, <3>1, <3>2 DEF Withdraw
      <3>3. CASE ~enabled[i]
        BY <1>1, <3>1, <3>3 DEF Withdraw, AssertsHold
      <3> QED BY <3>2, <3>3
    <2> QED BY <1>10, <2>2, <2>3
  <1>11. ASSUME NEW i \in Intfs, NoShut(i) \/ AddIp(i) PROVE AssertsHold'
    <2>1. Restore(i) /\ ~hello[i]
      BY <1>11 DEF NoShut, AddIp, Qualified, Qualifies
    <2> QED BY <1>1, <2>1 DEF Restore, AssertsHold
  <1>12. ASSUME NEW i \in Intfs, Enable(i) \/ ChangeIp(i) PROVE AssertsHold'
    BY <1>1, <1>12 DEF Enable, ChangeIp, AssertsHold
  <1>13. ASSUME OfNode PROVE AssertsHold'
    BY <1>1, <1>13 DEF OfNode, FireRecon, ExitRecon, PeriodicFlood, Generate, DisableOnDemand,
                       EnableOnDemand, AssertsHold
  <1>14. CASE Hello
    BY <1>4, <1>5, <1>6, <1>7, <1>14 DEF Hello
  <1>15. CASE Fire \/ RunJob \/ PeriodicFlood
    BY <1>8, <1>9, <1>13, <1>15 DEF Fire, RunJob, OfNode
  <1>16. CASE Config
    BY <1>10, <1>11, <1>12, <1>13, <1>16 DEF Config, OfNode
  <1>17. ASSUME DataPlane PROVE AssertsHold'
    BY <1>1, <1>17 DEF DataPlane, Resolve, Settle, AssertsHold
  <1> QED BY <1>14, <1>15, <1>16, <1>17 DEF Next

------------------------------------------------------------------------------
(* The invariants are inductive *)

LEMMA SafeInit == Init => Safe
  <1> SUFFICES ASSUME Init PROVE Safe
    OBVIOUS
  <1>1. ToSet(<< >>) = {} /\ IsInjective(<< >>)
    BY DEF ToSet, IsInjective
  <1>2. /\ \A i \in Intfs : list[i] = << >>
        /\ \A n \in Nbrs : members[n] = << >>
        /\ \A a \in Links : state[a] = "none" /\ job[a] = "none" /\ exp[a] = "off" /\ del[a] = "off"
        /\ \A i \in Intfs : grp[i] = NULL /\ Qualifies(i) /\ hello[i]
    BY DEF Init, Qualifies
  <1>3. ListSound
    BY <1>1, <1>2 DEF ListSound
  <1>4. JobSound /\ AdjTimers /\ Qualified
    BY <1>2 DEF JobSound, AdjTimers, Qualified
  <1>5. Membership /\ MemberOnce /\ GroupAlive
    BY <1>1, <1>2, AdjacencyAssumption DEF Membership, MemberOnce, GroupAlive
  <1>6. Mapping
    <2>1. \A v \in Ips : arp[v].adj = NULL
      BY DEF Init, NoEntry
    <2> QED BY <1>2, <2>1 DEF Mapping, EntriesLive, EntriesPresent
  <1>7. ReconTimer /\ FloodMode /\ Complete
    BY DEF Init, ReconTimer, FloodMode, Complete
  <1> QED BY <1>3, <1>4, <1>5, <1>6, <1>7 DEF Safe

LEMMA IInvStep == IInv /\ [Next]_vars => IInv'
  <1> SUFFICES ASSUME IInv, [Next]_vars PROVE IInv'
    OBVIOUS
  <1>1. TypeInv /\ TypeInv'
    BY TypeStep DEF IInv, Safe
  <1>2. CASE Next /\ broken' = "no"
    <2>1. /\ ListSound /\ JobSound /\ AdjTimers /\ Qualified /\ Membership /\ MemberOnce
          /\ GroupAlive /\ Mapping /\ ReconTimer /\ FloodMode /\ Complete
      BY <1>2 DEF IInv, Safe, Next
    <2>2. ListSound'
      BY <1>1, <1>2, <2>1, ListStep
    <2>3. JobSound' /\ AdjTimers'
      BY <1>1, <1>2, <2>1, TimerStep
    <2>4. Qualified'
      BY <1>1, <1>2, <2>1, QualifiedStep
    <2>5. Membership' /\ MemberOnce' /\ GroupAlive'
      BY <1>1, <1>2, <2>1, GroupStep
    <2>6. Mapping'
      BY <1>1, <1>2, <2>1, MappingStep
    <2>7. ReconTimer' /\ FloodMode' /\ Complete'
      BY <1>1, <1>2, <2>1, NodeStep
    <2> QED BY <1>1, <2>2, <2>3, <2>4, <2>5, <2>6, <2>7 DEF IInv, Safe
  <1>3. CASE UNCHANGED vars
    <2>1. UNCHANGED <<state, ip, exp, del, job, list, hello, enabled, up, l3, broken>>
      BY <1>3 DEF vars
    <2>2. UNCHANGED <<state, ip, soft, grp, groups, members, arp>>
      BY <1>3 DEF vars
    <2>3. UNCHANGED <<recon, reconTimer, reconJob, onDemand, periodic, lost, genTask, lsp>>
      BY <1>3 DEF vars
    <2>4. ListSound /\ JobSound /\ AdjTimers /\ Qualified
            => ListSound' /\ JobSound' /\ AdjTimers' /\ Qualified'
      BY <2>1 DEF ListSound, JobSound, AdjTimers, Qualified, Qualifies
    <2>5. Membership /\ MemberOnce /\ GroupAlive => Membership' /\ MemberOnce' /\ GroupAlive'
      BY <2>2 DEF Membership, MemberOnce, GroupAlive
    <2>6. Mapping => Mapping'
      BY <2>2 DEF Mapping, EntriesLive, EntriesPresent, Private
    <2>7. ReconTimer /\ FloodMode => ReconTimer' /\ FloodMode'
      BY <2>3 DEF ReconTimer, FloodMode
    <2>8. Advertised' = Advertised
      BY <2>2 DEF Advertised
    <2>9. Complete => Complete'
      BY <2>3, <2>8 DEF Complete
    <2> QED BY <1>1, <2>1, <2>4, <2>5, <2>6, <2>7, <2>9 DEF IInv, Safe
  <1>4. CASE broken' # "no"
    BY <1>1, <1>4 DEF IInv
  <1> QED BY <1>2, <1>3, <1>4

LEMMA PInvInit == Init => PInv
  <1> SUFFICES ASSUME Init PROVE PInv
    OBVIOUS
  <1>1. AssertsHold /\ Grouped
    BY DEF Init, AssertsHold, Grouped
  <1>2. \A n \in Nbrs : ToSet(members[n]) = {}
    BY DEF Init, ToSet
  <1> QED BY <1>1, <1>2 DEF PInv, Ordered

LEMMA PInvStep == ParallelPointToPoint /\ IInv /\ PInv /\ [Next]_vars => PInv'
  <1> SUFFICES ASSUME ParallelPointToPoint, IInv, PInv, [Next]_vars PROVE PInv'
    OBVIOUS
  <1>1. CASE Next
    <2>1. /\ TypeInv /\ Grouped /\ Ordered
          /\ ListSound /\ JobSound /\ AdjTimers /\ Qualified /\ Membership /\ MemberOnce
          /\ GroupAlive /\ ReconTimer
      BY <1>1 DEF IInv, Safe, PInv, Next
    <2>2. AssertsHold'
      BY <1>1, <2>1, AssertStep
    <2>3. CASE broken' = "no"
      <3>1. TypeInv' /\ ListSound' /\ Membership' /\ MemberOnce' /\ GroupAlive'
        BY <2>3, IInvStep DEF IInv, Safe
      <3>2. Grouped'
        BY <1>1, <2>1, <2>3, GroupedStep
      <3>3. Ordered'
        BY <1>1, <2>1, <2>3, <3>1, OrderedStep
      <3> QED BY <2>2, <3>2, <3>3 DEF PInv
    <2> QED BY <2>2, <2>3 DEF PInv
  <1>2. CASE UNCHANGED vars
    BY <1>2 DEF vars, PInv, AssertsHold, Grouped, Ordered, Alone
  <1> QED BY <1>1, <1>2

------------------------------------------------------------------------------
(* Flooding *)

\* The first interface of a group has a neighbour that is up if any member has
\* an adjacency with the group's neighbour that is.
LEMMA FloodByGroup ==
  ASSUME TypeInv, Membership, MemberOnce, GroupAlive, Grouped, Ordered,
         NEW i \in Intfs, NEW n \in Nbrs, Alone(i, n), state[<<i, n>>] = "UP"
  PROVE  \E x \in FloodOut : <<x, n>> \in Links /\ state[<<x, n>>] = "UP"
  <1>1. <<i, n>> \in Links /\ grp[i] = n /\ n \in groups
    BY DEF Grouped, Alone
  <1>2. PICK s : s = members[n]
    OBVIOUS
  <1>3. s \in Seq(Intfs) /\ i \in ToSet(s)
    BY <1>1, <1>2 DEF Membership, TypeInv, TypeOK
  <1>4. s # << >>
    BY <1>3, Elements
  <1>5. PICK x : x = Head(s)
    OBVIOUS
  <1>6. x \in Intfs /\ x \in ToSet(s) /\ x = s[1]
    BY <1>3, <1>4, <1>5, TailElements
  <1>7. <<x, n>> \in Links
    <2>1. grp[x] = n
      BY <1>2, <1>6 DEF Membership
    <2> QED BY <1>6, <2>1 DEF GroupAlive
  <1>8. state[<<x, n>>] = "UP"
    <2>1. CASE x # i
      <3>1. PICK j \in 1..Len(s) : s[j] = i
        BY <1>3, Elements
      <3>2. DOMAIN s = 1..Len(s) /\ Len(s) \in Nat /\ j # 1
        BY <1>3, <1>6, <2>1, <3>1, Elements
      <3>3. 1 \in DOMAIN s /\ j \in DOMAIN s /\ 1 < j
        BY <3>2
      <3>4. Before(s, x, i)
        BY <1>6, <3>1, <3>3 DEF Before
      <3> QED BY <1>2, <1>3, <1>6, <3>4 DEF Ordered
    <2> QED BY <2>1
  <1>9. AnyUp(x)
    BY <1>7, <1>8 DEF AnyUp
  <1>10. x \in FloodOut
    BY <1>1, <1>2, <1>4, <1>5, <1>6, <1>9 DEF FloodOut
  <1> QED BY <1>7, <1>8, <1>10

\* An interface that hears several neighbours is in no group, or alone in one.
LEMMA FloodByItself ==
  ASSUME ParallelPointToPoint, TypeInv, Qualified, Membership, GroupAlive,
         NEW i \in Intfs, NEW n \in Nbrs, <<i, n>> \in Links, ~Alone(i, n),
         state[<<i, n>>] = "UP"
  PROVE  i \in FloodOut
  <1>1. CASE grp[i] = NULL
    BY <1>1 DEF Qualified, Qualifies, FloodOut
  <1>2. CASE grp[i] # NULL
    <2>1. PICK g \in Nbrs : grp[i] = g
      BY <1>2 DEF TypeInv, TypeOK
    <2>2. g \in groups /\ <<i, g>> \in Links
      BY <2>1 DEF GroupAlive
    <2>3. PICK s : s = members[g]
      OBVIOUS
    <2>4. s \in Seq(Intfs) /\ i \in ToSet(s)
      BY <2>1, <2>3 DEF Membership, TypeInv, TypeOK
    <2>5. s # << >> /\ Head(s) \in Intfs /\ Head(s) \in ToSet(s)
      BY <2>4, Elements, TailElements
    <2>6. ASSUME NEW j \in Intfs, j \in ToSet(s) PROVE j = i
      <3>1. <<j, g>> \in Links
        BY <2>3, <2>6 DEF Membership, GroupAlive
      <3> QED BY <2>2, <3>1 DEF ParallelPointToPoint, Alone
    <2>7. Head(s) = i
      BY <2>5, <2>6
    <2>8. AnyUp(i)
      BY DEF AnyUp
    <2> QED BY <2>2, <2>3, <2>5, <2>7, <2>8 DEF FloodOut
  <1> QED BY <1>1, <1>2

LEMMA FloodSound == ParallelPointToPoint /\ IInv /\ PInv => FloodReaches
  <1> SUFFICES ASSUME ParallelPointToPoint, IInv, PInv, broken = "no",
                      NEW n \in Nbrs, NEW i \in Intfs, <<i, n>> \in Links,
                      state[<<i, n>>] = "UP"
               PROVE  \E x \in FloodOut : <<x, n>> \in Links /\ state[<<x, n>>] = "UP"
    BY DEF FloodReaches
  <1>1. /\ TypeInv /\ Qualified /\ Membership /\ MemberOnce /\ GroupAlive
        /\ Grouped /\ Ordered
    BY DEF IInv, Safe, PInv
  <1> QED BY <1>1, FloodByGroup, FloodByItself

------------------------------------------------------------------------------
(* The theorems *)

\* What the bookkeeping of adjacencies, interfaces and groups owes to IInv.
LEMMA IInvGives ==
  IInv => TypeOK /\ TimersSound /\ GroupsSound /\ MappingSound /\ ReconSound /\ LspComplete
  <1> SUFFICES ASSUME IInv
               PROVE  TypeOK /\ TimersSound /\ GroupsSound /\ MappingSound /\ ReconSound
                      /\ LspComplete
    OBVIOUS
  <1>1. TypeOK
    BY DEF IInv, TypeInv
  <1>2. TimersSound
    BY DEF IInv, Safe, AdjTimers, Qualified, TimersSound
  <1>3. GroupsSound
    BY DEF IInv, Safe, Membership, MemberOnce, GroupAlive, GroupsSound, IsInjective
  <1>4. MappingSound /\ ReconSound /\ LspComplete
    BY DEF IInv, Safe, Mapping, ReconTimer, Complete, MappingSound, ReconSound, LspComplete
  <1> QED BY <1>1, <1>2, <1>3, <1>4

LEMMA Inductive == Spec => []IInv
  <1>1. Init => IInv
    BY TypeInit, SafeInit DEF IInv
  <1> QED BY <1>1, IInvStep, PTL DEF Spec

\* What the handlers keep has its type at every step.
THEOREM TypeCorrect == Spec => []TypeOK
  BY Inductive, IInvGives, PTL

\* Timers, group membership, ARP entries and the reconciliation timer agree with
\* the adjacencies, and the LSP names the neighbours that are up, whatever
\* neighbours the interfaces hear: Spec says nothing of the topology.
THEOREM BookkeepingSound ==
  Spec => [](TimersSound /\ GroupsSound /\ MappingSound /\ ReconSound /\ LspComplete)
  BY Inductive, IInvGives, PTL

\* Moreover no assertion of the handlers fails, if a neighbour heard on two
\* interfaces is alone on each.
THEOREM AdjStaysSound == ParallelPointToPoint => (Spec => []AdjSound)
  <1> SUFFICES ASSUME ParallelPointToPoint PROVE Spec => []AdjSound
    OBVIOUS
  <1>1. IInv /\ PInv /\ [Next]_vars => PInv'
    BY PInvStep
  <1>2. IInv /\ PInv => AdjSound
    BY IInvGives DEF PInv, AdjSound
  <1> QED BY <1>1, <1>2, Inductive, PInvInit, PTL DEF Spec

\* And then what the router floods reaches every neighbour that is up, by the
\* first member of its group or by an interface that is in none.
THEOREM LspStaysSound == ParallelPointToPoint => (Spec => []LspSound)
  <1> SUFFICES ASSUME ParallelPointToPoint PROVE Spec => []LspSound
    OBVIOUS
  <1>1. IInv /\ PInv /\ [Next]_vars => PInv'
    BY PInvStep
  <1>2. IInv /\ PInv => LspSound
    BY IInvGives, FloodSound DEF LspSound
  <1> QED BY <1>1, <1>2, Inductive, PInvInit, PTL DEF Spec
==============================================================================
