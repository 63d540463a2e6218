-------------------------- MODULE RouteTableProofs --------------------------
(***************************************************************************)
(* Proofs that the routing table stays sound and that subscribers learn    *)
(* what it holds, for any number of interfaces, prefixes, next hops and    *)
(* changes.                                                                *)
(*                                                                         *)
(* Every operation touches one route at a time and puts it in front of the *)
(* notify list; the lemma Touch says what such a change does.  SPF and     *)
(* clear_rt_table are chains of them.                                      *)
(***************************************************************************)
EXTENDS RouteTable, ListLemmas

------------------------------------------------------------------------------
(* The invariant *)

Route == [prefix : AllPrefixes \cup {"free"}, direct : BOOLEAN, hops : Seq(NextHops),
          idx : Nat, event : {"none", "add", "update", "del"}, flashed : BOOLEAN]

Typed(t) ==
  t \in [route : [RouteIds -> Route], table : Seq(RouteIds), notify : Seq(RouteIds),
         flash : Seq(RouteIds), requests : Int, jobs : Seq({"notif", "flash"}),
         died : {"no", "null", "assert"}]

Lists(t) == /\ IsInjective(t.table) /\ IsInjective(t.notify) /\ IsInjective(t.flash)
            /\ \A r \in ToSet(t.table) \cup ToSet(t.notify) \cup ToSet(t.flash) : t.route[r] # Free

\* No two routes of the table have the same prefix.
One(t) == \A r, s \in ToSet(t.table) : t.route[r].prefix = t.route[s].prefix => r = s

\* A route in memory has a prefix; it is in the table and not deleted, or it is
\* deleted and waits to be announced.
Leaving(t) ==
  \A r \in RouteIds :
    /\ t.route[r] # Free => t.route[r].prefix # "free"
    /\ r \in ToSet(t.table) => t.route[r].event # "del"
    /\ t.route[r] # Free /\ r \notin ToSet(t.table) =>
         t.route[r].event = "del" /\ r \in ToSet(t.notify)

HopsOf(route) == /\ route.direct <=> route.hops = << >>
                 /\ IF route.direct THEN route.idx = 0 ELSE route.idx < Len(route.hops)
Hopped(t) == \A r \in RouteIds : HopsOf(t.route[r])

\* No route that is announced later than one of the table has its prefix: a
\* later one stands nearer to the head.
Latest(t) ==
  \A r \in ToSet(t.table), s \in ToSet(t.notify) :
    s # r /\ t.route[s].prefix = t.route[r].prefix =>
      r \in ToSet(t.notify) /\ ~Before(t.notify, s, r)

Sound(t) == Lists(t) /\ One(t) /\ Leaving(t) /\ Hopped(t) /\ Latest(t)

Awake(t) == t.notify # << >> => Contains(t.jobs, "notif")

\* What the table holds for p, and whether a notification about p is to come.
Current(t, p) == IF Lookup(t, p) = {} THEN Absent
                 ELSE Shown(t.route[CHOOSE r \in Lookup(t, p) : TRUE])
Pending(t, p) == \E r \in ToSet(t.notify) : t.route[r].prefix = p

TypeInv == /\ Typed(rt)
           /\ addr \in [Interfaces -> AllPrefixes \cup {NoAddr}]
           /\ \A i \in Interfaces : addr[i] # NoAddr => addr[i] \in IfPrefixes[i]
           /\ subscribed \in BOOLEAN /\ flashes \in Nat

\* Without a subscriber there is nothing to compare.
Heard == ~subscribed => view = << >>

Flashed == rt.flash # << >> => flashes > 0

IInv == /\ TypeInv /\ Heard /\ Flashed /\ RoutesFreed
        /\ rt.died = "no" => Sound(rt) /\ Awake(rt) /\ ViewSound /\ DirectKept

------------------------------------------------------------------------------
(* Lookups, and what a step keeps *)

\* No direct route is lost but those of the prefixes P.
Kept(t, u, P) ==
  \A r \in ToSet(t.table) :
    t.route[r].direct /\ t.route[r].prefix \notin P =>
      r \in ToSet(u.table) /\ u.route[r].direct /\ u.route[r].prefix = t.route[r].prefix

\* Whatever changes is going to be announced.
Tells(t, u) == \A p : ~Pending(u, p) => ~Pending(t, p) /\ Current(u, p) = Current(t, p)

\* The list of jobs may only grow, and the flash list is left alone.
Carries(t, u) == /\ u.flash = t.flash /\ u.died = "no"
                 /\ Contains(t.jobs, "notif") => Contains(u.jobs, "notif")

Reaches(t, u, P) == Typed(u) /\ Sound(u) /\ Kept(t, u, P) /\ Tells(t, u) /\ Carries(t, u)

LEMMA NewRouteType ==
  /\ Free \in Route /\ Free.event = "none" /\ HopsOf(Free)
  /\ \A p \in AllPrefixes : /\ NewRoute(p) \in Route /\ NewRoute(p) # Free
                            /\ NewRoute(p).prefix = p /\ HopsOf(NewRoute(p))
                            /\ NewRoute(p).direct /\ NewRoute(p).hops = << >> /\ NewRoute(p).idx = 0
  BY RouteTableAssumption DEF Free, NewRoute, Route, HopsOf

LEMMA LookupOne ==
  ASSUME NEW t, Typed(t), NEW p
  PROVE  /\ Lookup(t, p) = {r \in ToSet(t.table) : t.route[r].prefix = p}
         /\ Lookup(t, p) \subseteq RouteIds
         /\ Lookup(t, p) # {} => (CHOOSE r \in Lookup(t, p) : TRUE) \in Lookup(t, p)
         /\ One(t) => \A r \in Lookup(t, p) : Current(t, p) = Shown(t.route[r])
<1>1. t.table \in Seq(RouteIds)
  BY DEF Typed
<1>2. Lookup(t, p) = {r \in ToSet(t.table) : t.route[r].prefix = p}
  BY <1>1, Elements DEF Lookup
<1>3. ToSet(t.table) \subseteq RouteIds
  BY <1>1, Elements
<1>4. One(t) => \A r \in Lookup(t, p) : Current(t, p) = Shown(t.route[r])
  BY <1>2 DEF One, Current
<1> QED  BY <1>2, <1>3, <1>4

LEMMA ReachesSame == ASSUME NEW t, Typed(t), Sound(t), t.died = "no", NEW P PROVE Reaches(t, t, P)
  BY DEF Reaches, Kept, Tells, Carries

LEMMA ReachesOn ==
  ASSUME NEW t, NEW u, NEW v, NEW P, NEW Q, Reaches(t, u, P), Reaches(u, v, Q)
  PROVE  Reaches(t, v, P \cup Q)
<1>1. Kept(t, v, P \cup Q)
  <2> SUFFICES ASSUME NEW r \in ToSet(t.table), t.route[r].direct, t.route[r].prefix \notin P \cup Q
               PROVE  /\ r \in ToSet(v.table) /\ v.route[r].direct
                      /\ v.route[r].prefix = t.route[r].prefix
    BY DEF Kept
  <2>1. r \in ToSet(u.table) /\ u.route[r].direct /\ u.route[r].prefix = t.route[r].prefix
    BY DEF Reaches, Kept
  <2> QED  BY <2>1 DEF Reaches, Kept
<1>2. Tells(t, v)
  BY DEF Reaches, Tells
<1>3. Carries(t, v)
  BY DEF Reaches, Carries
<1> QED  BY <1>1, <1>2, <1>3 DEF Reaches

------------------------------------------------------------------------------
(* One route is touched: it gets the record q, and the first place on the  *)
(* notify list; the table is tb, which differs by this route at most.      *)

Touches(t, u, r, q, tb) ==
  /\ Typed(u) /\ u.route = [t.route EXCEPT ![r] = q] /\ u.table = tb
  /\ u.notify = <<r>> \o RemoveFirst(t.notify, r)
  /\ u.flash = t.flash /\ u.jobs = t.jobs /\ u.died = t.died

LEMMA TouchedList ==
  ASSUME NEW s \in Seq(RouteIds), IsInjective(s), NEW r \in RouteIds
  PROVE  /\ <<r>> \o RemoveFirst(s, r) \in Seq(RouteIds)
         /\ IsInjective(<<r>> \o RemoveFirst(s, r))
         /\ ToSet(<<r>> \o RemoveFirst(s, r)) = ToSet(s) \cup {r}
         /\ \A x, y : Before(<<r>> \o RemoveFirst(s, r), x, y) =>
              y # r /\ (x = r \/ Before(s, x, y))
<1> DEFINE w == RemoveFirst(s, r)
<1>1. /\ w \in Seq(RouteIds) /\ IsInjective(w) /\ ToSet(w) = ToSet(s) \ {r}
      /\ \A x, y : Before(w, x, y) => Before(s, x, y)
  <2>1. /\ w \in Seq(RouteIds) /\ IsInjective(w)
        /\ \A x, y : Before(w, x, y) => Before(s, x, y)
    BY RemoveFirstProperties
  <2>2. ToSet(w) = ToSet(s) \ {r}
    BY RemoveFirstProperties
  <2> QED  BY <2>1, <2>2
<1> HIDE DEF w
<1>2. /\ <<r>> \o w \in Seq(RouteIds) /\ ToSet(<<r>> \o w) = ToSet(w) \cup {r}
      /\ IsInjective(<<r>> \o w)
  BY <1>1, ConsElements
<1>3. ASSUME NEW x, NEW y, Before(<<r>> \o w, x, y)
      PROVE  y # r /\ (x = r \/ Before(s, x, y))
  <2>1. Before(w, x, y) \/ (x = r /\ y \in ToSet(w))
    BY <1>1, <1>3, ConsElements
  <2>2. Before(w, x, y) => y \in ToSet(w)
    BY <1>1, Elements DEF Before
  <2> QED  BY <2>1, <2>2, <1>1
<1> QED  BY <1>1, <1>2, <1>3 DEF w

LEMMA Touch ==
  ASSUME NEW t, Typed(t), Sound(t), NEW u, NEW r \in RouteIds, NEW q \in Route, NEW tb,
         Touches(t, u, r, q, tb),
         q.prefix # "free", q.event # "none", HopsOf(q),
         IsInjective(tb), ToSet(tb) \ {r} = ToSet(t.table) \ {r},
         r \in ToSet(tb) <=> q.event # "del",
         t.route[r] # Free => t.route[r].prefix = q.prefix /\ r \in ToSet(t.table),
         t.route[r] = Free => \A s \in ToSet(t.table) : t.route[s].prefix # q.prefix
  PROVE  /\ Sound(u) /\ Tells(t, u) /\ Kept(t, u, {q.prefix})
         /\ Spare(u) = Spare(t) \ {r}
         /\ \A x : x # q.prefix => (Lookup(u, x) = {} <=> Lookup(t, x) = {})
<1>1. /\ u.route[r] = q /\ \A s \in RouteIds \ {r} : u.route[s] = t.route[s]
      /\ u.table = tb /\ u.flash = t.flash
      /\ tb \in Seq(RouteIds) /\ ToSet(tb) \subseteq RouteIds
  BY Elements DEF Touches, Typed
<1>2. /\ t.notify \in Seq(RouteIds) /\ t.table \in Seq(RouteIds) /\ t.flash \in Seq(RouteIds)
      /\ ToSet(t.notify) \subseteq RouteIds /\ ToSet(t.table) \subseteq RouteIds
      /\ ToSet(t.flash) \subseteq RouteIds
  BY Elements DEF Typed
<1>3. /\ IsInjective(u.notify) /\ ToSet(u.notify) = ToSet(t.notify) \cup {r}
      /\ \A x, y : Before(u.notify, x, y) => y # r /\ (x = r \/ Before(t.notify, x, y))
  BY <1>2, TouchedList DEF Touches, Sound, Lists
<1>4. q # Free
  BY NewRouteType
<1>5. r \in ToSet(t.table) \cup ToSet(t.notify) \cup ToSet(t.flash) => t.route[r] # Free
  BY DEF Sound, Lists
<1>6. Lists(u)
  BY <1>1, <1>2, <1>3, <1>4 DEF Sound, Lists
<1>7. One(u)
  <2> SUFFICES ASSUME NEW a \in ToSet(tb), NEW b \in ToSet(tb), a # b,
                      u.route[a].prefix = u.route[b].prefix
               PROVE  FALSE
    BY <1>1 DEF One
  <2>1. CASE a # r /\ b # r
    BY <2>1, <1>1 DEF Sound, One
  <2>2. CASE a = r
    <3>1. b \in ToSet(t.table) /\ t.route[b].prefix = q.prefix
      BY <2>2, <1>1
    <3>2. t.route[r] # Free
      BY <3>1
    <3> QED  BY <3>1, <3>2, <2>2 DEF Sound, One
  <2>3. CASE b = r
    <3>1. a \in ToSet(t.table) /\ t.route[a].prefix = q.prefix
      BY <2>3, <1>1
    <3>2. t.route[r] # Free
      BY <3>1
    <3> QED  BY <3>1, <3>2, <2>3 DEF Sound, One
  <2> QED  BY <2>1, <2>2, <2>3
<1>8. Leaving(u)
  <2> SUFFICES ASSUME NEW a \in RouteIds
               PROVE  /\ u.route[a] # Free => u.route[a].prefix # "free"
                      /\ a \in ToSet(tb) => u.route[a].event # "del"
                      /\ u.route[a] # Free /\ a \notin ToSet(tb) =>
                           u.route[a].event = "del" /\ a \in ToSet(u.notify)
    BY <1>1 DEF Leaving
  <2>1. CASE a = r
    BY <2>1, <1>1, <1>3
  <2>2. CASE a # r
    BY <2>2, <1>1, <1>3 DEF Sound, Leaving
  <2> QED  BY <2>1, <2>2
<1>9. Hopped(u)
  BY <1>1 DEF Sound, Hopped
<1>10. Latest(u)
  <2> SUFFICES ASSUME NEW a \in ToSet(tb), NEW s \in ToSet(u.notify), s # a,
                      u.route[s].prefix = u.route[a].prefix
               PROVE  a \in ToSet(u.notify) /\ ~Before(u.notify, s, a)
    BY <1>1 DEF Latest
  <2>1. CASE a = r
    BY <2>1, <1>3
  <2>2. CASE a # r /\ s = r
    <3>1. a \in ToSet(t.table) /\ t.route[a].prefix = q.prefix
      BY <2>2, <1>1
    <3>2. t.route[r] # Free
      BY <3>1
    <3> QED  BY <3>1, <3>2, <2>2 DEF Sound, One
  <2>3. CASE a # r /\ s # r
    <3>1. a \in ToSet(t.table) /\ s \in ToSet(t.notify) /\ t.route[s].prefix = t.route[a].prefix
      BY <2>3, <1>1, <1>2, <1>3
    <3>2. a \in ToSet(t.notify) /\ ~Before(t.notify, s, a)
      BY <3>1 DEF Sound, Latest
    <3> QED  BY <3>2, <2>3, <1>3
  <2> QED  BY <2>1, <2>2, <2>3
<1>11. \A x : x # q.prefix => Lookup(u, x) = Lookup(t, x)
  <2> SUFFICES ASSUME NEW x, x # q.prefix PROVE Lookup(u, x) = Lookup(t, x)
    OBVIOUS
  <2>1. Lookup(u, x) = {s \in ToSet(tb) : u.route[s].prefix = x}
    <3>1. Typed(u)
      BY DEF Touches
    <3> QED  BY <3>1, LookupOne, <1>1
  <2>2. Lookup(t, x) = {s \in ToSet(t.table) : t.route[s].prefix = x}
    BY LookupOne
  <2>3. r \notin Lookup(u, x) /\ r \notin Lookup(t, x)
    BY <2>1, <2>2, <1>1, <1>5
  <2> QED  BY <2>1, <2>2, <2>3, <1>1, <1>2
<1>12. Tells(t, u)
  <2> SUFFICES ASSUME NEW p, ~Pending(u, p) PROVE ~Pending(t, p) /\ Current(u, p) = Current(t, p)
    BY DEF Tells
  <2>1. p # q.prefix
    BY <1>1, <1>3 DEF Pending
  <2>2. ~Pending(t, p)
    <3> SUFFICES ASSUME NEW s \in ToSet(t.notify), t.route[s].prefix = p PROVE FALSE
      BY DEF Pending
    <3>1. CASE s = r
      BY <3>1, <1>5, <2>1
    <3>2. CASE s # r
      BY <3>2, <1>1, <1>2, <1>3 DEF Pending
    <3> QED  BY <3>1, <3>2
  <2>3. Lookup(u, p) = Lookup(t, p)
    BY <2>1, <1>11
  <2>4. CASE Lookup(t, p) = {}
    BY <2>2, <2>3, <2>4 DEF Current
  <2>5. CASE Lookup(t, p) # {}
    <3> DEFINE s == CHOOSE x \in Lookup(t, p) : TRUE
    <3>1. s \in ToSet(t.table) /\ t.route[s].prefix = p
      BY <2>5, LookupOne
    <3>2. s # r
      BY <3>1, <2>1, <1>5
    <3>3. u.route[s] = t.route[s]
      BY <3>1, <3>2, <1>1, <1>2
    <3> QED  BY <3>3, <2>2, <2>3, <2>5 DEF Current
  <2> QED  BY <2>4, <2>5
<1>13. Kept(t, u, {q.prefix})
  <2> SUFFICES ASSUME NEW s \in ToSet(t.table), t.route[s].direct, t.route[s].prefix # q.prefix
               PROVE  /\ s \in ToSet(tb) /\ u.route[s].direct
                      /\ u.route[s].prefix = t.route[s].prefix
    BY <1>1 DEF Kept
  <2>1. s # r
    BY <1>5
  <2> QED  BY <2>1, <1>1, <1>2
<1>14. Spare(u) = Spare(t) \ {r}
  BY <1>1, <1>4 DEF Spare
<1> QED  BY <1>6, <1>7, <1>8, <1>9, <1>10, <1>11, <1>12, <1>13, <1>14 DEF Sound

------------------------------------------------------------------------------
(* The operations *)

LEMMA KickSteps ==
  ASSUME NEW t, Typed(t), Sound(t)
  PROVE  /\ Typed(Kick(t)) /\ Sound(Kick(t)) /\ Awake(Kick(t))
         /\ Spare(Kick(t)) = Spare(t) /\ \A p : Lookup(Kick(t), p) = Lookup(t, p)
         /\ \A s, P : /\ Kept(s, t, P) => Kept(s, Kick(t), P)
                      /\ Tells(s, t) => Tells(s, Kick(t))
                      /\ Carries(s, t) => Carries(s, Kick(t))
<1>1. t.jobs \in Seq({"notif", "flash"})
  BY DEF Typed
<1>2. /\ Append(t.jobs, "notif") \in Seq({"notif", "flash"})
      /\ Contains(Append(t.jobs, "notif"), "notif")
  <2>1. /\ Append(t.jobs, "notif") \in Seq({"notif", "flash"})
        /\ "notif" \in ToSet(Append(t.jobs, "notif"))
    BY <1>1, AppendElements
  <2> QED  BY <2>1, Elements DEF Contains
<1>3. CASE Contains(t.jobs, "notif")
  BY <1>3 DEF Kick, Awake
<1>4. CASE ~Contains(t.jobs, "notif")
  <2> DEFINE u == [t EXCEPT !.jobs = Append(@, "notif")]
  <2>1. Kick(t) = u
    BY <1>4 DEF Kick
  <2>2. /\ Typed(u) /\ u.jobs = Append(t.jobs, "notif")
        /\ u.route = t.route /\ u.table = t.table /\ u.notify = t.notify /\ u.flash = t.flash
        /\ u.died = t.died
    BY <1>2 DEF Typed
  <2> HIDE DEF u
  <2>3. Sound(u)
    BY <2>2 DEF Sound, Lists, One, Leaving, Hopped, Latest
  <2>4. Awake(u)
    BY <2>2, <1>2 DEF Awake
  <2>5. Spare(u) = Spare(t) /\ \A p : Lookup(u, p) = Lookup(t, p)
    BY <2>2 DEF Spare, Lookup
  <2>6. \A p : Current(u, p) = Current(t, p) /\ (Pending(u, p) <=> Pending(t, p))
    <3> TAKE p
    <3>1. Pending(u, p) <=> Pending(t, p)
      BY <2>2 DEF Pending
    <3>2. Lookup(u, p) = Lookup(t, p)
      BY <2>5
    <3>3. Current(u, p) = Current(t, p)
      BY <3>2, <2>2 DEF Current
    <3> QED  BY <3>1, <3>3
  <2>7. \A s, P : Kept(s, t, P) => Kept(s, u, P)
    BY <2>2 DEF Kept
  <2>8. \A s : Tells(s, t) => Tells(s, u)
    BY <2>6 DEF Tells
  <2>9. \A s : Carries(s, t) => Carries(s, u)
    BY <2>2, <1>2 DEF Carries
  <2> QED  BY <2>1, <2>2, <2>3, <2>4, <2>5, <2>7, <2>8, <2>9
<1> QED  BY <1>3, <1>4

\* A route is withdrawn: it leaves the table.
LEMMA WithdrawSteps ==
  ASSUME NEW t, Typed(t), Sound(t), t.died = "no", NEW r \in ToSet(t.table)
  PROVE  /\ Reaches(t, Withdraw(t, r), {t.route[r].prefix})
         /\ ToSet(Withdraw(t, r).table) = ToSet(t.table) \ {r}
         /\ \A s \in RouteIds \ {r} : Withdraw(t, r).route[s] = t.route[s]
         /\ Spare(Withdraw(t, r)) = Spare(t)
<1> DEFINE u == Withdraw(t, r)
           q == [t.route[r] EXCEPT !.event = "del"]
           tb == RemoveFirst(t.table, r)
<1>1. /\ t.notify \in Seq(RouteIds) /\ t.table \in Seq(RouteIds) /\ r \in RouteIds
      /\ t.route \in [RouteIds -> Route] /\ t.route[r] \in Route
      /\ IsInjective(t.table) /\ IsInjective(t.notify)
  BY Elements DEF Typed, Sound, Lists
<1>2. t.route[r] # Free
  BY DEF Sound, Lists
<1>3. tb \in Seq(RouteIds) /\ IsInjective(tb) /\ ToSet(tb) = ToSet(t.table) \ {r}
  <2>1. tb \in Seq(RouteIds) /\ IsInjective(tb)
    BY <1>1, RemoveFirstProperties
  <2>2. ToSet(tb) = ToSet(t.table) \ {r}
    BY <1>1, RemoveFirstProperties
  <2> QED  BY <2>1, <2>2
<1>4. /\ q \in Route /\ q.event = "del" /\ q.prefix = t.route[r].prefix
      /\ q.direct = t.route[r].direct /\ q.hops = t.route[r].hops /\ q.idx = t.route[r].idx
  BY <1>1 DEF Route
<1>5. HopsOf(q) /\ q.prefix # "free"
  BY <1>1, <1>2, <1>4 DEF Sound, Hopped, HopsOf, Leaving
<1>6. <<r>> \o RemoveFirst(t.notify, r) \in Seq(RouteIds)
  BY <1>1, TouchedList
<1>7. Touches(t, u, r, q, tb)
  <2> HIDE DEF tb
  <2>1. u = [t EXCEPT !.table = tb, !.route[r].event = "del",
                      !.notify = <<r>> \o RemoveFirst(t.notify, r)]
    BY <1>1 DEF Withdraw, Notify, Typed, tb
  <2> HIDE DEF q
  <2>2. /\ u.table = tb /\ u.notify = <<r>> \o RemoveFirst(t.notify, r)
        /\ u.flash = t.flash /\ u.jobs = t.jobs /\ u.died = t.died
        /\ u.requests = t.requests
    BY <2>1 DEF Typed
  <2>3. u.route = [t.route EXCEPT ![r] = q]
    BY <2>1, <1>1 DEF Typed, q
  <2>4. Typed(u)
    <3>1. u.route \in [RouteIds -> Route]
      BY <2>3, <1>1, <1>4
    <3> HIDE DEF u
    <3>2. u = [route |-> u.route, table |-> u.table, notify |-> u.notify, flash |-> u.flash,
               requests |-> u.requests, jobs |-> u.jobs, died |-> u.died]
      BY <2>1 DEF Typed
    <3> QED  BY <3>1, <3>2, <2>2, <1>3, <1>6 DEF Typed
  <2> QED  BY <2>2, <2>3, <2>4 DEF Touches
<1>8. /\ Sound(u) /\ Tells(t, u) /\ Kept(t, u, {q.prefix}) /\ Spare(u) = Spare(t) \ {r}
  <2> HIDE DEF q, tb, u
  <2>1. /\ r \in ToSet(tb) <=> q.event # "del"
        /\ ToSet(tb) \ {r} = ToSet(t.table) \ {r}
        /\ t.route[r] # Free => t.route[r].prefix = q.prefix /\ r \in ToSet(t.table)
        /\ t.route[r] = Free => \A s \in ToSet(t.table) : t.route[s].prefix # q.prefix
        /\ q.event # "none"
    BY <1>2, <1>3, <1>4
  <2> QED  BY <2>1, <1>1, <1>3, <1>4, <1>5, <1>7, Touch
<1>9. Spare(t) \ {r} = Spare(t)
  BY <1>2 DEF Spare
<1>10. Typed(u) /\ Carries(t, u) /\ u.table = tb /\ u.route = [t.route EXCEPT ![r] = q]
  BY <1>7 DEF Touches, Carries
<1> HIDE DEF u, q, tb
<1> QED  BY <1>1, <1>3, <1>4, <1>8, <1>9, <1>10 DEF Reaches, u

LEMMA DeleteSteps ==
  ASSUME NEW t, Typed(t), Sound(t), t.died = "no", Awake(t), NEW p
  PROVE  /\ Reaches(t, DeleteRoute(t, p), {p}) /\ Awake(DeleteRoute(t, p))
         /\ Spare(DeleteRoute(t, p)) = Spare(t)
<1>1. CASE Lookup(t, p) = {}
  BY <1>1, ReachesSame DEF DeleteRoute
<1>2. CASE Lookup(t, p) # {}
  <2> DEFINE r == CHOOSE x \in Lookup(t, p) : TRUE
             u == Withdraw(t, r)
  <2>1. r \in ToSet(t.table) /\ t.route[r].prefix = p
    BY <1>2, LookupOne
  <2>2. DeleteRoute(t, p) = Kick(u)
    BY <1>2 DEF DeleteRoute
  <2> HIDE DEF r
  <2>3. Reaches(t, u, {p}) /\ Spare(u) = Spare(t)
    BY <2>1, WithdrawSteps
  <2> HIDE DEF u
  <2>4. Typed(u) /\ Sound(u)
    BY <2>3 DEF Reaches
  <2> QED  BY <2>2, <2>3, <2>4, KickSteps DEF Reaches
<1> QED  BY <1>1, <1>2

\* The route of a new prefix.
LEMMA InsertSteps ==
  ASSUME NEW t, Typed(t), Sound(t), t.died = "no", Spare(t) # {},
         NEW p \in AllPrefixes, Lookup(t, p) = {}, NEW hop \in NextHops \cup {NoHop}
  PROVE  /\ Reaches(t, Insert(t, p, hop), {p}) /\ Awake(Insert(t, p, hop))
         /\ \E x : Spare(Insert(t, p, hop)) = Spare(t) \ {x}
         /\ \E r \in Lookup(Insert(t, p, hop), p) :
              hop = NoHop => Insert(t, p, hop).route[r].direct
<1> DEFINE r == CHOOSE x \in Spare(t) : TRUE
           new == IF hop = NoHop THEN NewRoute(p)
                  ELSE [NewRoute(p) EXCEPT !.direct = FALSE, !.hops = <<hop>>]
           q == [new EXCEPT !.event = "add"]
           tb == <<r>> \o t.table
           v == [t EXCEPT !.route[r] = new, !.table = <<r>> \o @]
           u == Notify(v, r, "add")
<1>1. r \in RouteIds /\ t.route[r] = Free
  BY DEF Spare
<1>2. /\ t.notify \in Seq(RouteIds) /\ t.table \in Seq(RouteIds)
      /\ t.route \in [RouteIds -> Route]
      /\ IsInjective(t.table) /\ IsInjective(t.notify)
  BY DEF Typed, Sound, Lists
<1>3. r \notin ToSet(t.table) /\ r \notin ToSet(t.notify)
  BY <1>1 DEF Sound, Lists
<1>4. /\ new \in Route /\ new.prefix = p /\ new.event = "none" /\ HopsOf(new)
      /\ hop = NoHop => new.direct
  <2>1. CASE hop = NoHop
    BY <2>1, NewRouteType DEF NewRoute
  <2>2. CASE hop # NoHop
    <3>1. hop \in NextHops /\ <<hop>> \in Seq(NextHops) /\ Len(<<hop>>) = 1
      BY <2>2
    <3>2. new = [prefix |-> p, direct |-> FALSE, hops |-> <<hop>>, idx |-> 0,
                 event |-> "none", flashed |-> FALSE]
      BY <2>2 DEF NewRoute
    <3> HIDE DEF new
    <3>3. new \in Route
      BY <3>1, <3>2 DEF Route
    <3>4. new.prefix = p /\ new.event = "none" /\ new.direct = FALSE /\ new.idx = 0
          /\ new.hops = <<hop>>
      BY <3>2
    <3>5. HopsOf(new)
      BY <3>1, <3>4 DEF HopsOf
    <3> QED  BY <3>3, <3>4, <3>5, <2>2
  <2> QED  BY <2>1, <2>2
<1>5. tb \in Seq(RouteIds) /\ IsInjective(tb) /\ ToSet(tb) = ToSet(t.table) \cup {r}
  <2> HIDE DEF r
  <2> QED  BY <1>1, <1>2, <1>3, ConsElements
<1>6. /\ q \in Route /\ q.event = "add" /\ q.prefix = p /\ HopsOf(q)
      /\ hop = NoHop => q.direct
  <2> HIDE DEF new
  <2> QED  BY <1>4 DEF Route, HopsOf
<1>7. <<r>> \o RemoveFirst(t.notify, r) \in Seq(RouteIds)
  <2> HIDE DEF r
  <2> QED  BY <1>1, <1>2, TouchedList
<1>8. p # "free"
  BY RouteTableAssumption
<1>9. Touches(t, u, r, q, tb)
  <2> HIDE DEF r, new
  <2>1. v.route[r] = new /\ v.notify = t.notify /\ v.route = [t.route EXCEPT ![r] = new]
    BY <1>1, <1>2 DEF Typed
  <2>2. u = [v EXCEPT !.route[r].event = "add", !.notify = <<r>> \o RemoveFirst(t.notify, r)]
    BY <2>1, <1>4 DEF Notify, Typed
  <2>3. /\ u.table = tb /\ u.notify = <<r>> \o RemoveFirst(t.notify, r)
        /\ u.flash = t.flash /\ u.jobs = t.jobs /\ u.died = t.died
        /\ u.requests = t.requests
    BY <2>2 DEF Typed
  <2>4. u.route = [t.route EXCEPT ![r] = q]
    <3>1. u.route = [v.route EXCEPT ![r].event = "add"]
      BY <2>2 DEF Typed
    <3>2. v.route \in [RouteIds -> Route]
      BY <2>1, <1>1, <1>2, <1>4
    <3>3. u.route = [v.route EXCEPT ![r] = [v.route[r] EXCEPT !.event = "add"]]
      BY <3>1, <3>2, <1>1
    <3> HIDE DEF v, u
    <3>4. u.route = [v.route EXCEPT ![r] = q]
      BY <3>3, <2>1
    <3> HIDE DEF q
    <3> QED  BY <3>4, <2>1, <1>1, <1>2
  <2>5. Typed(u)
    <3> HIDE DEF q
    <3>1. u.route \in [RouteIds -> Route]
      BY <2>4, <1>2, <1>6
    <3>2. u = [route |-> u.route, table |-> u.table, notify |-> u.notify, flash |-> u.flash,
               requests |-> u.requests, jobs |-> u.jobs, died |-> u.died]
      BY <2>2 DEF Typed
    <3> HIDE DEF u, tb
    <3> QED  BY <3>1, <3>2, <2>3, <1>5, <1>7 DEF Typed
  <2> QED  BY <2>3, <2>4, <2>5 DEF Touches
<1>10. \A s \in ToSet(t.table) : t.route[s].prefix # p
  BY LookupOne
<1> HIDE DEF r, q, tb, u, v, new
<1>11. /\ Sound(u) /\ Tells(t, u) /\ Kept(t, u, {p}) /\ Spare(u) = Spare(t) \ {r}
  <2>1. /\ r \in ToSet(tb) <=> q.event # "del"
        /\ ToSet(tb) \ {r} = ToSet(t.table) \ {r}
        /\ t.route[r] # Free => t.route[r].prefix = q.prefix /\ r \in ToSet(t.table)
        /\ t.route[r] = Free => \A s \in ToSet(t.table) : t.route[s].prefix # q.prefix
        /\ q.event # "none"
    BY <1>1, <1>5, <1>6, <1>10
  <2>2. Sound(u) /\ Tells(t, u) /\ Kept(t, u, {q.prefix}) /\ Spare(u) = Spare(t) \ {r}
    BY <2>1, <1>1, <1>5, <1>6, <1>8, <1>9, Touch
  <2> QED  BY <2>2, <1>6
<1>12. Typed(u) /\ Carries(t, u) /\ u.table = tb /\ u.route = [t.route EXCEPT ![r] = q]
  BY <1>9 DEF Touches, Carries
<1>13. r \in Lookup(u, p) /\ u.route[r] = q
  BY <1>1, <1>2, <1>5, <1>6, <1>12, LookupOne
<1>14. Insert(t, p, hop) = Kick(u)
  BY DEF Insert, r, u, v, new
<1>15. Kick(u).route = u.route
  BY <1>12 DEF Kick, Typed
<1> QED  BY <1>6, <1>11, <1>12, <1>13, <1>14, <1>15, KickSteps DEF Reaches

\* A route there is gets one more next hop, or is left as it is.
LEMMA ExtendSteps ==
  ASSUME NEW t, Typed(t), Sound(t), t.died = "no", Awake(t),
         NEW r \in ToSet(t.table), NEW hop \in NextHops \cup {NoHop}
  PROVE  LET p == t.route[r].prefix
             u == Extend(t, r, hop)
         IN \/ /\ Reaches(t, u, {p}) /\ Awake(u) /\ Spare(u) = Spare(t)
               /\ r \in Lookup(u, p) /\ (hop = NoHop => u.route[r].direct)
            \/ hop = NoHop /\ u = [t EXCEPT !.died = "null"]
<1> DEFINE p == t.route[r].prefix
           u == Extend(t, r, hop)
           hops == t.route[r].hops
           n == [[t.route[r] EXCEPT !.direct = FALSE] EXCEPT !.hops = Append(hops, hop)]
           q == [n EXCEPT !.event = "update"]
           v == [t EXCEPT !.route[r].direct = FALSE, !.route[r].hops = Append(@, hop)]
           w == Notify(v, r, "update")
<1>1. /\ t.notify \in Seq(RouteIds) /\ t.table \in Seq(RouteIds) /\ r \in RouteIds
      /\ t.route \in [RouteIds -> Route] /\ t.route[r] \in Route /\ hops \in Seq(NextHops)
      /\ IsInjective(t.table) /\ IsInjective(t.notify)
  BY Elements DEF Typed, Sound, Lists, Route
<1>2. /\ t.route[r] # Free /\ p # "free" /\ t.route[r].event # "del"
      /\ HopsOf(t.route[r]) /\ r \in Lookup(t, p)
  BY <1>1, LookupOne DEF Sound, Lists, Leaving, Hopped
<1>3. CASE hop = NoHop /\ hops # << >>
  BY <1>3 DEF Extend
<1>4. CASE u = t /\ (hop = NoHop => hops = << >>)
  <2>1. hop = NoHop => t.route[r].direct
    BY <1>2, <1>4 DEF HopsOf
  <2> QED  BY <1>2, <1>4, <2>1, ReachesSame
<1>5. CASE hop # NoHop /\ u # t
  <2>1. hop \in NextHops /\ u = Kick(w)
    BY <1>5 DEF Extend
  <2>2. /\ Append(hops, hop) \in Seq(NextHops) /\ Len(Append(hops, hop)) = Len(hops) + 1
        /\ Append(hops, hop) # << >> /\ Len(hops) \in Nat
    BY <2>1, <1>1, AppendElements, Elements
  <2>3. /\ q \in Route /\ q.event = "update" /\ q.prefix = p /\ q.direct = FALSE
        /\ q.hops = Append(hops, hop) /\ q.idx = t.route[r].idx
    <3> HIDE DEF hops
    <3> QED  BY <1>1, <2>2 DEF Route
  <2>4. HopsOf(q)
    <3>1. t.route[r].idx \in Nat /\ t.route[r].direct \in BOOLEAN
      BY <1>1 DEF Route
    <3>2. t.route[r].idx < Len(hops) + 1
      BY <3>1, <2>2, <1>2 DEF HopsOf
    <3> HIDE DEF q
    <3> QED  BY <3>2, <2>2, <2>3 DEF HopsOf
  <2>5. <<r>> \o RemoveFirst(t.notify, r) \in Seq(RouteIds)
    BY <1>1, TouchedList
  <2>6. Touches(t, w, r, q, t.table)
    <3>0. v = [t EXCEPT !.route = [t.route EXCEPT ![r] = n]]
      <4>1. v = [t EXCEPT !.route = [t.route EXCEPT ![r].direct = FALSE,
                                                    ![r].hops = Append(hops, hop)]]
        BY <1>1 DEF Typed
      <4>2. [t.route EXCEPT ![r].direct = FALSE, ![r].hops = Append(hops, hop)]
              = [t.route EXCEPT ![r] = n]
        BY <1>1
      <4> QED  BY <4>1, <4>2
    <3>1. /\ v.route = [t.route EXCEPT ![r] = n] /\ v.notify = t.notify /\ v.table = t.table
          /\ v.flash = t.flash /\ v.jobs = t.jobs /\ v.died = t.died /\ v.requests = t.requests
      BY <1>1 DEF Typed
    <3>2. w = [v EXCEPT !.route[r].event = "update", !.notify = <<r>> \o RemoveFirst(t.notify, r)]
      BY <3>1 DEF Notify, Typed
    <3>3. v \in [route : [RouteIds -> Route], table : Seq(RouteIds), notify : Seq(RouteIds),
                 flash : Seq(RouteIds), requests : Int, jobs : Seq({"notif", "flash"}),
                 died : {"no", "null", "assert"}]
      <4>1. n \in Route
        <5> HIDE DEF hops
        <5> QED  BY <1>1, <2>2 DEF Route
      <4>2. v.route \in [RouteIds -> Route]
        <5> HIDE DEF n, v
        <5> QED  BY <3>1, <4>1, <1>1
      <4>3. v = [route |-> v.route, table |-> v.table, notify |-> v.notify, flash |-> v.flash,
                 requests |-> v.requests, jobs |-> v.jobs, died |-> v.died]
        <5> HIDE DEF v, n
        <5> QED  BY <3>0 DEF Typed
      <4> HIDE DEF v, n
      <4> QED  BY <4>2, <4>3, <3>1 DEF Typed
    <3> HIDE DEF v, n
    <3>4. /\ w.table = t.table /\ w.notify = <<r>> \o RemoveFirst(t.notify, r)
          /\ w.flash = t.flash /\ w.jobs = t.jobs /\ w.died = t.died
          /\ w.requests = t.requests
      BY <3>1, <3>2, <3>3
    <3>5. w.route = [v.route EXCEPT ![r] = [v.route[r] EXCEPT !.event = "update"]]
      BY <3>2, <3>3, <1>1
    <3>6. v.route[r] = n
      BY <3>1, <1>1
    <3>7. w.route = [v.route EXCEPT ![r] = q]
      BY <3>5, <3>6
    <3>8. w = [route |-> w.route, table |-> w.table, notify |-> w.notify, flash |-> w.flash,
               requests |-> w.requests, jobs |-> w.jobs, died |-> w.died]
      BY <3>2, <3>3
    <3> HIDE DEF w, q
    <3>9. w.route = [t.route EXCEPT ![r] = q]
      BY <3>7, <3>1, <1>1
    <3>10. w.route \in [RouteIds -> Route]
      BY <3>9, <2>3, <1>1
    <3>11. Typed(w)
      BY <3>4, <3>8, <3>10, <2>5 DEF Typed
    <3> QED  BY <3>4, <3>9, <3>11 DEF Touches
  <2> HIDE DEF w, q, n, v, u
  <2>7. Sound(w) /\ Tells(t, w) /\ Kept(t, w, {p}) /\ Spare(w) = Spare(t) \ {r}
    <3> HIDE DEF p
    <3>1. /\ r \in ToSet(t.table) <=> q.event # "del"
          /\ ToSet(t.table) \ {r} = ToSet(t.table) \ {r}
          /\ t.route[r] # Free => t.route[r].prefix = q.prefix /\ r \in ToSet(t.table)
          /\ t.route[r] = Free => \A s \in ToSet(t.table) : t.route[s].prefix # q.prefix
          /\ q.event # "none"
      BY <1>2, <2>3 DEF p
    <3>2. Sound(w) /\ Tells(t, w) /\ Kept(t, w, {q.prefix}) /\ Spare(w) = Spare(t) \ {r}
      BY <3>1, <1>1, <1>2, <2>3, <2>4, <2>6, Touch
    <3> QED  BY <3>2, <2>3
  <2>8. Spare(t) \ {r} = Spare(t)
    BY <1>2 DEF Spare
  <2>9. /\ Typed(w) /\ Carries(t, w) /\ w.table = t.table
        /\ w.route = [t.route EXCEPT ![r] = q]
    BY <2>6 DEF Touches, Carries
  <2>10. r \in Lookup(w, p)
    <3>1. w.route[r].prefix = p
      BY <2>9, <2>3, <1>1
    <3>2. Lookup(w, p) = {x \in ToSet(w.table) : w.route[x].prefix = p}
      <4> HIDE DEF p
      <4> QED  BY <2>9, LookupOne
    <3> QED  BY <3>1, <3>2, <2>9
  <2> HIDE DEF p
  <2> QED  BY <2>1, <2>7, <2>8, <2>9, <2>10, <1>5, KickSteps DEF Reaches, u, p
<1>6. u = t \/ (hop # NoHop /\ u # t) \/ (hop = NoHop /\ hops # << >>)
  BY DEF Extend
<1> QED  BY <1>3, <1>4, <1>5, <1>6

LEMMA AddSteps ==
  ASSUME NEW t, Typed(t), Sound(t), t.died = "no", Awake(t), NEW p \in AllPrefixes,
         NEW hop \in NextHops \cup {NoHop}, Lookup(t, p) = {} => Spare(t) # {}
  PROVE  LET u == AddRoute(t, p, hop)
         IN \/ /\ Reaches(t, u, {p}) /\ Awake(u)
               /\ \E x : Spare(u) = Spare(t) \ {x}
               /\ Lookup(t, p) # {} => Spare(u) = Spare(t)
               /\ \E r \in Lookup(u, p) : hop = NoHop => u.route[r].direct
            \/ hop = NoHop /\ u = [t EXCEPT !.died = "null"]
<1>1. CASE Lookup(t, p) = {}
  BY <1>1, InsertSteps DEF AddRoute
<1>2. CASE Lookup(t, p) # {}
  <2> DEFINE r == CHOOSE x \in Lookup(t, p) : TRUE
             u == Extend(t, r, hop)
  <2>1. r \in ToSet(t.table) /\ t.route[r].prefix = p
    BY <1>2, LookupOne
  <2>2. AddRoute(t, p, hop) = u
    BY <1>2 DEF AddRoute
  <2> HIDE DEF r
  <2>3. \/ /\ Reaches(t, u, {p}) /\ Awake(u) /\ Spare(u) = Spare(t)
           /\ r \in Lookup(u, p) /\ (hop = NoHop => u.route[r].direct)
        \/ hop = NoHop /\ u = [t EXCEPT !.died = "null"]
    BY <2>1, ExtendSteps
  <2> HIDE DEF u
  <2>4. Spare(t) = Spare(t) \ {r}
    BY <2>1 DEF Sound, Lists, Spare
  <2> QED  BY <2>2, <2>3, <2>4
<1> QED  BY <1>1, <1>2

------------------------------------------------------------------------------
(* The loops of the operations: the functions that they define exist.  (The *)
(* four proofs are alike: no lemma can be stated for any loop, since the     *)
(* provers do not instantiate operators.)                                    *)

\* The loop of clear_rt_table.
Clearing(t, n, f) ==
  f = [k \in 0..n |-> IF k = 0 THEN t
                      ELSE IF Learnt(t.route[t.table[k]]) THEN Withdraw(f[k - 1], t.table[k]) ELSE f[k - 1]]

LEMMA ClearingExists ==
  ASSUME NEW t, NEW m \in Nat
  PROVE  \E f : Clearing(t, m, f)
<1> DEFINE T == {n \in Nat : ~ \E f : Clearing(t, n, f)}
<1>1. SUFFICES ASSUME T # {} PROVE FALSE
  OBVIOUS
<1>2. PICK n \in T : \A i \in T : ~(i < n)
  <2>1. T \in SUBSET Nat
    OBVIOUS
  <2> HIDE DEF T
  <2> QED  BY <1>1, <2>1, Least
<1>3. n \in Nat /\ ~ \E f : Clearing(t, n, f)
  OBVIOUS
<1>4. n # 0
  <2>1. Clearing(t, 0, [k \in 0..0 |-> t])
    BY DEF Clearing
  <2> QED  BY <1>3, <2>1
<1>5. n - 1 \in Nat /\ n - 1 < n
  BY <1>3, <1>4
<1>6. PICK f : Clearing(t, n - 1, f)
  BY <1>2, <1>5
<1> DEFINE g == [k \in 0..n |-> IF k = 0 THEN t
                                 ELSE IF Learnt(t.route[t.table[k]]) THEN Withdraw(f[k - 1], t.table[k]) ELSE f[k - 1]]
<1>7. \A k \in 0..(n - 1) : g[k] = f[k]
  <2>1. \A k \in 0..(n - 1) : k \in 0..n
    BY <1>3
  <2>2. TAKE k \in 0..(n - 1)
  <2>3. f[k] = IF k = 0 THEN t
               ELSE IF Learnt(t.route[t.table[k]]) THEN Withdraw(f[k - 1], t.table[k]) ELSE f[k - 1]
    BY <1>6 DEF Clearing
  <2> QED  BY <2>1, <2>3
<1>8. Clearing(t, n, g)
  <2> HIDE DEF g
  <2>1. g = [k \in 0..n |-> IF k = 0 THEN t
                            ELSE IF Learnt(t.route[t.table[k]]) THEN Withdraw(f[k - 1], t.table[k]) ELSE f[k - 1]]
    BY DEF g
  <2>2. \A k \in 0..n : k # 0 => k - 1 \in 0..(n - 1)
    BY <1>3
  <2>3. \A k \in 0..n : k # 0 => g[k - 1] = f[k - 1]
    BY <2>2, <1>7
  <2> QED  BY <2>1, <2>3 DEF Clearing
<1> QED  BY <1>3, <1>8

\* The loop over the next hops of a node.
Adding(t, p, hops, n, f) ==
  f = [k \in 0..n |-> IF k = 0 THEN t
                      ELSE AddRoute(f[k - 1], p, hops[k])]

LEMMA AddingExists ==
  ASSUME NEW t, NEW p, NEW hops, NEW m \in Nat
  PROVE  \E f : Adding(t, p, hops, m, f)
<1> DEFINE T == {n \in Nat : ~ \E f : Adding(t, p, hops, n, f)}
<1>1. SUFFICES ASSUME T # {} PROVE FALSE
  OBVIOUS
<1>2. PICK n \in T : \A i \in T : ~(i < n)
  <2>1. T \in SUBSET Nat
    OBVIOUS
  <2> HIDE DEF T
  <2> QED  BY <1>1, <2>1, Least
<1>3. n \in Nat /\ ~ \E f : Adding(t, p, hops, n, f)
  OBVIOUS
<1>4. n # 0
  <2>1. Adding(t, p, hops, 0, [k \in 0..0 |-> t])
    BY DEF Adding
  <2> QED  BY <1>3, <2>1
<1>5. n - 1 \in Nat /\ n - 1 < n
  BY <1>3, <1>4
<1>6. PICK f : Adding(t, p, hops, n - 1, f)
  BY <1>2, <1>5
<1> DEFINE g == [k \in 0..n |-> IF k = 0 THEN t
                                 ELSE AddRoute(f[k - 1], p, hops[k])]
<1>7. \A k \in 0..(n - 1) : g[k] = f[k]
  <2>1. \A k \in 0..(n - 1) : k \in 0..n
    BY <1>3
  <2>2. TAKE k \in 0..(n - 1)
  <2>3. f[k] = IF k = 0 THEN t
               ELSE AddRoute(f[k - 1], p, hops[k])
    BY <1>6 DEF Adding
  <2> QED  BY <2>1, <2>3
<1>8. Adding(t, p, hops, n, g)
  <2> HIDE DEF g
  <2>1. g = [k \in 0..n |-> IF k = 0 THEN t
                            ELSE AddRoute(f[k - 1], p, hops[k])]
    BY DEF g
  <2>2. \A k \in 0..n : k # 0 => k - 1 \in 0..(n - 1)
    BY <1>3
  <2>3. \A k \in 0..n : k # 0 => g[k - 1] = f[k - 1]
    BY <2>2, <1>7
  <2> QED  BY <2>1, <2>3 DEF Adding
<1> QED  BY <1>3, <1>8

\* The loop over the nodes that SPF found.
Installing(t, order, found, n, f) ==
  f = [k \in 0..n |-> IF k = 0 THEN ClearTable(t)
                      ELSE InstallHops(f[k - 1], order[k], SetToSeq(found[order[k]]))]

LEMMA InstallingExists ==
  ASSUME NEW t, NEW order, NEW found, NEW m \in Nat
  PROVE  \E f : Installing(t, order, found, m, f)
<1> DEFINE T == {n \in Nat : ~ \E f : Installing(t, order, found, n, f)}
<1>1. SUFFICES ASSUME T # {} PROVE FALSE
  OBVIOUS
<1>2. PICK n \in T : \A i \in T : ~(i < n)
  <2>1. T \in SUBSET Nat
    OBVIOUS
  <2> HIDE DEF T
  <2> QED  BY <1>1, <2>1, Least
<1>3. n \in Nat /\ ~ \E f : Installing(t, order, found, n, f)
  OBVIOUS
<1>4. n # 0
  <2>1. Installing(t, order, found, 0, [k \in 0..0 |-> ClearTable(t)])
    BY DEF Installing
  <2> QED  BY <1>3, <2>1
<1>5. n - 1 \in Nat /\ n - 1 < n
  BY <1>3, <1>4
<1>6. PICK f : Installing(t, order, found, n - 1, f)
  BY <1>2, <1>5
<1> DEFINE g == [k \in 0..n |-> IF k = 0 THEN ClearTable(t)
                                 ELSE InstallHops(f[k - 1], order[k], SetToSeq(found[order[k]]))]
<1>7. \A k \in 0..(n - 1) : g[k] = f[k]
  <2>1. \A k \in 0..(n - 1) : k \in 0..n
    BY <1>3
  <2>2. TAKE k \in 0..(n - 1)
  <2>3. f[k] = IF k = 0 THEN ClearTable(t)
               ELSE InstallHops(f[k - 1], order[k], SetToSeq(found[order[k]]))
    BY <1>6 DEF Installing
  <2> QED  BY <2>1, <2>3
<1>8. Installing(t, order, found, n, g)
  <2> HIDE DEF g
  <2>1. g = [k \in 0..n |-> IF k = 0 THEN ClearTable(t)
                            ELSE InstallHops(f[k - 1], order[k], SetToSeq(found[order[k]]))]
    BY DEF g
  <2>2. \A k \in 0..n : k # 0 => k - 1 \in 0..(n - 1)
    BY <1>3
  <2>3. \A k \in 0..n : k # 0 => g[k - 1] = f[k - 1]
    BY <2>2, <1>7
  <2> QED  BY <2>1, <2>3 DEF Installing
<1> QED  BY <1>3, <1>8

\* The loop that fills the flash list.
Putting(list, flash, n, f) ==
  f = [k \in 0..n |-> IF k = 0 THEN flash
                      ELSE <<list[k]>> \o RemoveFirst(f[k - 1], list[k])]

LEMMA PuttingExists ==
  ASSUME NEW list, NEW flash, NEW m \in Nat
  PROVE  \E f : Putting(list, flash, m, f)
<1> DEFINE T == {n \in Nat : ~ \E f : Putting(list, flash, n, f)}
<1>1. SUFFICES ASSUME T # {} PROVE FALSE
  OBVIOUS
<1>2. PICK n \in T : \A i \in T : ~(i < n)
  <2>1. T \in SUBSET Nat
    OBVIOUS
  <2> HIDE DEF T
  <2> QED  BY <1>1, <2>1, Least
<1>3. n \in Nat /\ ~ \E f : Putting(list, flash, n, f)
  OBVIOUS
<1>4. n # 0
  <2>1. Putting(list, flash, 0, [k \in 0..0 |-> flash])
    BY DEF Putting
  <2> QED  BY <1>3, <2>1
<1>5. n - 1 \in Nat /\ n - 1 < n
  BY <1>3, <1>4
<1>6. PICK f : Putting(list, flash, n - 1, f)
  BY <1>2, <1>5
<1> DEFINE g == [k \in 0..n |-> IF k = 0 THEN flash
                                 ELSE <<list[k]>> \o RemoveFirst(f[k - 1], list[k])]
<1>7. \A k \in 0..(n - 1) : g[k] = f[k]
  <2>1. \A k \in 0..(n - 1) : k \in 0..n
    BY <1>3
  <2>2. TAKE k \in 0..(n - 1)
  <2>3. f[k] = IF k = 0 THEN flash
               ELSE <<list[k]>> \o RemoveFirst(f[k - 1], list[k])
    BY <1>6 DEF Putting
  <2> QED  BY <2>1, <2>3
<1>8. Putting(list, flash, n, g)
  <2> HIDE DEF g
  <2>1. g = [k \in 0..n |-> IF k = 0 THEN flash
                            ELSE <<list[k]>> \o RemoveFirst(f[k - 1], list[k])]
    BY DEF g
  <2>2. \A k \in 0..n : k # 0 => k - 1 \in 0..(n - 1)
    BY <1>3
  <2>3. \A k \in 0..n : k # 0 => g[k - 1] = f[k - 1]
    BY <2>2, <1>7
  <2> QED  BY <2>1, <2>3 DEF Putting
<1> QED  BY <1>3, <1>8

------------------------------------------------------------------------------
(* The table after a loop *)

\* After k routes: no direct route is gone, and the routes still to come are as
\* they were.
Cleared(t, c, k) ==
  /\ Reaches(t, c, {}) /\ Spare(c) = Spare(t)
  /\ \A j \in (k + 1)..Len(t.table) :
       t.table[j] \in ToSet(c.table) /\ c.route[t.table[j]] = t.route[t.table[j]]

LEMMA ClearOne ==
  ASSUME NEW t, Typed(t), Sound(t), t.died = "no", NEW k \in 1..Len(t.table),
         NEW c, Cleared(t, c, k - 1)
  PROVE  Cleared(t, IF Learnt(t.route[t.table[k]]) THEN Withdraw(c, t.table[k]) ELSE c, k)
<1> DEFINE r == t.table[k]
           u == Withdraw(c, r)
<1>1. /\ t.table \in Seq(RouteIds) /\ Len(t.table) \in Nat /\ IsInjective(t.table)
      /\ r \in RouteIds /\ DOMAIN t.table = 1..Len(t.table)
  BY Elements DEF Typed, Sound, Lists
<1>2. k \in (k - 1 + 1)..Len(t.table) /\ (k + 1)..Len(t.table) \subseteq (k - 1 + 1)..Len(t.table)
  BY <1>1
<1>3. r \in ToSet(c.table) /\ c.route[r] = t.route[r]
  BY <1>2 DEF Cleared
<1>4. CASE ~Learnt(t.route[r])
  BY <1>2, <1>4 DEF Cleared
<1>5. CASE Learnt(t.route[r])
  <2>0. Typed(c) /\ Sound(c) /\ c.died = "no"
    BY DEF Cleared, Reaches, Carries
  <2> HIDE DEF r
  <2>1. /\ Reaches(c, u, {c.route[r].prefix}) /\ ToSet(u.table) = ToSet(c.table) \ {r}
        /\ \A s \in RouteIds \ {r} : u.route[s] = c.route[s]
        /\ Spare(u) = Spare(c)
    BY <2>0, <1>3, WithdrawSteps
  <2> HIDE DEF u
  <2>2. ToSet(c.table) \subseteq RouteIds /\ ToSet(t.table) \subseteq RouteIds
    BY <2>0, <1>1, Elements DEF Typed
  <2>3. Kept(t, u, {})
    <3> SUFFICES ASSUME NEW s \in ToSet(t.table), t.route[s].direct
                 PROVE  /\ s \in ToSet(u.table) /\ u.route[s].direct
                        /\ u.route[s].prefix = t.route[s].prefix
      BY DEF Kept
    <3>1. /\ s \in ToSet(c.table) /\ c.route[s].direct
          /\ c.route[s].prefix = t.route[s].prefix
      BY DEF Cleared, Reaches, Kept
    <3>2. s # r
      BY <1>3, <1>5, <3>1 DEF Learnt
    <3> QED  BY <3>1, <3>2, <2>1, <2>2
  <2>4. Reaches(t, u, {})
    <3>1. Tells(t, u) /\ Carries(t, u)
      BY <2>1 DEF Cleared, Reaches, Tells, Carries
    <3> QED  BY <2>1, <2>3, <3>1 DEF Reaches
  <2>5. ASSUME NEW j \in (k + 1)..Len(t.table)
        PROVE  t.table[j] \in ToSet(u.table) /\ u.route[t.table[j]] = t.route[t.table[j]]
    <3>1. t.table[j] # r /\ t.table[j] \in RouteIds
      BY <1>1 DEF IsInjective, r
    <3>2. t.table[j] \in ToSet(c.table) /\ c.route[t.table[j]] = t.route[t.table[j]]
      BY <1>2 DEF Cleared
    <3> QED  BY <3>1, <3>2, <2>1
  <2>6. Spare(u) = Spare(t)
    BY <2>1 DEF Cleared
  <2> QED  BY <1>5, <2>4, <2>5, <2>6 DEF Cleared, r, u
<1> QED  BY <1>4, <1>5

LEMMA ClearSteps ==
  ASSUME NEW t, Typed(t), Sound(t), t.died = "no"
  PROVE  /\ Reaches(t, ClearTable(t), {}) /\ Awake(ClearTable(t))
         /\ Spare(ClearTable(t)) = Spare(t)
<1> DEFINE n == Len(t.table)
<1>1. n \in Nat
  BY Elements DEF Typed
<1>2. PICK f : Clearing(t, n, f) /\ ClearTable(t) = Kick(f[n])
  <2> DEFINE g == CHOOSE f : Clearing(t, n, f)
  <2>1. Clearing(t, n, g)
    BY <1>1, ClearingExists
  <2>2. ClearTable(t) = Kick(g[n])
    BY DEF ClearTable, Clearing
  <2> QED  BY <2>1, <2>2
<1>3. \A k \in 0..n :
        f[k] = IF k = 0 THEN t
               ELSE IF Learnt(t.route[t.table[k]]) THEN Withdraw(f[k - 1], t.table[k]) ELSE f[k - 1]
  BY <1>2 DEF Clearing
<1> DEFINE T == {k \in 0..n : ~Cleared(t, f[k], k)}
<1>4. T = {}
  <2> SUFFICES ASSUME T # {} PROVE FALSE
    OBVIOUS
  <2>1. PICK k \in T : \A i \in T : ~(i < k)
    <3>1. T \in SUBSET Nat
      OBVIOUS
    <3> HIDE DEF T
    <3> QED  BY <3>1, Least
  <2>2. k \in 0..n /\ ~Cleared(t, f[k], k)
    OBVIOUS
  <2>3. k # 0
    <3>1. Cleared(t, t, 0)
      <4>1. \A j \in 1..n : t.table[j] \in ToSet(t.table)
        BY Elements DEF Typed
      <4>2. Reaches(t, t, {})
        BY ReachesSame
      <4> QED  BY <4>1, <4>2 DEF Cleared
    <3>2. f[0] = t
      BY <1>1, <1>3
    <3> QED  BY <2>2, <3>1, <3>2
  <2>4. k \in 1..n /\ k - 1 \in 0..n /\ k - 1 < k
    BY <1>1, <2>2, <2>3
  <2>5. Cleared(t, f[k - 1], k - 1)
    BY <2>1, <2>4
  <2> HIDE DEF T, n
  <2>6. f[k] = IF Learnt(t.route[t.table[k]]) THEN Withdraw(f[k - 1], t.table[k]) ELSE f[k - 1]
    BY <1>3, <2>2, <2>3
  <2>7. k \in 1..Len(t.table)
    BY <2>4 DEF n
  <2>8. Cleared(t, f[k], k)
    BY <2>5, <2>6, <2>7, ClearOne
  <2> QED  BY <2>2, <2>8
<1>5. Cleared(t, f[n], n)
  <2>1. n \in 0..n
    BY <1>1
  <2> QED  BY <1>4, <2>1
<1> HIDE DEF n
<1>6. Reaches(t, f[n], {}) /\ Spare(f[n]) = Spare(t)
  BY <1>5 DEF Cleared
<1>7. Typed(f[n]) /\ Sound(f[n])
  BY <1>6 DEF Reaches
<1> QED  BY <1>2, <1>6, <1>7, KickSteps DEF Reaches

LEMMA ReachesMore ==
  ASSUME NEW t, NEW u, NEW P, NEW Q, Reaches(t, u, P), P \subseteq Q
  PROVE  Reaches(t, u, Q)
  BY DEF Reaches, Kept

\* After k next hops: the prefix has a route if there was one, and one place at
\* most was taken.
Added(t, u, p, k) ==
  /\ Reaches(t, u, {p}) /\ Awake(u)
  /\ k = 0 => u = t
  /\ k # 0 => Lookup(u, p) # {}
  /\ \E x : Spare(t) \ {x} \subseteq Spare(u)

LEMMA AddOne ==
  ASSUME NEW t, NEW u, NEW p \in AllPrefixes, NEW k \in Nat \ {0}, NEW hop \in NextHops,
         Added(t, u, p, k - 1), Spare(t) # {}
  PROVE  Added(t, AddRoute(u, p, hop), p, k)
<1> DEFINE v == AddRoute(u, p, hop)
<1>1. /\ Typed(u) /\ Sound(u) /\ u.died = "no" /\ Awake(u) /\ Reaches(t, u, {p})
      /\ k - 1 = 0 => u = t
      /\ k - 1 # 0 => Lookup(u, p) # {}
      /\ \E x : Spare(t) \ {x} \subseteq Spare(u)
  BY DEF Added, Reaches, Carries
<1>2. hop # NoHop
  BY RouteTableAssumption
<1>3. Lookup(u, p) = {} => Spare(u) # {}
  BY <1>1
<1>4. /\ Reaches(u, v, {p}) /\ Awake(v)
      /\ \E x : Spare(v) = Spare(u) \ {x}
      /\ Lookup(u, p) # {} => Spare(v) = Spare(u)
      /\ Lookup(v, p) # {}
  <2>1. hop \in NextHops \cup {NoHop}
    OBVIOUS
  <2>2. \/ /\ Reaches(u, v, {p}) /\ Awake(v)
           /\ \E x : Spare(v) = Spare(u) \ {x}
           /\ Lookup(u, p) # {} => Spare(v) = Spare(u)
           /\ \E r \in Lookup(v, p) : hop = NoHop => v.route[r].direct
        \/ hop = NoHop /\ v = [u EXCEPT !.died = "null"]
    BY <2>1, <1>1, <1>3, AddSteps
  <2> HIDE DEF v
  <2> QED  BY <2>2, <1>2
<1> HIDE DEF v
<1>5. Reaches(t, v, {p} \cup {p})
  BY <1>1, <1>4, ReachesOn
<1>6. \E x : Spare(t) \ {x} \subseteq Spare(v)
  BY <1>1, <1>4
<1>7. {p} \cup {p} = {p} /\ k # 0
  OBVIOUS
<1> QED  BY <1>4, <1>5, <1>6, <1>7 DEF Added, v

LEMMA HopsSteps ==
  ASSUME NEW t, Typed(t), Sound(t), t.died = "no", Awake(t), Spare(t) # {},
         NEW p \in AllPrefixes, NEW hops \in Seq(NextHops)
  PROVE  LET u == InstallHops(t, p, hops)
         IN /\ Reaches(t, u, {p}) /\ Awake(u)
            /\ \E x : Spare(t) \ {x} \subseteq Spare(u)
<1> DEFINE n == Len(hops)
<1>1. n \in Nat /\ \A k \in 1..n : hops[k] \in NextHops
  BY Elements
<1>2. PICK f : Adding(t, p, hops, n, f) /\ InstallHops(t, p, hops) = f[n]
  <2> DEFINE g == CHOOSE f : Adding(t, p, hops, n, f)
  <2>1. Adding(t, p, hops, n, g)
    BY <1>1, AddingExists
  <2>2. InstallHops(t, p, hops) = g[n]
    BY DEF InstallHops, Adding
  <2> QED  BY <2>1, <2>2
<1>3. \A k \in 0..n : f[k] = IF k = 0 THEN t ELSE AddRoute(f[k - 1], p, hops[k])
  BY <1>2 DEF Adding
<1> DEFINE T == {k \in 0..n : ~Added(t, f[k], p, k)}
<1>4. T = {}
  <2> SUFFICES ASSUME T # {} PROVE FALSE
    OBVIOUS
  <2>1. PICK k \in T : \A i \in T : ~(i < k)
    <3>1. T \in SUBSET Nat
      OBVIOUS
    <3> HIDE DEF T
    <3> QED  BY <3>1, Least
  <2>2. k \in 0..n /\ ~Added(t, f[k], p, k)
    OBVIOUS
  <2>3. k # 0
    <3>1. Added(t, t, p, 0)
      BY ReachesSame DEF Added
    <3>2. f[0] = t
      BY <1>1, <1>3
    <3> QED  BY <2>2, <3>1, <3>2
  <2>4. k \in 1..n /\ k - 1 \in 0..n /\ k - 1 < k /\ k \in Nat \ {0}
    BY <1>1, <2>2, <2>3
  <2>5. Added(t, f[k - 1], p, k - 1)
    BY <2>1, <2>4
  <2> HIDE DEF T, n
  <2>6. f[k] = AddRoute(f[k - 1], p, hops[k]) /\ hops[k] \in NextHops
    BY <1>1, <1>3, <2>2, <2>3, <2>4
  <2>7. Added(t, f[k], p, k)
    BY <2>4, <2>5, <2>6, AddOne
  <2> QED  BY <2>2, <2>7
<1>5. Added(t, f[n], p, n)
  <2>1. n \in 0..n
    BY <1>1
  <2> QED  BY <1>4, <2>1
<1> HIDE DEF n
<1> QED  BY <1>2, <1>5 DEF Added

LEMMA SetToSeqElements ==
  ASSUME NEW S, IsFiniteSet(S)
  PROVE  SetToSeq(S) \in Seq(S) /\ Len(SetToSeq(S)) = Cardinality(S) /\ Cardinality(S) \in Nat
<1> DEFINE n == Cardinality(S)
<1>1. n \in Nat /\ ExistsBijection(1..n, S)
  BY FS_CardinalityType
<1>2. \E f \in [1..n -> S] : IsInjective(f)
  BY <1>1 DEF ExistsBijection, Bijection, Injection, IsInjective
<1>3. SetToSeq(S) \in [1..n -> S]
  BY <1>2 DEF SetToSeq
<1> QED  BY <1>1, <1>3

LEMMA SpareLeft ==
  ASSUME NEW t, NEW u, NEW m \in Nat, NEW x, Cardinality(Spare(t)) >= m,
         Spare(t) \ {x} \subseteq Spare(u)
  PROVE  Cardinality(Spare(u)) >= m - 1 /\ (m > 0 => Spare(t) # {})
<1>1. IsFiniteSet(Spare(t)) /\ IsFiniteSet(Spare(u))
  <2>1. Spare(t) \subseteq RouteIds /\ Spare(u) \subseteq RouteIds /\ IsFiniteSet(RouteIds)
    BY RouteTableAssumption DEF Spare
  <2> QED  BY <2>1, FS_Subset
<1>2. /\ Cardinality(Spare(t)) \in Nat /\ Cardinality(Spare(u)) \in Nat
      /\ Cardinality(Spare(t) \ {x}) \in Nat
      /\ Cardinality(Spare(t) \ {x}) >= Cardinality(Spare(t)) - 1
  <2>1. IsFiniteSet(Spare(t) \ {x})
    BY <1>1, FS_RemoveElement
  <2>2. /\ Cardinality(Spare(t)) \in Nat /\ Cardinality(Spare(u)) \in Nat
        /\ Cardinality(Spare(t) \ {x}) \in Nat
    BY <1>1, <2>1, FS_CardinalityType
  <2>3. Cardinality(Spare(t) \ {x}) = IF x \in Spare(t) THEN Cardinality(Spare(t)) - 1
                                      ELSE Cardinality(Spare(t))
    BY <1>1, FS_RemoveElement
  <2> QED  BY <2>2, <2>3
<1>3. Cardinality(Spare(t) \ {x}) <= Cardinality(Spare(u))
  BY <1>1, FS_Subset
<1>4. Spare(t) = {} => Cardinality(Spare(t)) = 0
  BY FS_EmptySet
<1> QED  BY <1>2, <1>3, <1>4

\* After k nodes of n: there is room for the others.
Installed(u, n, k) ==
  /\ Reaches(rt, u, SpfPrefixes) /\ Awake(u)
  /\ Cardinality(Spare(u)) >= n - k

LEMMA InstallOne ==
  ASSUME NEW n \in Nat, NEW k \in 1..n, NEW t, Installed(t, n, k - 1),
         NEW p \in SpfPrefixes, NEW hops \in Seq(NextHops)
  PROVE  Installed(InstallHops(t, p, hops), n, k)
<1> DEFINE u == InstallHops(t, p, hops)
<1>1. /\ Typed(t) /\ Sound(t) /\ t.died = "no" /\ Awake(t) /\ p \in AllPrefixes
      /\ Reaches(rt, t, SpfPrefixes) /\ Cardinality(Spare(t)) >= n - (k - 1)
  BY DEF Installed, Reaches, Carries, AllPrefixes
<1>2. n - (k - 1) \in Nat /\ n - (k - 1) > 0 /\ n - (k - 1) - 1 = n - k
  OBVIOUS
<1>3. Spare(t) # {}
  <2>1. Spare(t) \ {0} \subseteq Spare(t)
    OBVIOUS
  <2> QED  BY <1>1, <1>2, <2>1, SpareLeft
<1>4. PICK x : Reaches(t, u, {p}) /\ Awake(u) /\ Spare(t) \ {x} \subseteq Spare(u)
  BY <1>1, <1>3, HopsSteps
<1> HIDE DEF u
<1>5. Reaches(rt, u, SpfPrefixes)
  <2>1. Reaches(rt, u, SpfPrefixes \cup {p})
    BY <1>1, <1>4, ReachesOn
  <2> QED  BY <2>1, ReachesMore
<1>6. Cardinality(Spare(u)) >= n - (k - 1) - 1
  BY <1>1, <1>2, <1>4, SpareLeft
<1> QED  BY <1>2, <1>4, <1>5, <1>6 DEF Installed, u

LEMMA InstallSteps ==
  ASSUME Typed(rt), Sound(rt), rt.died = "no", NEW found \in SpfResults,
         Room(Cardinality(DOMAIN found))
  PROVE  Reaches(rt, InstallSpf(found), SpfPrefixes) /\ Awake(InstallSpf(found))
<1> DEFINE order == SetToSeq(DOMAIN found)
           n == Len(order)
<1>1. PICK ps \in SUBSET SpfPrefixes : found \in [ps -> SUBSET NextHops \ {{}}]
  BY DEF SpfResults
<1>2. /\ DOMAIN found = ps /\ IsFiniteSet(ps)
      /\ \A p \in ps : IsFiniteSet(found[p]) /\ found[p] \subseteq NextHops
  <2>1. DOMAIN found = ps /\ \A p \in ps : found[p] \subseteq NextHops
    BY <1>1
  <2>2. IsFiniteSet(ps)
    BY RouteTableAssumption, FS_Subset
  <2>3. \A p \in ps : IsFiniteSet(found[p])
    BY <2>1, RouteTableAssumption, FS_Subset
  <2> QED  BY <2>1, <2>2, <2>3
<1>3. order \in Seq(ps) /\ n = Cardinality(ps) /\ n \in Nat /\ \A k \in 1..n : order[k] \in ps
  <2>1. order \in Seq(ps) /\ n = Cardinality(ps) /\ n \in Nat
    BY <1>2, SetToSeqElements
  <2> HIDE DEF order
  <2> QED  BY <2>1, Elements
<1>4. \A p \in ps : SetToSeq(found[p]) \in Seq(NextHops)
  <2> TAKE p \in ps
  <2>1. SetToSeq(found[p]) \in Seq(found[p])
    BY <1>2, SetToSeqElements
  <2> QED  BY <2>1, <1>2
<1>5. PICK f : Installing(rt, order, found, n, f) /\ InstallSpf(found) = f[n]
  <2> DEFINE g == CHOOSE f : Installing(rt, order, found, n, f)
  <2>1. Installing(rt, order, found, n, g)
    BY <1>3, InstallingExists
  <2>2. InstallSpf(found) = g[n]
    BY DEF InstallSpf, Installing
  <2> QED  BY <2>1, <2>2
<1> HIDE DEF order
<1>6. \A k \in 0..n : f[k] = IF k = 0 THEN ClearTable(rt)
                             ELSE InstallHops(f[k - 1], order[k], SetToSeq(found[order[k]]))
  BY <1>5 DEF Installing
<1> DEFINE T == {k \in 0..n : ~Installed(f[k], n, k)}
<1>7. T = {}
  <2> SUFFICES ASSUME T # {} PROVE FALSE
    OBVIOUS
  <2>1. PICK k \in T : \A i \in T : ~(i < k)
    <3>1. T \in SUBSET Nat
      OBVIOUS
    <3> HIDE DEF T
    <3> QED  BY <3>1, Least
  <2>2. k \in 0..n /\ ~Installed(f[k], n, k)
    OBVIOUS
  <2>3. k # 0
    <3>1. Installed(ClearTable(rt), n, 0)
      <4>1. /\ Reaches(rt, ClearTable(rt), {}) /\ Awake(ClearTable(rt))
            /\ Spare(ClearTable(rt)) = Spare(rt)
        BY ClearSteps
      <4>2. Reaches(rt, ClearTable(rt), SpfPrefixes)
        BY <4>1, ReachesMore
      <4>3. Cardinality(Spare(rt)) >= n
        BY <1>2, <1>3 DEF Room
      <4> QED  BY <4>1, <4>2, <4>3, <1>3 DEF Installed
    <3>2. f[0] = ClearTable(rt)
      BY <1>3, <1>6
    <3> QED  BY <2>2, <3>1, <3>2
  <2>4. k \in 1..n /\ k - 1 \in 0..n /\ k - 1 < k
    BY <1>3, <2>2, <2>3
  <2>5. Installed(f[k - 1], n, k - 1)
    BY <2>1, <2>4
  <2> HIDE DEF T, n
  <2>6. /\ f[k] = InstallHops(f[k - 1], order[k], SetToSeq(found[order[k]]))
        /\ order[k] \in SpfPrefixes /\ SetToSeq(found[order[k]]) \in Seq(NextHops)
    BY <1>1, <1>3, <1>4, <1>6, <2>2, <2>3, <2>4
  <2>7. Installed(f[k], n, k)
    BY <1>3, <2>4, <2>5, <2>6, InstallOne
  <2> QED  BY <2>2, <2>7
<1>8. Installed(f[n], n, n)
  <2>1. n \in 0..n
    BY <1>3
  <2> QED  BY <1>7, <2>1
<1> HIDE DEF n
<1> QED  BY <1>5, <1>8 DEF Installed

------------------------------------------------------------------------------
(* The steps of configuration and SPF *)

LEMMA InvInit == Init => IInv
<1> SUFFICES ASSUME Init PROVE IInv
  OBVIOUS
<1>1. /\ rt = [route |-> [r \in RouteIds |-> Free], table |-> << >>, notify |-> << >>,
               flash |-> << >>, requests |-> 0, jobs |-> << >>, died |-> "no"]
      /\ addr = [i \in Interfaces |-> NoAddr] /\ view = << >> /\ subscribed = FALSE
      /\ flashes = 0
  BY DEF Init
<1>2. /\ ToSet(rt.table) = {} /\ ToSet(rt.notify) = {} /\ ToSet(rt.flash) = {}
      /\ IsInjective(rt.table) /\ IsInjective(rt.notify) /\ IsInjective(rt.flash)
  BY <1>1 DEF ToSet, IsInjective
<1>3. TypeInv
  <2>1. [r \in RouteIds |-> Free] \in [RouteIds -> Route]
    BY NewRouteType
  <2>2. << >> \in Seq(RouteIds) /\ << >> \in Seq({"notif", "flash"})
    BY EmptySeq
  <2>3. Typed(rt)
    BY <1>1, <2>1, <2>2 DEF Typed
  <2> QED  BY <1>1, <2>3 DEF TypeInv
<1>4. Sound(rt)
  <2>1. \A r \in RouteIds : rt.route[r] = Free
    BY <1>1
  <2> QED  BY <1>2, <2>1, NewRouteType DEF Sound, Lists, One, Leaving, Hopped, Latest
<1>5. Awake(rt) /\ ViewSound /\ DirectKept /\ Heard /\ Flashed /\ RoutesFreed
  BY <1>1 DEF Awake, ViewSound, DirectKept, Heard, Flashed, RoutesFreed
<1> QED  BY <1>3, <1>4, <1>5 DEF IInv

\* What the invariant says of a table that lives.
LEMMA Living ==
  ASSUME IInv, rt.died = "no"
  PROVE  /\ Typed(rt) /\ Sound(rt) /\ Awake(rt) /\ ViewSound /\ DirectKept
         /\ addr \in [Interfaces -> AllPrefixes \cup {NoAddr}]
         /\ \A i \in Interfaces : addr[i] # NoAddr => addr[i] \in IfPrefixes[i]
         /\ subscribed \in BOOLEAN /\ flashes \in Nat
  BY DEF IInv, TypeInv

\* A change that will be told, and keeps the direct routes, keeps the invariant.
LEMMA Moved ==
  ASSUME IInv, rt.died = "no", NEW P, Reaches(rt, rt', P), Awake(rt'), Unseen,
         addr' \in [Interfaces -> AllPrefixes \cup {NoAddr}],
         \A i \in Interfaces : addr'[i] # NoAddr => addr'[i] \in IfPrefixes[i],
         DirectKept'
  PROVE  IInv'
<1>1. Typed(rt') /\ Sound(rt') /\ Tells(rt, rt') /\ rt'.flash = rt.flash /\ rt'.died = "no"
  BY DEF Reaches, Carries
<1>2. view' = view /\ subscribed' = subscribed /\ flashes' = flashes
  BY DEF Unseen
<1>3. ViewSound'
  <2> SUFFICES ASSUME NEW p \in DOMAIN view, ~Pending(rt', p)
               PROVE  view[p] = Current(rt', p)
    BY <1>2 DEF ViewSound, Pending, Current
  <2>1. ~Pending(rt, p) /\ Current(rt', p) = Current(rt, p)
    BY <1>1 DEF Tells
  <2>2. view[p] = Current(rt, p)
    BY <2>1, Living DEF ViewSound, Pending, Current
  <2> QED  BY <2>1, <2>2
<1>4. TypeInv'
  BY <1>1, <1>2, Living DEF TypeInv
<1>5. Heard' /\ Flashed' /\ RoutesFreed'
  BY <1>1, <1>2 DEF IInv, Heard, Flashed, RoutesFreed
<1> QED  BY <1>1, <1>3, <1>4, <1>5 DEF IInv

LEMMA DirectOf ==
  ASSUME NEW t, NEW u, NEW P, Typed(t), Typed(u), Kept(t, u, P), NEW a, a \notin P,
         \E r \in Lookup(t, a) : t.route[r].direct
  PROVE  \E r \in Lookup(u, a) : u.route[r].direct
<1>1. PICK r \in Lookup(t, a) : t.route[r].direct
  OBVIOUS
<1>2. r \in ToSet(t.table) /\ t.route[r].prefix = a
  BY LookupOne
<1>3. r \in ToSet(u.table) /\ u.route[r].direct /\ u.route[r].prefix = a
  BY <1>1, <1>2 DEF Kept
<1>4. Lookup(u, a) = {x \in ToSet(u.table) : u.route[x].prefix = a}
  BY LookupOne
<1> QED  BY <1>3, <1>4

\* Configured routes and SPF leave the addresses alone.
LEMMA MovedRoutes ==
  ASSUME IInv, rt.died = "no", Reaches(rt, rt', CliPrefixes \cup SpfPrefixes), Awake(rt'),
         Unseen, UNCHANGED addr
  PROVE  IInv'
<1>1. DirectKept'
  <2> SUFFICES ASSUME NEW i \in Interfaces, addr[i] # NoAddr,
                      addr[i] \notin CliPrefixes \cup SpfPrefixes,
                      \A j \in Interfaces \ {i} : addr[i] \notin IfPrefixes[j]
               PROVE  \E r \in Lookup(rt', addr[i]) : rt'.route[r].direct
    BY DEF DirectKept
  <2>1. \E r \in Lookup(rt, addr[i]) : rt.route[r].direct
    BY Living DEF DirectKept
  <2>2. Typed(rt) /\ Typed(rt') /\ Kept(rt, rt', CliPrefixes \cup SpfPrefixes)
    BY Living DEF Reaches
  <2> QED  BY <2>1, <2>2, DirectOf
<1> QED  BY <1>1, Living, Moved

LEMMA RoomForOne == ASSUME Room(1) PROVE Spare(rt) # {}
  BY FS_EmptySet DEF Room

\* A direct route that cannot be compared ends the program.
LEMMA DiedOfNull ==
  ASSUME IInv, rt.died = "no", NEW t, Typed(t), t.flash = rt.flash,
         rt' = [t EXCEPT !.died = "null"], Unseen,
         addr' \in [Interfaces -> AllPrefixes \cup {NoAddr}],
         \A i \in Interfaces : addr'[i] # NoAddr => addr'[i] \in IfPrefixes[i]
  PROVE  IInv'
<1>1. Typed(rt') /\ rt'.died = "null" /\ rt'.flash = rt.flash
  BY DEF Typed
<1>2. view' = view /\ subscribed' = subscribed /\ flashes' = flashes
  BY DEF Unseen
<1>3. TypeInv'
  BY <1>1, <1>2, Living DEF TypeInv
<1>4. Heard' /\ Flashed' /\ RoutesFreed'
  BY <1>1, <1>2 DEF IInv, Heard, Flashed, RoutesFreed
<1> QED  BY <1>1, <1>3, <1>4 DEF IInv

LEMMA ConfigRouteStep ==
  ASSUME IInv, rt.died = "no", NEW p \in CliPrefixes, NEW hop \in NextHops \cup {NoHop},
         ConfigRoute(p, hop)
  PROVE  IInv'
<1> DEFINE u == AddRoute(rt, p, hop)
<1>1. p \in AllPrefixes
  BY DEF AllPrefixes
<1>2. rt' = u /\ Room(1) /\ Unseen /\ UNCHANGED addr
  BY DEF ConfigRoute
<1>3. /\ Typed(rt) /\ Sound(rt) /\ Awake(rt) /\ Spare(rt) # {}
      /\ addr \in [Interfaces -> AllPrefixes \cup {NoAddr}]
      /\ \A i \in Interfaces : addr[i] # NoAddr => addr[i] \in IfPrefixes[i]
  BY <1>2, Living, RoomForOne
<1>4. \/ /\ Reaches(rt, u, {p}) /\ Awake(u)
         /\ \E x : Spare(u) = Spare(rt) \ {x}
         /\ Lookup(rt, p) # {} => Spare(u) = Spare(rt)
         /\ \E r \in Lookup(u, p) : hop = NoHop => u.route[r].direct
      \/ hop = NoHop /\ u = [rt EXCEPT !.died = "null"]
  BY <1>1, <1>3, AddSteps
<1> HIDE DEF u
<1>5. CASE Reaches(rt, u, {p}) /\ Awake(u)
  <2>1. Reaches(rt, rt', CliPrefixes \cup SpfPrefixes) /\ Awake(rt')
    BY <1>2, <1>5, ReachesMore
  <2> QED  BY <1>2, <2>1, MovedRoutes
<1>6. CASE u = [rt EXCEPT !.died = "null"]
  BY <1>2, <1>3, <1>6, DiedOfNull
<1> QED  BY <1>4, <1>5, <1>6

LEMMA UnconfigRouteStep ==
  ASSUME IInv, rt.died = "no", NEW p \in CliPrefixes, UnconfigRoute(p)
  PROVE  IInv'
<1>1. rt' = DeleteRoute(rt, p) /\ Unseen /\ UNCHANGED addr
  BY DEF UnconfigRoute
<1>2. Reaches(rt, rt', {p}) /\ Awake(rt')
  BY <1>1, Living, DeleteSteps
<1>3. Reaches(rt, rt', CliPrefixes \cup SpfPrefixes)
  BY <1>2, ReachesMore
<1> QED  BY <1>1, <1>2, <1>3, MovedRoutes

LEMMA RunSpfStep ==
  ASSUME IInv, rt.died = "no", NEW found \in SpfResults, RunSpf(found)
  PROVE  IInv'
<1>1. rt' = InstallSpf(found) /\ Room(Cardinality(DOMAIN found)) /\ Unseen /\ UNCHANGED addr
  BY DEF RunSpf
<1>2. Reaches(rt, rt', SpfPrefixes) /\ Awake(rt')
  BY <1>1, Living, InstallSteps
<1>3. Reaches(rt, rt', CliPrefixes \cup SpfPrefixes)
  BY <1>2, ReachesMore
<1> QED  BY <1>1, <1>2, <1>3, MovedRoutes

LEMMA SetAddrStep ==
  ASSUME IInv, rt.died = "no", NEW i \in Interfaces, NEW p \in IfPrefixes[i], SetAddr(i, p)
  PROVE  IInv'
<1> DEFINE t == IF addr[i] = NoAddr THEN rt ELSE DeleteRoute(rt, addr[i])
           u == AddRoute(t, p, NoHop)
<1>1. rt' = u /\ addr' = [addr EXCEPT ![i] = p] /\ Room(1) /\ Unseen
  BY DEF SetAddr
<1>2. /\ Typed(rt) /\ Sound(rt) /\ Awake(rt) /\ DirectKept
      /\ addr \in [Interfaces -> AllPrefixes \cup {NoAddr}]
      /\ \A j \in Interfaces : addr[j] # NoAddr => addr[j] \in IfPrefixes[j]
      /\ p \in AllPrefixes /\ Spare(rt) # {}
  BY <1>1, Living, RoomForOne DEF AllPrefixes
<1>3. /\ addr' \in [Interfaces -> AllPrefixes \cup {NoAddr}]
      /\ \A j \in Interfaces : addr'[j] = IF j = i THEN p ELSE addr[j]
      /\ \A j \in Interfaces : addr'[j] # NoAddr => addr'[j] \in IfPrefixes[j]
  BY <1>1, <1>2
<1>4. Reaches(rt, t, {addr[i]}) /\ Awake(t) /\ Spare(t) = Spare(rt)
  <2>1. CASE addr[i] = NoAddr
    BY <1>2, <2>1, ReachesSame
  <2>2. CASE addr[i] # NoAddr
    BY <1>2, <2>2, DeleteSteps
  <2> QED  BY <2>1, <2>2
<1> HIDE DEF t
<1>5. Typed(t) /\ Sound(t) /\ t.died = "no" /\ t.flash = rt.flash
  BY <1>4 DEF Reaches, Carries
<1>6. \/ /\ Reaches(t, u, {p}) /\ Awake(u)
         /\ \E x : Spare(u) = Spare(t) \ {x}
         /\ Lookup(t, p) # {} => Spare(u) = Spare(t)
         /\ \E r \in Lookup(u, p) : NoHop = NoHop => u.route[r].direct
      \/ NoHop = NoHop /\ u = [t EXCEPT !.died = "null"]
  <2>1. NoHop \in NextHops \cup {NoHop}
    OBVIOUS
  <2> QED  BY <2>1, <1>2, <1>4, <1>5, AddSteps
<1> HIDE DEF u
<1>7. CASE u = [t EXCEPT !.died = "null"]
  BY <1>1, <1>3, <1>5, <1>7, DiedOfNull
<1>8. CASE /\ Reaches(t, u, {p}) /\ Awake(u)
           /\ \E r \in Lookup(u, p) : NoHop = NoHop => u.route[r].direct
  <2>1. Reaches(rt, rt', {addr[i]} \cup {p})
    BY <1>1, <1>4, <1>8, ReachesOn
  <2>2. DirectKept'
    <3> SUFFICES ASSUME NEW j \in Interfaces, addr'[j] # NoAddr,
                        addr'[j] \notin CliPrefixes \cup SpfPrefixes,
                        \A k \in Interfaces \ {j} : addr'[j] \notin IfPrefixes[k]
                 PROVE  \E r \in Lookup(rt', addr'[j]) : rt'.route[r].direct
      BY DEF DirectKept
    <3>1. CASE j = i
      BY <3>1, <1>1, <1>3, <1>8
    <3>2. CASE j # i
      <4>1. addr'[j] = addr[j] /\ addr[j] # NoAddr /\ addr[j] \notin IfPrefixes[i]
        BY <3>2, <1>3
      <4>2. addr[j] \notin {addr[i]} \cup {p}
        BY <4>1, <1>2
      <4>3. \E r \in Lookup(rt, addr[j]) : rt.route[r].direct
        BY <4>1, <1>2 DEF DirectKept
      <4>4. Typed(rt') /\ Kept(rt, rt', {addr[i]} \cup {p})
        BY <2>1 DEF Reaches
      <4> QED  BY <4>1, <4>2, <4>3, <4>4, <1>2, DirectOf
    <3> QED  BY <3>1, <3>2
  <2>3. Awake(rt')
    BY <1>1, <1>8
  <2> QED  BY <1>1, <1>3, <2>1, <2>2, <2>3, Moved
<1> QED  BY <1>6, <1>7, <1>8

LEMMA UnsetAddrStep ==
  ASSUME IInv, rt.died = "no", NEW i \in Interfaces, UnsetAddr(i)
  PROVE  IInv'
<1>1. rt' = DeleteRoute(rt, addr[i]) /\ addr' = [addr EXCEPT ![i] = NoAddr] /\ Unseen
      /\ addr[i] # NoAddr
  BY DEF UnsetAddr
<1>2. /\ Typed(rt) /\ Sound(rt) /\ Awake(rt) /\ DirectKept
      /\ addr \in [Interfaces -> AllPrefixes \cup {NoAddr}]
      /\ \A j \in Interfaces : addr[j] # NoAddr => addr[j] \in IfPrefixes[j]
  BY Living
<1>3. /\ addr' \in [Interfaces -> AllPrefixes \cup {NoAddr}]
      /\ \A j \in Interfaces : addr'[j] = IF j = i THEN NoAddr ELSE addr[j]
      /\ \A j \in Interfaces : addr'[j] # NoAddr => addr'[j] \in IfPrefixes[j]
  BY <1>1, <1>2
<1>4. Reaches(rt, rt', {addr[i]}) /\ Awake(rt')
  BY <1>1, <1>2, DeleteSteps
<1>5. DirectKept'
  <2> SUFFICES ASSUME NEW j \in Interfaces, addr'[j] # NoAddr,
                      addr'[j] \notin CliPrefixes \cup SpfPrefixes,
                      \A k \in Interfaces \ {j} : addr'[j] \notin IfPrefixes[k]
               PROVE  \E r \in Lookup(rt', addr'[j]) : rt'.route[r].direct
    BY DEF DirectKept
  <2>1. j # i /\ addr'[j] = addr[j] /\ addr[j] # NoAddr /\ addr[j] \notin IfPrefixes[i]
    BY <1>3
  <2>2. addr[j] \notin {addr[i]}
    BY <2>1, <1>1, <1>2
  <2>3. \E r \in Lookup(rt, addr[j]) : rt.route[r].direct
    BY <2>1, <1>2 DEF DirectKept
  <2>4. Typed(rt') /\ Kept(rt, rt', {addr[i]})
    BY <1>4 DEF Reaches
  <2> QED  BY <2>1, <2>2, <2>3, <2>4, <1>2, DirectOf
<1> QED  BY <1>1, <1>3, <1>4, <1>5, Moved

------------------------------------------------------------------------------
(* The steps that only mark routes, and those of subscribers *)

\* Routes are marked, and the flash list gets some of the table or is emptied.
LEMMA Marked ==
  ASSUME IInv, rt.died = "no", Typed(rt'), rt'.died = "no",
         rt'.table = rt.table, rt'.notify = rt.notify,
         Contains(rt.jobs, "notif") => Contains(rt'.jobs, "notif"),
         IsInjective(rt'.flash), ToSet(rt'.flash) \subseteq ToSet(rt.table) \cup ToSet(rt.flash),
         \A r \in RouteIds :
           /\ rt'.route[r] = Free <=> rt.route[r] = Free
           /\ rt'.route[r].prefix = rt.route[r].prefix /\ rt'.route[r].event = rt.route[r].event
           /\ rt'.route[r].direct = rt.route[r].direct /\ rt'.route[r].hops = rt.route[r].hops
           /\ HopsOf(rt'.route[r]),
         UNCHANGED <<addr, view, subscribed>>,
         flashes' \in Nat, rt'.flash # << >> => flashes' > 0
  PROVE  IInv'
<1>1. /\ Typed(rt) /\ Sound(rt) /\ Awake(rt) /\ ViewSound /\ DirectKept
      /\ addr \in [Interfaces -> AllPrefixes \cup {NoAddr}]
      /\ \A i \in Interfaces : addr[i] # NoAddr => addr[i] \in IfPrefixes[i]
      /\ subscribed \in BOOLEAN
  BY Living
<1>2. /\ ToSet(rt.table) \subseteq RouteIds /\ ToSet(rt.notify) \subseteq RouteIds
      /\ ToSet(rt.flash) \subseteq RouteIds
  BY <1>1, Elements DEF Typed
<1>3. Sound(rt')
  <2>1. Lists(rt')
    BY <1>1, <1>2 DEF Sound, Lists
  <2>2. One(rt')
    BY <1>1, <1>2 DEF Sound, One
  <2>3. Leaving(rt')
    BY <1>1, <1>2 DEF Sound, Leaving
  <2>4. Hopped(rt')
    BY DEF Hopped
  <2>5. Latest(rt')
    BY <1>1, <1>2 DEF Sound, Latest
  <2> QED  BY <2>1, <2>2, <2>3, <2>4, <2>5 DEF Sound
<1>4. \A p : /\ Lookup(rt', p) = Lookup(rt, p) /\ Current(rt', p) = Current(rt, p)
             /\ Pending(rt', p) <=> Pending(rt, p)
  <2> TAKE p
  <2>1. Lookup(rt', p) = {r \in ToSet(rt.table) : rt'.route[r].prefix = p}
    BY LookupOne
  <2>2. Lookup(rt, p) = {r \in ToSet(rt.table) : rt.route[r].prefix = p}
    BY <1>1, LookupOne
  <2>3. Lookup(rt', p) = Lookup(rt, p)
    BY <2>1, <2>2, <1>2
  <2>4. Pending(rt', p) <=> Pending(rt, p)
    BY <1>2 DEF Pending
  <2>5. CASE Lookup(rt, p) = {}
    BY <2>3, <2>4, <2>5 DEF Current
  <2>6. CASE Lookup(rt, p) # {}
    <3> DEFINE r == CHOOSE x \in Lookup(rt, p) : TRUE
    <3>1. r \in RouteIds
      BY <2>2, <2>6, <1>2
    <3>2. Shown(rt'.route[r]) = Shown(rt.route[r])
      BY <3>1 DEF Shown
    <3>3. Current(rt', p) = Shown(rt'.route[r]) /\ Current(rt, p) = Shown(rt.route[r])
      BY <2>3, <2>6 DEF Current
    <3> QED  BY <3>2, <3>3, <2>3, <2>4
  <2> QED  BY <2>5, <2>6
<1>5. ViewSound'
  <2> SUFFICES ASSUME NEW p \in DOMAIN view, ~Pending(rt', p)
               PROVE  view[p] = Current(rt', p)
    BY DEF ViewSound, Pending, Current
  <2>1. ~Pending(rt, p)
    BY <1>4
  <2>2. view[p] = Current(rt, p)
    BY <2>1, <1>1 DEF ViewSound, Pending, Current
  <2> QED  BY <2>2, <1>4
<1>6. DirectKept'
  <2> SUFFICES ASSUME NEW i \in Interfaces, addr[i] # NoAddr,
                      addr[i] \notin CliPrefixes \cup SpfPrefixes,
                      \A j \in Interfaces \ {i} : addr[i] \notin IfPrefixes[j]
               PROVE  \E r \in Lookup(rt', addr[i]) : rt'.route[r].direct
    BY DEF DirectKept
  <2>1. PICK r \in Lookup(rt, addr[i]) : rt.route[r].direct
    BY <1>1 DEF DirectKept
  <2>2. r \in RouteIds
    BY <1>1, LookupOne
  <2> QED  BY <2>1, <2>2, <1>4
<1>7. Awake(rt')
  BY <1>1 DEF Awake
<1>8. TypeInv' /\ Heard' /\ Flashed' /\ RoutesFreed'
  BY <1>1 DEF IInv, TypeInv, Heard, Flashed, RoutesFreed
<1> QED  BY <1>3, <1>5, <1>6, <1>7, <1>8 DEF IInv

LEMMA ForwardStep ==
  ASSUME IInv, rt.died = "no", NEW p \in AllPrefixes, Forward(p)
  PROVE  IInv'
<1>1. PICK r \in Lookup(rt, p) :
        /\ ~rt.route[r].direct /\ rt.route[r].idx < Len(rt.route[r].hops)
        /\ rt' = [rt EXCEPT !.route[r].idx = NextIdx(rt.route[r].hops, @)]
  BY DEF Forward
<1>2. /\ Typed(rt) /\ Sound(rt) /\ r \in ToSet(rt.table) /\ r \in RouteIds
      /\ rt.route \in [RouteIds -> Route] /\ rt.route[r] \in Route
      /\ flashes \in Nat
  <2>1. Typed(rt) /\ Sound(rt) /\ flashes \in Nat
    BY Living
  <2>2. r \in ToSet(rt.table) /\ r \in RouteIds
    BY <2>1, LookupOne
  <2> QED  BY <2>1, <2>2 DEF Typed
<1> DEFINE hops == rt.route[r].hops
           i == NextIdx(hops, rt.route[r].idx)
           q == [rt.route[r] EXCEPT !.idx = i]
<1>3. i \in Nat /\ i < Len(hops)
  <2>1. rt.route[r].idx \in Nat /\ hops \in Seq(NextHops)
    BY <1>2 DEF Route
  <2>2. Len(hops) \in Nat
    BY <2>1, LenProperties
  <2> HIDE DEF hops
  <2> QED  BY <1>1, <2>1, <2>2 DEF NextIdx, hops
<1> HIDE DEF i
<1>4. /\ q \in Route /\ q.prefix = rt.route[r].prefix /\ q.event = rt.route[r].event
      /\ q.direct = rt.route[r].direct /\ q.hops = hops /\ q.idx = i
  BY <1>2, <1>3 DEF Route
<1>5. /\ rt'.table = rt.table /\ rt'.notify = rt.notify /\ rt'.flash = rt.flash
      /\ rt'.jobs = rt.jobs /\ rt'.died = rt.died /\ rt'.requests = rt.requests
      /\ rt' = [rt EXCEPT !.route[r].idx = i]
  BY <1>1, <1>2 DEF Typed, i
<1>6. rt'.route = [rt.route EXCEPT ![r] = q]
  BY <1>5, <1>2 DEF Typed
<1>7. Typed(rt')
  <2> HIDE DEF q, hops
  <2>1. rt'.route \in [RouteIds -> Route]
    BY <1>2, <1>4, <1>6
  <2>2. rt' = [route |-> rt'.route, table |-> rt'.table, notify |-> rt'.notify, flash |-> rt'.flash,
               requests |-> rt'.requests, jobs |-> rt'.jobs, died |-> rt'.died]
    BY <1>5, <1>2 DEF Typed
  <2> QED  BY <2>1, <2>2, <1>2, <1>5 DEF Typed
<1>8. q # Free /\ rt.route[r] # Free /\ HopsOf(q)
  <2>1. rt.route[r] # Free /\ rt.route[r].prefix # "free"
    BY <1>2 DEF Sound, Lists, Leaving
  <2>2. q.prefix # "free"
    BY <1>4, <2>1
  <2>3. Free.prefix = "free"
    BY DEF Free, NewRoute
  <2>4. HopsOf(q)
    <3>1. HopsOf(rt.route[r])
      BY <1>2 DEF Sound, Hopped
    <3> HIDE DEF q
    <3> QED  BY <3>1, <1>1, <1>3, <1>4 DEF HopsOf
  <2> HIDE DEF q
  <2> QED  BY <2>1, <2>2, <2>3, <2>4
<1>9. \A s \in RouteIds :
        /\ rt'.route[s] = Free <=> rt.route[s] = Free
        /\ rt'.route[s].prefix = rt.route[s].prefix /\ rt'.route[s].event = rt.route[s].event
        /\ rt'.route[s].direct = rt.route[s].direct /\ rt'.route[s].hops = rt.route[s].hops
        /\ HopsOf(rt'.route[s])
  <2> TAKE s \in RouteIds
  <2>1. CASE s = r
    <3>1. rt'.route[s] = q
      BY <2>1, <1>2, <1>6
    <3> HIDE DEF q
    <3> QED  BY <2>1, <3>1, <1>4, <1>8
  <2>2. CASE s # r
    <3>1. rt'.route[s] = rt.route[s]
      BY <2>2, <1>2, <1>6
    <3> QED  BY <3>1, <1>2 DEF Sound, Hopped
  <2> QED  BY <2>1, <2>2
<1> HIDE DEF q, hops
<1>10. UNCHANGED <<addr, view, subscribed>> /\ flashes' = flashes
  BY DEF Forward, Unseen
<1>11. IsInjective(rt'.flash) /\ ToSet(rt'.flash) \subseteq ToSet(rt.table) \cup ToSet(rt.flash)
  BY <1>2, <1>5 DEF Sound, Lists
<1>12. rt'.flash # << >> => flashes' > 0
  BY <1>5, <1>10 DEF IInv, Flashed
<1>13. rt'.died = "no" /\ (Contains(rt.jobs, "notif") => Contains(rt'.jobs, "notif"))
  BY <1>5
<1> QED  BY <1>2, <1>5, <1>7, <1>9, <1>10, <1>11, <1>12, <1>13, Marked

LEMMA SubscribeStep ==
  ASSUME IInv, rt.died = "no", Subscribe \/ Unsubscribe
  PROVE  IInv'
<1>1. view' = << >> /\ subscribed' \in BOOLEAN /\ UNCHANGED <<rt, addr, flashes>>
  BY DEF Subscribe, Unsubscribe
<1>2. DOMAIN view' = {}
  BY <1>1
<1>3. ViewSound'
  BY <1>2 DEF ViewSound
<1>4. TypeInv' /\ Heard' /\ Flashed' /\ RoutesFreed' /\ DirectKept'
  BY <1>1, Living DEF IInv, TypeInv, Heard, Flashed, RoutesFreed, DirectKept
<1>5. Sound(rt') /\ Awake(rt')
  BY <1>1, Living
<1> QED  BY <1>3, <1>4, <1>5 DEF IInv

------------------------------------------------------------------------------
(* The steps of flashes *)

\* The routes of the table are put in front of the flash list.
LEMMA PutSteps ==
  ASSUME NEW list \in Seq(RouteIds), NEW flash \in Seq(RouteIds), IsInjective(flash),
         NEW f, Putting(list, flash, Len(list), f)
  PROVE  /\ f[Len(list)] \in Seq(RouteIds) /\ IsInjective(f[Len(list)])
         /\ ToSet(f[Len(list)]) \subseteq ToSet(list) \cup ToSet(flash)
<1> DEFINE n == Len(list)
           Put(k) == /\ f[k] \in Seq(RouteIds) /\ IsInjective(f[k])
                     /\ ToSet(f[k]) \subseteq ToSet(list) \cup ToSet(flash)
           T == {k \in 0..n : ~Put(k)}
<1>1. n \in Nat /\ \A k \in 1..n : list[k] \in RouteIds /\ list[k] \in ToSet(list)
  BY Elements
<1>2. f[0] = flash /\ \A k \in 1..n : f[k] = <<list[k]>> \o RemoveFirst(f[k - 1], list[k])
  <2>1. f = [k \in 0..n |-> IF k = 0 THEN flash
                            ELSE <<list[k]>> \o RemoveFirst(f[k - 1], list[k])]
    BY DEF Putting
  <2>2. 0 \in 0..n /\ \A k \in 1..n : k \in 0..n /\ k # 0
    BY <1>1
  <2> HIDE DEF n, T
  <2> QED  BY <2>1, <2>2, Zenon
<1>3. T = {}
  <2> SUFFICES ASSUME T # {} PROVE FALSE
    OBVIOUS
  <2>1. PICK k \in T : \A i \in T : ~(i < k)
    <3>1. T \in SUBSET Nat
      OBVIOUS
    <3> HIDE DEF T
    <3> QED  BY <3>1, Least
  <2>2. k \in 0..n /\ ~Put(k)
    OBVIOUS
  <2>3. k # 0
    <3>1. Put(0)
      BY <1>2
    <3> QED  BY <2>2, <3>1
  <2>4. k \in 1..n /\ k - 1 \in 0..n /\ k - 1 < k
    BY <1>1, <2>2, <2>3
  <2>5. Put(k - 1)
    BY <2>1, <2>4
  <2> HIDE DEF T, n
  <2>6. f[k] = <<list[k]>> \o RemoveFirst(f[k - 1], list[k])
    BY <1>2, <2>4
  <2>7. Put(k)
    BY <1>1, <2>4, <2>5, <2>6, TouchedList
  <2> QED  BY <2>2, <2>7
<1>4. n \in 0..n
  BY <1>1
<1> QED  BY <1>3, <1>4

\* A flag of some routes is set or cleared: what Marked needs to know of them.
LEMMA Flagged ==
  ASSUME Typed(rt), Sound(rt), NEW S, NEW flag \in BOOLEAN,
         NEW f, f = [r \in RouteIds |-> IF r \in S THEN [rt.route[r] EXCEPT !.flashed = flag]
                                        ELSE rt.route[r]],
         \A r \in S : rt.route[r] # Free
  PROVE  /\ f \in [RouteIds -> Route]
         /\ \A r \in RouteIds :
              /\ f[r] = Free <=> rt.route[r] = Free
              /\ f[r].prefix = rt.route[r].prefix /\ f[r].event = rt.route[r].event
              /\ f[r].direct = rt.route[r].direct /\ f[r].hops = rt.route[r].hops
              /\ HopsOf(f[r])
<1>1. \A r \in RouteIds : rt.route[r] \in Route
  BY DEF Typed
<1>2. ASSUME NEW r \in RouteIds
      PROVE  /\ f[r] \in Route /\ (f[r] = Free <=> rt.route[r] = Free)
             /\ f[r].prefix = rt.route[r].prefix /\ f[r].event = rt.route[r].event
             /\ f[r].direct = rt.route[r].direct /\ f[r].hops = rt.route[r].hops
             /\ HopsOf(f[r])
  <2>1. HopsOf(rt.route[r])
    BY DEF Sound, Hopped
  <2>2. CASE r \in S
    <3>1. f[r] = [rt.route[r] EXCEPT !.flashed = flag]
      BY <2>2
    <3>2. /\ f[r] \in Route /\ f[r].prefix = rt.route[r].prefix
          /\ f[r].event = rt.route[r].event /\ f[r].direct = rt.route[r].direct
          /\ f[r].hops = rt.route[r].hops /\ f[r].idx = rt.route[r].idx
      BY <3>1, <1>1 DEF Route
    <3>3. HopsOf(f[r])
      BY <2>1, <3>2 DEF HopsOf
    <3>4. rt.route[r] # Free /\ rt.route[r].prefix # "free"
      BY <2>2 DEF Sound, Leaving
    <3>5. Free.prefix = "free"
      BY DEF Free, NewRoute
    <3> QED  BY <3>2, <3>3, <3>4, <3>5
  <2>3. CASE r \notin S
    BY <2>1, <2>3, <1>1
  <2> QED  BY <2>2, <2>3
<1> QED  BY <1>2

LEMMA RequestFlashStep ==
  ASSUME IInv, rt.died = "no", RequestFlash
  PROVE  IInv'
<1>1. /\ Typed(rt) /\ Sound(rt) /\ rt.table \in Seq(RouteIds) /\ rt.flash \in Seq(RouteIds)
      /\ IsInjective(rt.flash) /\ rt.jobs \in Seq({"notif", "flash"}) /\ flashes \in Nat
      /\ rt.requests \in Int /\ rt.route \in [RouteIds -> Route] /\ Len(rt.table) \in Nat
      /\ \A r \in ToSet(rt.table) : rt.route[r] # Free
      /\ \A r \in RouteIds : HopsOf(rt.route[r])
  BY Living, Elements DEF Typed, Sound, Lists, Hopped
<1>2. /\ flashes' \in Nat /\ flashes' > 0 /\ UNCHANGED <<addr, view, subscribed>>
  BY <1>1 DEF RequestFlash
<1>3. CASE Contains(rt.jobs, "flash")
  <2>1. rt' = [rt EXCEPT !.requests = rt.requests + 1] /\ rt.requests + 1 \in Int
    BY <1>1, <1>3 DEF RequestFlash
  <2>2. /\ Typed(rt') /\ rt'.died = "no" /\ rt'.table = rt.table /\ rt'.notify = rt.notify
        /\ rt'.jobs = rt.jobs /\ rt'.flash = rt.flash /\ rt'.route = rt.route
    BY <2>1, <1>1 DEF Typed
  <2> QED  BY <2>2, <1>1, <1>2, Marked
<1>4. CASE ~Contains(rt.jobs, "flash")
  <2> DEFINE f == CHOOSE g : Putting(rt.table, rt.flash, Len(rt.table), g)
             put == f[Len(rt.table)]
             asked == [r \in RouteIds |-> IF r \in ToSet(rt.table)
                                          THEN [rt.route[r] EXCEPT !.flashed = TRUE]
                                          ELSE rt.route[r]]
  <2>1. Putting(rt.table, rt.flash, Len(rt.table), f)
    BY <1>1, PuttingExists
  <2>2. rt' = [[rt EXCEPT !.requests = @ + 1] EXCEPT !.route = asked, !.flash = put,
                          !.jobs = Append(@, "flash")]
    BY <1>4 DEF RequestFlash, Putting
  <2> HIDE DEF f
  <2>3. /\ put \in Seq(RouteIds) /\ IsInjective(put)
        /\ ToSet(put) \subseteq ToSet(rt.table) \cup ToSet(rt.flash)
    BY <2>1, <1>1, PutSteps
  <2>4. /\ asked \in [RouteIds -> Route]
        /\ \A r \in RouteIds :
             /\ asked[r] = Free <=> rt.route[r] = Free
             /\ asked[r].prefix = rt.route[r].prefix /\ asked[r].event = rt.route[r].event
             /\ asked[r].direct = rt.route[r].direct /\ asked[r].hops = rt.route[r].hops
             /\ HopsOf(asked[r])
    BY <1>1, Flagged
  <2>5. /\ Append(rt.jobs, "flash") \in Seq({"notif", "flash"})
        /\ Contains(rt.jobs, "notif") => Contains(Append(rt.jobs, "flash"), "notif")
    <3>1. /\ Append(rt.jobs, "flash") \in Seq({"notif", "flash"})
          /\ ToSet(Append(rt.jobs, "flash")) = ToSet(rt.jobs) \cup {"flash"}
      BY <1>1, AppendElements
    <3>2. /\ Contains(rt.jobs, "notif") <=> "notif" \in ToSet(rt.jobs)
          /\ Contains(Append(rt.jobs, "flash"), "notif") <=> "notif" \in ToSet(Append(rt.jobs, "flash"))
      BY <1>1, <3>1, Elements, SMTT(30) DEF Contains
    <3> QED  BY <3>1, <3>2
  <2> HIDE DEF put, asked
  <2>6. /\ rt'.died = "no" /\ rt'.table = rt.table /\ rt'.notify = rt.notify
        /\ rt'.jobs = Append(rt.jobs, "flash") /\ rt'.flash = put /\ rt'.route = asked
        /\ rt'.requests = rt.requests + 1 /\ rt.requests + 1 \in Int
    BY <2>2, <1>1 DEF Typed
  <2>7. Typed(rt')
    <3>1. rt' = [route |-> rt'.route, table |-> rt'.table, notify |-> rt'.notify, flash |-> rt'.flash,
                 requests |-> rt'.requests, jobs |-> rt'.jobs, died |-> rt'.died]
      BY <2>2, <1>1 DEF Typed
    <3> QED  BY <3>1, <2>3, <2>4, <2>5, <2>6, <1>1 DEF Typed
  <2> QED  BY <2>3, <2>4, <2>5, <2>6, <2>7, <1>2, Marked
<1> QED  BY <1>3, <1>4

LEMMA FlashJobStep ==
  ASSUME IInv, rt.died = "no", FlashJob
  PROVE  IInv'
<1> DEFINE t == [rt EXCEPT !.jobs = Tail(@), !.requests = @ - 1]
           gone == Deleted(t, t.flash)
           seen == [r \in RouteIds |-> IF r \in ToSet(rt.flash)
                                       THEN [rt.route[r] EXCEPT !.flashed = FALSE] ELSE rt.route[r]]
<1>1. /\ Typed(rt) /\ Sound(rt) /\ rt.table \in Seq(RouteIds) /\ rt.flash \in Seq(RouteIds)
      /\ rt.notify \in Seq(RouteIds) /\ IsInjective(rt.flash)
      /\ rt.jobs \in Seq({"notif", "flash"}) /\ flashes \in Nat
      /\ rt.requests \in Int /\ rt.route \in [RouteIds -> Route]
      /\ \A r \in ToSet(rt.flash) : r \in RouteIds /\ rt.route[r] # Free
      /\ \A r \in RouteIds : HopsOf(rt.route[r])
  BY Living, Elements DEF Typed, Sound, Lists, Hopped
<1>2. /\ rt.jobs # << >> /\ Head(rt.jobs) = "flash"
      /\ rt' = IF t.requests > 0 THEN [t EXCEPT !.jobs = Append(@, "flash")] ELSE Purged(t)
      /\ UNCHANGED <<addr, view, subscribed, flashes>>
  BY DEF FlashJob
<1>3. /\ Tail(rt.jobs) \in Seq({"notif", "flash"})
      /\ Contains(rt.jobs, "notif") => "notif" \in ToSet(Tail(rt.jobs))
  <2>1. /\ Tail(rt.jobs) \in Seq({"notif", "flash"})
        /\ ToSet(rt.jobs) = {Head(rt.jobs)} \cup ToSet(Tail(rt.jobs))
    BY <1>1, <1>2, TailElements
  <2>2. Contains(rt.jobs, "notif") => "notif" \in ToSet(rt.jobs)
    BY <1>1, Elements DEF Contains
  <2> QED  BY <1>2, <2>1, <2>2
<1>4. /\ Typed(t) /\ t.route = rt.route /\ t.table = rt.table /\ t.notify = rt.notify
      /\ t.flash = rt.flash /\ t.died = "no" /\ t.jobs = Tail(rt.jobs)
  <2> DEFINE n == rt.requests - 1
             js == Tail(rt.jobs)
  <2>1. n \in Int /\ js \in Seq({"notif", "flash"})
    BY <1>1, <1>3
  <2>2. t = [rt EXCEPT !.jobs = js, !.requests = n]
    BY <1>1 DEF Typed
  <2> HIDE DEF t, n, js
  <2>3. t = [route |-> rt.route, table |-> rt.table, notify |-> rt.notify, flash |-> rt.flash,
             requests |-> n, jobs |-> js, died |-> "no"]
    BY <1>1, <2>2 DEF Typed
  <2> QED  BY <2>1, <2>3, <1>1 DEF Typed, js
<1> HIDE DEF t
<1>5. t.flash # << >> => flashes > 0
  BY <1>4 DEF IInv, Flashed
<1>6. CASE t.requests > 0
  <2>1. rt' = [t EXCEPT !.jobs = Append(@, "flash")]
    BY <1>2, <1>6
  <2>2. /\ Append(t.jobs, "flash") \in Seq({"notif", "flash"})
        /\ Contains(rt.jobs, "notif") => Contains(Append(t.jobs, "flash"), "notif")
    <3>0. t.jobs \in Seq({"notif", "flash"}) /\ "flash" \in {"notif", "flash"}
      BY <1>3, <1>4
    <3>1. /\ Append(t.jobs, "flash") \in Seq({"notif", "flash"})
          /\ ToSet(Append(t.jobs, "flash")) = ToSet(t.jobs) \cup {"flash"}
      BY <3>0, AppendElements
    <3>2. "notif" \in ToSet(Append(t.jobs, "flash")) => Contains(Append(t.jobs, "flash"), "notif")
      BY <3>1, Elements DEF Contains
    <3> QED  BY <3>1, <3>2, <1>3, <1>4
  <2>3. /\ Typed(rt') /\ rt'.died = "no" /\ rt'.table = rt.table /\ rt'.notify = rt.notify
        /\ rt'.jobs = Append(t.jobs, "flash") /\ rt'.flash = rt.flash /\ rt'.route = rt.route
    BY <2>1, <2>2, <1>4 DEF Typed
  <2> QED  BY <2>2, <2>3, <1>1, <1>2, <1>4, <1>5, Marked
<1>7. CASE ~(t.requests > 0)
  <2> DEFINE v == [t EXCEPT !.route = seen, !.flash = << >>]
  <2>1. rt' = FreeRoutes(v, gone)
    BY <1>2, <1>4, <1>7 DEF Purged
  <2>2. /\ seen \in [RouteIds -> Route]
        /\ \A r \in RouteIds :
             /\ seen[r] = Free <=> rt.route[r] = Free
             /\ seen[r].prefix = rt.route[r].prefix /\ seen[r].event = rt.route[r].event
             /\ seen[r].direct = rt.route[r].direct /\ seen[r].hops = rt.route[r].hops
             /\ HopsOf(seen[r])
    BY <1>1, Flagged
  <2> HIDE DEF seen
  <2>3. /\ Typed(v) /\ v.route = seen /\ v.flash = << >> /\ v.table = rt.table
        /\ v.notify = rt.notify /\ v.jobs = Tail(rt.jobs) /\ v.died = "no"
    BY <1>4, <2>2, EmptySeq DEF Typed
  <2>4. \A r \in gone : Contains(v.notify, r)
    <3> TAKE r \in gone
    <3>1. r \in RouteIds /\ rt.route[r] # Free /\ rt.route[r].event = "del" /\ r \in ToSet(rt.flash)
      BY <1>1, <1>4 DEF Deleted
    <3>2. r \in ToSet(rt.notify)
      BY <3>1, <1>1 DEF Sound, Leaving
    <3>3. Contains(rt.notify, r)
      BY <3>2, <1>1, Elements DEF Contains
    <3> QED  BY <3>3, <2>3
  <2> HIDE DEF v
  <2>5. CASE gone # {}
    <3>1. rt' = [v EXCEPT !.died = "assert"]
      BY <2>1, <2>4, <2>5 DEF FreeRoutes
    <3>2. Typed(rt') /\ rt'.died = "assert" /\ rt'.flash = << >>
      BY <3>1, <2>3 DEF Typed
    <3>3. flashes > 0
      <4>1. ToSet(t.flash) # {}
        BY <2>5 DEF Deleted
      <4>2. t.flash # << >>
        BY <4>1 DEF ToSet
      <4> QED  BY <4>2, <1>5
    <3>4. TypeInv' /\ Heard' /\ Flashed' /\ RoutesFreed'
      BY <3>2, <3>3, <1>2, Living DEF IInv, TypeInv, Heard, Flashed, RoutesFreed
    <3> QED  BY <3>2, <3>4 DEF IInv
  <2>6. CASE gone = {}
    <3> HIDE DEF gone
    <3>1. rt' = [v EXCEPT !.route = [r \in RouteIds |-> IF r \in gone THEN Free ELSE @[r]]]
      BY <2>1, <2>6 DEF FreeRoutes
    <3>2. [r \in RouteIds |-> IF r \in gone THEN Free ELSE v.route[r]] = seen
      BY <2>2, <2>3, <2>6
    <3>3. rt' = [v EXCEPT !.route = seen]
      BY <3>1, <3>2
    <3>4. /\ Typed(rt') /\ rt'.died = "no" /\ rt'.table = rt.table /\ rt'.notify = rt.notify
          /\ rt'.jobs = Tail(rt.jobs) /\ rt'.flash = << >> /\ rt'.route = seen
      BY <3>3, <2>2, <2>3 DEF Typed
    <3>5. ToSet(<< >>) = {} /\ IsInjective(<< >>)
      BY DEF ToSet, IsInjective
    <3>6. Contains(rt.jobs, "notif") => Contains(Tail(rt.jobs), "notif")
      <4>1. "notif" \in ToSet(Tail(rt.jobs)) => Contains(Tail(rt.jobs), "notif")
        BY <1>3, Elements DEF Contains
      <4> QED  BY <4>1, <1>3
    <3>7. \A r \in RouteIds :
             /\ rt'.route[r] = Free <=> rt.route[r] = Free
             /\ rt'.route[r].prefix = rt.route[r].prefix /\ rt'.route[r].event = rt.route[r].event
             /\ rt'.route[r].direct = rt.route[r].direct /\ rt'.route[r].hops = rt.route[r].hops
             /\ HopsOf(rt'.route[r])
      BY <3>4, <2>2
    <3> QED  BY <3>4, <3>5, <3>6, <3>7, <1>1, <1>2, Marked
  <2> QED  BY <2>5, <2>6
<1> QED  BY <1>6, <1>7

------------------------------------------------------------------------------
(* The step that announces *)

\* The last of Q to be announced stands before all others on the notify list.
LEMMA LastOf ==
  ASSUME NEW s \in Seq(RouteIds), NEW Q
  PROVE  LET order == Oldest(s)
             about == {k \in DOMAIN order : order[k] \in Q}
             r == order[Max(about)]
         IN /\ DOMAIN order = 1..Len(s)
            /\ {order[k] : k \in DOMAIN order} = ToSet(s)
            /\ about = {} <=> ToSet(s) \cap Q = {}
            /\ about # {} => /\ r \in ToSet(s) \cap Q
                             /\ \A x \in ToSet(s) \cap Q : x = r \/ Before(s, r, x)
<1> DEFINE order == Oldest(s)
           n == Len(s)
           about == {k \in DOMAIN order : order[k] \in Q}
           r == order[Max(about)]
<1>1. /\ n \in Nat /\ DOMAIN s = 1..n
      /\ \A x : x \in ToSet(s) <=> \E i \in 1..n : s[i] = x
  BY Elements
<1>2. DOMAIN order = 1..n /\ \A k \in 1..n : order[k] = s[n - k + 1]
  BY DEF Oldest, Reverse
<1> HIDE DEF order, n
<1>3. \A k \in 1..n : n - k + 1 \in 1..n /\ order[n - k + 1] = s[k] /\ order[k] \in ToSet(s)
  <2> TAKE k \in 1..n
  <2>1. n - k + 1 \in 1..n /\ n - (n - k + 1) + 1 = k
    BY <1>1
  <2> QED  BY <2>1, <1>1, <1>2
<1>4. {order[k] : k \in DOMAIN order} = ToSet(s)
  BY <1>1, <1>2, <1>3
<1>5. about = {} <=> ToSet(s) \cap Q = {}
  <2>1. about = {} <=> \A x \in {order[k] : k \in DOMAIN order} : x \notin Q
    OBVIOUS
  <2> QED  BY <2>1, <1>4
<1>6. ASSUME about # {}
      PROVE  /\ r \in ToSet(s) \cap Q
             /\ \A x \in ToSet(s) \cap Q : x = r \/ Before(s, r, x)
  <2> DEFINE m == Max(about)
             T == {j \in Nat : n - j \in about}
  <2>1. about \subseteq 1..n
    BY <1>2
  <2>2. T # {} /\ T \in SUBSET Nat
    <3>1. PICK k \in about : TRUE
      BY <1>6
    <3>2. k \in 1..n
      BY <3>1, <2>1
    <3> HIDE DEF about
    <3>3. n - k \in Nat /\ n - (n - k) = k
      BY <1>1, <3>2
    <3>4. n - k \in T
      BY <3>1, <3>3
    <3> QED  BY <3>4
  <2>3. PICK j \in T : \A i \in T : ~(i < j)
    <3> HIDE DEF T
    <3> QED  BY <2>2, Least
  <2>4. m \in about /\ \A k \in about : m >= k
    <3>1. n - j \in about /\ \A k \in about : n - j >= k
      <4>1. n - j \in about /\ j \in Nat
        BY <2>3
      <4>2. ASSUME NEW k \in about PROVE n - j >= k
        <5>1. k \in 1..n
          BY <2>1
        <5> HIDE DEF about
        <5>2. n - k \in Nat /\ n - (n - k) = k
          BY <1>1, <5>1
        <5>3. n - k \in T
          BY <4>2, <5>2
        <5>4. ~(n - k < j)
          BY <5>3, <2>3
        <5> QED  BY <1>1, <4>1, <5>1, <5>4
      <4> QED  BY <4>1, <4>2
    <3> HIDE DEF about
    <3> QED  BY <3>1 DEF Max
  <2> HIDE DEF m
  <2>5. m \in 1..n /\ order[m] \in Q /\ r = order[m]
    BY <2>1, <2>4 DEF m
  <2>6. ASSUME NEW x \in ToSet(s) \cap Q, x # r
        PROVE  Before(s, r, x)
    <3>1. PICK i \in 1..n : s[i] = x
      BY <1>1
    <3>2. n - i + 1 \in about
      BY <3>1, <1>2, <1>3
    <3>3. n - i + 1 <= m
      BY <3>2, <2>4
    <3>4. r = s[n - m + 1] /\ n - m + 1 \in 1..n
      BY <2>5, <1>2, <1>3
    <3>5. n - m + 1 # i
      BY <3>1, <3>4, <2>6
    <3>6. n - m + 1 < i
      <4> HIDE DEF about, r
      <4> QED  BY <3>1, <3>3, <3>4, <3>5, <2>5, <1>1
    <3> QED  BY <3>1, <3>4, <3>6, <1>1 DEF Before
  <2>7. r \in ToSet(s) \cap Q
    BY <2>5, <1>3
  <2> QED  BY <2>6, <2>7
<1> QED  BY <1>2, <1>4, <1>5, <1>6 DEF order, n

\* Once all were announced, the subscriber knows what the table holds.
LEMMA ToldIsCurrent ==
  ASSUME IInv, rt.died = "no", NEW p \in DOMAIN Told(Oldest(rt.notify))
  PROVE  Told(Oldest(rt.notify))[p] = Current(rt, p)
<1> DEFINE order == Oldest(rt.notify)
           Q == {r \in RouteIds : rt.route[r].prefix = p}
           About == {k \in DOMAIN order : rt.route[order[k]].prefix = p}
           inQ == {k \in DOMAIN order : order[k] \in Q}
           last == order[Max(About)]
<1>1. /\ Typed(rt) /\ Sound(rt) /\ ViewSound /\ rt.notify \in Seq(RouteIds)
      /\ ToSet(rt.notify) \subseteq RouteIds
  BY Living, Elements DEF Typed
<1>2. /\ {order[k] : k \in DOMAIN order} = ToSet(rt.notify)
      /\ inQ = {} <=> ToSet(rt.notify) \cap Q = {}
      /\ inQ # {} => /\ order[Max(inQ)] \in ToSet(rt.notify) \cap Q
                     /\ \A x \in ToSet(rt.notify) \cap Q :
                          x = order[Max(inQ)] \/ Before(rt.notify, order[Max(inQ)], x)
  <2> HIDE DEF Q
  <2> QED  BY <1>1, LastOf
<1>3. /\ p \in DOMAIN view \cup {rt.route[order[k]].prefix : k \in DOMAIN order}
      /\ Told(order)[p] = IF About = {} THEN view[p] ELSE Announced(rt.route[last])
  BY DEF Told
<1> HIDE DEF order
<1>4. About = inQ
  <2>1. \A k \in DOMAIN order : order[k] \in RouteIds
    BY <1>1, <1>2
  <2> QED  BY <2>1
<1> HIDE DEF About, inQ
<1>5. CASE About = {}
  <2>1. ~Pending(rt, p)
    BY <1>1, <1>2, <1>4, <1>5 DEF Pending
  <2>2. p \in DOMAIN view
    BY <1>3, <1>5 DEF About
  <2>3. view[p] = Current(rt, p)
    BY <2>1, <2>2, <1>1 DEF ViewSound, Pending, Current
  <2> QED  BY <2>3, <1>3, <1>5 DEF order
<1>6. CASE About # {}
  <2>1. /\ last \in ToSet(rt.notify) /\ last \in RouteIds /\ rt.route[last].prefix = p
        /\ \A x \in ToSet(rt.notify) \cap Q : x = last \/ Before(rt.notify, last, x)
    BY <1>2, <1>4, <1>6
  <2> HIDE DEF last
  <2>2. Told(order)[p] = Announced(rt.route[last])
    BY <1>3, <1>6
  <2>3. CASE Lookup(rt, p) = {}
    <3>1. last \notin ToSet(rt.table) /\ rt.route[last] # Free
      BY <2>1, <2>3, <1>1, LookupOne DEF Sound, Lists
    <3>2. rt.route[last].event = "del"
      BY <3>1, <2>1, <1>1 DEF Sound, Leaving
    <3> QED  BY <3>2, <2>2, <2>3 DEF Announced, Current, order
  <2>4. CASE Lookup(rt, p) # {}
    <3>1. PICK x \in Lookup(rt, p) : TRUE
      BY <2>4
    <3>2. x \in ToSet(rt.table) /\ rt.route[x].prefix = p /\ x \in RouteIds
      BY <3>1, <1>1, LookupOne
    <3>3. x = last
      <4>1. x # last => x \in ToSet(rt.notify) /\ ~Before(rt.notify, last, x)
        BY <3>2, <2>1, <1>1 DEF Sound, Latest
      <4> QED  BY <4>1, <3>2, <2>1
    <3>4. rt.route[last].event # "del"
      BY <3>2, <3>3, <1>1 DEF Sound, Leaving
    <3>5. Current(rt, p) = Shown(rt.route[x])
      BY <3>1, <1>1, LookupOne DEF Sound
    <3> QED  BY <3>3, <3>4, <3>5, <2>2 DEF Announced, order
  <2> QED  BY <2>3, <2>4
<1> QED  BY <1>5, <1>6

LEMMA NotifyJobStep ==
  ASSUME IInv, rt.died = "no", NotifyJob
  PROVE  IInv'
<1> DEFINE gone == Deleted(rt, rt.notify)
           idle == [r \in RouteIds |-> IF r \in ToSet(rt.notify) \ gone
                                       THEN [rt.route[r] EXCEPT !.event = "none"] ELSE rt.route[r]]
           left == [r \in RouteIds |-> IF r \in gone THEN Free ELSE idle[r]]
           v == [rt EXCEPT !.jobs = Tail(@), !.notify = << >>, !.route = idle]
<1>1. /\ Typed(rt) /\ Sound(rt) /\ rt.table \in Seq(RouteIds) /\ rt.flash \in Seq(RouteIds)
      /\ rt.notify \in Seq(RouteIds) /\ rt.jobs \in Seq({"notif", "flash"})
      /\ rt.route \in [RouteIds -> Route]
      /\ ToSet(rt.table) \subseteq RouteIds /\ ToSet(rt.notify) \subseteq RouteIds
      /\ ToSet(rt.flash) \subseteq RouteIds
  BY Living, Elements DEF Typed
<1>2. /\ rt.jobs # << >> /\ rt' = FreeRoutes(v, gone)
      /\ view' = IF subscribed THEN Told(Oldest(rt.notify)) ELSE view
      /\ UNCHANGED <<addr, subscribed, flashes>>
  BY DEF NotifyJob
<1>3. /\ gone \subseteq RouteIds /\ gone \subseteq ToSet(rt.notify)
      /\ gone \cap ToSet(rt.table) = {}
      /\ \A r \in gone : rt.route[r].event = "del"
      /\ \A r \in ToSet(rt.notify) : rt.route[r].event = "del" => r \in gone
  BY <1>1 DEF Deleted, Sound, Leaving
<1> HIDE DEF gone
<1>4. \A r \in RouteIds :
        /\ idle[r] \in Route /\ idle[r].prefix = rt.route[r].prefix
        /\ idle[r].direct = rt.route[r].direct /\ idle[r].hops = rt.route[r].hops
        /\ idle[r].idx = rt.route[r].idx
        /\ idle[r].event \in {"none", rt.route[r].event}
        /\ r \in ToSet(rt.notify) \ gone \/ idle[r] = rt.route[r]
  <2> TAKE r \in RouteIds
  <2>1. rt.route[r] \in Route
    BY <1>1
  <2>2. CASE r \in ToSet(rt.notify) \ gone
    <3>1. idle[r] = [rt.route[r] EXCEPT !.event = "none"]
      BY <2>2
    <3> QED  BY <3>1, <2>1, <2>2 DEF Route
  <2>3. CASE r \notin ToSet(rt.notify) \ gone
    BY <2>1, <2>3
  <2> QED  BY <2>2, <2>3
<1>5. idle \in [RouteIds -> Route] /\ left \in [RouteIds -> Route]
  <2>1. DOMAIN idle = RouteIds /\ idle = [r \in RouteIds |-> idle[r]]
    OBVIOUS
  <2> HIDE DEF idle
  <2> QED  BY <2>1, <1>4, NewRouteType
<1>6. \A r \in RouteIds : left[r] = IF r \in gone THEN Free ELSE idle[r]
  OBVIOUS
<1> HIDE DEF idle
<1>7. /\ Typed(v) /\ v.route = idle /\ v.table = rt.table /\ v.notify = << >>
      /\ v.flash = rt.flash /\ v.died = "no"
  <2> DEFINE js == Tail(rt.jobs)
  <2>1. js \in Seq({"notif", "flash"}) /\ << >> \in Seq(RouteIds)
    BY <1>1, <1>2, TailElements, EmptySeq
  <2>2. v = [rt EXCEPT !.jobs = js, !.notify = << >>, !.route = idle]
    BY <1>1 DEF Typed
  <2> HIDE DEF v, js
  <2> QED  BY <2>1, <2>2, <1>1, <1>5 DEF Typed
<1> HIDE DEF v
<1>8. CASE \E r \in gone : Contains(v.table, r) \/ Contains(v.notify, r) \/ Contains(v.flash, r)
  <2>1. rt' = [v EXCEPT !.died = "assert"]
    BY <1>2, <1>8 DEF FreeRoutes
  <2>2. Typed(rt') /\ rt'.died = "assert" /\ rt'.flash = rt.flash
    BY <2>1, <1>7 DEF Typed
  <2>3. PICK r \in gone : Contains(v.table, r) \/ Contains(v.notify, r) \/ Contains(v.flash, r)
    BY <1>8
  <2>4. /\ Contains(rt.table, r) <=> r \in ToSet(rt.table)
        /\ ~Contains(<< >>, r)
    BY <1>1, Elements DEF Contains
  <2>5. Contains(rt.flash, r)
    BY <2>3, <2>4, <1>3, <1>7
  <2>6. rt.flash # << >>
    BY <2>4, <2>5
  <2>7. flashes > 0
    BY <2>6 DEF IInv, Flashed
  <2>8. Heard'
    BY <1>2 DEF IInv, Heard
  <2>9. TypeInv' /\ Flashed' /\ RoutesFreed'
    BY <2>2, <2>7, <1>2, Living DEF IInv, TypeInv, Flashed, RoutesFreed
  <2> QED  BY <2>2, <2>8, <2>9 DEF IInv
<1>9. CASE ~ \E r \in gone : Contains(v.table, r) \/ Contains(v.notify, r) \/ Contains(v.flash, r)
  <2>1. rt' = [v EXCEPT !.route = left]
    <3>1. rt' = [v EXCEPT !.route = [r \in RouteIds |-> IF r \in gone THEN Free ELSE @[r]]]
      BY <1>2, <1>9 DEF FreeRoutes
    <3>2. [r \in RouteIds |-> IF r \in gone THEN Free ELSE v.route[r]] = left
      BY <1>7
    <3> QED  BY <3>1, <3>2
  <2> HIDE DEF left
  <2>2. /\ Typed(rt') /\ rt'.route = left /\ rt'.table = rt.table /\ rt'.notify = << >>
        /\ rt'.flash = rt.flash /\ rt'.died = "no"
    BY <2>1, <1>5, <1>7 DEF Typed
  <2>3. gone \cap ToSet(rt.flash) = {}
    <3>1. \A r \in gone : ~Contains(rt.flash, r)
      BY <1>7, <1>9
    <3> QED  BY <3>1, <1>1, Elements DEF Contains
  <2>4. \A r \in RouteIds \ gone : rt.route[r] # Free => left[r].prefix # "free" /\ left[r] # Free
    <3> TAKE r \in RouteIds \ gone
    <3>1. left[r].prefix = rt.route[r].prefix
      BY <1>4, <1>6
    <3>2. rt.route[r] # Free => rt.route[r].prefix # "free"
      BY <1>1 DEF Sound, Leaving
    <3>3. Free.prefix = "free"
      BY DEF Free, NewRoute
    <3> QED  BY <3>1, <3>2, <3>3
  <2>5. \A r \in RouteIds : rt.route[r] = Free => left[r] = Free
    <3> TAKE r \in RouteIds
    <3>1. rt.route[r] = Free => r \notin ToSet(rt.notify)
      BY <1>1 DEF Sound, Lists
    <3> QED  BY <3>1, <1>4, <1>6
  <2>6. ToSet(<< >>) = {} /\ IsInjective(<< >>)
    BY DEF ToSet, IsInjective
  <2>7. Lists(rt')
    BY <2>2, <2>3, <2>4, <2>6, <1>1, <1>3 DEF Sound, Lists
  <2>8. One(rt')
    BY <2>2, <1>1, <1>3, <1>4, <1>6 DEF Sound, One
  <2>9. Leaving(rt')
    <3> SUFFICES ASSUME NEW r \in RouteIds
                 PROVE  /\ left[r] # Free => left[r].prefix # "free"
                        /\ r \in ToSet(rt.table) => left[r].event # "del"
                        /\ ~(left[r] # Free /\ r \notin ToSet(rt.table))
      BY <2>2 DEF Leaving
    <3>1. left[r] # Free => r \notin gone /\ rt.route[r] # Free
      BY <2>5, <1>6
    <3>2. r \in ToSet(rt.table) => left[r].event # "del"
      BY <1>1, <1>3, <1>4, <1>6 DEF Sound, Leaving
    <3>3. ~(left[r] # Free /\ r \notin ToSet(rt.table))
      BY <3>1, <1>1, <1>3 DEF Sound, Leaving
    <3> QED  BY <3>1, <3>2, <3>3, <2>4
  <2>10. Hopped(rt')
    <3> SUFFICES ASSUME NEW r \in RouteIds PROVE HopsOf(left[r])
      BY <2>2 DEF Hopped
    <3>1. HopsOf(rt.route[r])
      BY <1>1 DEF Sound, Hopped
    <3> QED  BY <3>1, <1>4, <1>6, NewRouteType DEF HopsOf
  <2>11. Latest(rt') /\ Awake(rt')
    BY <2>2, <2>6 DEF Latest, Awake
  <2>12. \A p : Lookup(rt', p) = Lookup(rt, p) /\ Current(rt', p) = Current(rt, p)
    <3> TAKE p
    <3>1. Lookup(rt', p) = {r \in ToSet(rt.table) : left[r].prefix = p}
      BY <2>2, LookupOne
    <3>2. Lookup(rt, p) = {r \in ToSet(rt.table) : rt.route[r].prefix = p}
      BY <1>1, LookupOne
    <3>3. \A r \in ToSet(rt.table) : /\ left[r].prefix = rt.route[r].prefix
                                     /\ Shown(left[r]) = Shown(rt.route[r])
      BY <1>1, <1>3, <1>4, <1>6 DEF Shown
    <3>4. Lookup(rt', p) = Lookup(rt, p)
      BY <3>1, <3>2, <3>3
    <3>5. CASE Lookup(rt, p) = {}
      BY <3>4, <3>5 DEF Current
    <3>6. CASE Lookup(rt, p) # {}
      <4> DEFINE r == CHOOSE x \in Lookup(rt, p) : TRUE
      <4>1. r \in ToSet(rt.table)
        BY <3>2, <3>6
      <4>2. Current(rt', p) = Shown(left[r]) /\ Current(rt, p) = Shown(rt.route[r])
        BY <2>2, <3>4, <3>6 DEF Current
      <4> QED  BY <4>1, <4>2, <3>3, <3>4
    <3> QED  BY <3>5, <3>6
  <2>13. ViewSound'
    <3> SUFFICES ASSUME NEW p \in DOMAIN view' PROVE view'[p] = Current(rt', p)
      BY DEF ViewSound, Current
    <3>1. subscribed
      <4>1. ~subscribed => view' = << >>
        BY <1>2 DEF IInv, Heard
      <4>2. DOMAIN << >> = {}
        OBVIOUS
      <4> QED  BY <4>1, <4>2
    <3>2. view' = Told(Oldest(rt.notify))
      BY <3>1, <1>2
    <3>3. view'[p] = Current(rt, p)
      BY <3>2, ToldIsCurrent
    <3> QED  BY <3>3, <2>12
  <2>14. DirectKept'
    <3> SUFFICES ASSUME NEW i \in Interfaces, addr[i] # NoAddr,
                        addr[i] \notin CliPrefixes \cup SpfPrefixes,
                        \A j \in Interfaces \ {i} : addr[i] \notin IfPrefixes[j]
                 PROVE  \E r \in Lookup(rt', addr[i]) : rt'.route[r].direct
      BY <1>2 DEF DirectKept
    <3>1. PICK r \in Lookup(rt, addr[i]) : rt.route[r].direct
      BY Living DEF DirectKept
    <3>2. r \in ToSet(rt.table) /\ r \in RouteIds
      BY <3>1, <1>1, LookupOne
    <3>3. left[r].direct
      BY <3>1, <3>2, <1>3, <1>4, <1>6
    <3> QED  BY <3>1, <3>3, <2>2, <2>12
  <2>15. TypeInv' /\ Heard' /\ Flashed' /\ RoutesFreed'
    BY <2>2, <1>2, Living DEF IInv, TypeInv, Heard, Flashed, RoutesFreed
  <2> QED  BY <2>2, <2>7, <2>8, <2>9, <2>10, <2>11, <2>13, <2>14, <2>15 DEF IInv, Sound
<1> QED  BY <1>8, <1>9

------------------------------------------------------------------------------
(* The theorems *)

LEMMA IInvStep == IInv /\ [Next]_vars => IInv'
<1> SUFFICES ASSUME IInv, [Next]_vars PROVE IInv'
  OBVIOUS
<1>1. CASE UNCHANGED vars
  <2>1. /\ rt' = rt /\ addr' = addr /\ view' = view
        /\ subscribed' = subscribed /\ flashes' = flashes
    BY <1>1 DEF vars
  <2>2. ViewSound' <=> ViewSound
    BY <2>1 DEF ViewSound
  <2>3. DirectKept' <=> DirectKept
    BY <2>1 DEF DirectKept
  <2>4. TypeInv' /\ Heard' /\ Flashed' /\ RoutesFreed'
    BY <2>1 DEF IInv, TypeInv, Heard, Flashed, RoutesFreed
  <2> QED  BY <2>1, <2>2, <2>3, <2>4 DEF IInv
<1>2. CASE Next
  <2>1. rt.died = "no"
    BY <1>2 DEF Next
  <2>2. CASE \E p \in CliPrefixes : \E hop \in NextHops \cup {NoHop} : ConfigRoute(p, hop)
    BY <2>1, <2>2, ConfigRouteStep
  <2>3. CASE \E p \in CliPrefixes : UnconfigRoute(p)
    BY <2>1, <2>3, UnconfigRouteStep
  <2>4. CASE \E i \in Interfaces : \E p \in IfPrefixes[i] : SetAddr(i, p)
    BY <2>1, <2>4, SetAddrStep
  <2>5. CASE \E i \in Interfaces : UnsetAddr(i)
    BY <2>1, <2>5, UnsetAddrStep
  <2>6. CASE \E found \in SpfResults : RunSpf(found)
    BY <2>1, <2>6, RunSpfStep
  <2>7. CASE \E p \in AllPrefixes : Forward(p)
    BY <2>1, <2>7, ForwardStep
  <2>8. CASE Subscribe \/ Unsubscribe
    BY <2>1, <2>8, SubscribeStep
  <2>9. CASE NotifyJob
    BY <2>1, <2>9, NotifyJobStep
  <2>10. CASE RequestFlash
    BY <2>1, <2>10, RequestFlashStep
  <2>11. CASE FlashJob
    BY <2>1, <2>11, FlashJobStep
  <2> QED  BY <1>2, <2>2, <2>3, <2>4, <2>5, <2>6, <2>7, <2>8, <2>9, <2>10, <2>11 DEF Next
<1> QED  BY <1>1, <1>2

LEMMA InvHolds == Spec => []IInv
  BY InvInit, IInvStep, PTL DEF Spec

\* The table, the notify list, the flash list and the jobs hold routes and jobs
\* at every moment, and an interface has no address but one of its own, whatever
\* is configured and however often SPF runs (layer3.c, rt_table.c).
THEOREM TypeCorrect == Spec => []TypeInv
<1>1. IInv => TypeInv
  BY DEF IInv
<1> QED  BY <1>1, InvHolds, PTL

\* The lists of the routing table, the memory of routes and the direct routes
\* are sound (RoutesSound): no route is listed twice or after it was freed, no
\* two routes of the table have the same prefix, a route that left the table
\* waits on the notify list with a job to send it, the assertions of
\* l3_route_free hold as long as no flash was requested, and an interface keeps
\* its direct route through SPF runs (rt_table_add_route, rt_table_delete_route,
\* clear_rt_table, rt_table_notif_job_cb, rt_table_flash_job, l3_route_free).
THEOREM RoutesStaySound == Spec => []RoutesSound
<1>1. IInv => RoutesSound
  <2> SUFFICES ASSUME IInv PROVE RoutesSound
    OBVIOUS
  <2>1. ASSUME rt.died = "no"
        PROVE  /\ \A list \in {rt.table, rt.notify, rt.flash} :
                    IsInjective(list) /\ \A r \in ToSet(list) : rt.route[r] # Free
               /\ \A r, s \in Routes : rt.route[r].prefix = rt.route[s].prefix => r = s
               /\ \A r \in RouteIds : rt.route[r] # Free =>
                    /\ r \in Routes \/ (rt.route[r].event = "del" /\ r \in ToSet(rt.notify))
                    /\ rt.route[r].direct <=> rt.route[r].hops = << >>
                    /\ ~rt.route[r].direct => rt.route[r].idx < Len(rt.route[r].hops)
               /\ rt.notify # << >> => Contains(rt.jobs, "notif")
    <3>1. Sound(rt) /\ Awake(rt)
      BY <2>1, Living
    <3>2. \A list \in {rt.table, rt.notify, rt.flash} :
             IsInjective(list) /\ \A r \in ToSet(list) : rt.route[r] # Free
      BY <3>1 DEF Sound, Lists
    <3>3. \A r, s \in Routes : rt.route[r].prefix = rt.route[s].prefix => r = s
      BY <3>1 DEF Sound, One, Routes
    <3>4. \A r \in RouteIds : rt.route[r] # Free =>
             /\ r \in Routes \/ (rt.route[r].event = "del" /\ r \in ToSet(rt.notify))
             /\ rt.route[r].direct <=> rt.route[r].hops = << >>
             /\ ~rt.route[r].direct => rt.route[r].idx < Len(rt.route[r].hops)
      BY <3>1 DEF Sound, Leaving, Hopped, HopsOf, Routes
    <3> QED  BY <3>1, <3>2, <3>3, <3>4 DEF Awake
  <2>2. ListsSound
    BY <2>1 DEF ListsSound
  <2>3. RoutesFreed /\ DirectKept
    BY DEF IInv, DirectKept
  <2> QED  BY <2>2, <2>3 DEF RoutesSound
<1> QED  BY <1>1, InvHolds, PTL

\* What a subscriber was told of a prefix is what the table holds, unless a
\* notification about it is still to come (ViewSound): deletions and additions
\* of the same prefix are announced in the order in which they happened, however
\* many there were before the job ran (rt_table_add_route_to_notify_list,
\* rt_table_notif_job_cb).
THEOREM ViewStaysSound == Spec => []ViewSound
<1>1. IInv => ViewSound
  BY DEF IInv, ViewSound
<1> QED  BY <1>1, InvHolds, PTL
==============================================================================
