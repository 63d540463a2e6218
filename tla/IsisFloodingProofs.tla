------------------------- MODULE IsisFloodingProofs -------------------------
(***************************************************************************)
(* The LSP objects of every router are counted exactly, an own LSP is      *)
(* never newer than the sequence number of its router and demands for      *)
(* floods end, for every topology and after any number of losses, commands *)
(* and packets.                                                            *)
(***************************************************************************)
EXTENDS IsisFlooding, ListLemmas

------------------------------------------------------------------------------
(* Interfaces and addresses *)

LEMMA Interval ==
  ASSUME NEW n \in Nat
  PROVE  /\ IsFiniteSet(1..n) /\ Cardinality(1..n) = n
         /\ IsFiniteSet(0..n) /\ Cardinality(0..n) = n + 1
<1>1. 0 \in Int /\ 1 \in Int /\ n \in Int /\ ~(0 > n) /\ (1 > n => n = 0)
  OBVIOUS
<1>2. IsFiniteSet(1..n) /\ Cardinality(1..n) = IF 1 > n THEN 0 ELSE n - 1 + 1
  BY <1>1, FS_Interval
<1>3. IsFiniteSet(0..n) /\ Cardinality(0..n) = IF 0 > n THEN 0 ELSE n - 0 + 1
  BY <1>1, FS_Interval
<1> QED BY <1>1, <1>2, <1>3

LEMMA IntfPair ==
  ASSUME FloodingAssumption
  PROVE  /\ \A i \in Intfs : /\ i = <<i[1], i[2]>>
                             /\ i[1] \in Routers /\ i[2] \in Routers /\ i[2] \in Peers(i[1])
         /\ \A r \in Routers, s \in Routers : <<r, s>> \in Intfs <=> s \in Peers(r)
         /\ \A r \in Routers : \A s \in Peers(r) : s \in Routers /\ <<r, s>> \in Intfs
BY DEF FloodingAssumption, Peers

LEMMA PeersFinite ==
  ASSUME FloodingAssumption, NEW r \in Routers, NEW S \in SUBSET Peers(r)
  PROVE  IsFiniteSet(S) /\ Cardinality(S) \in Nat
<1>1. IsFiniteSet(Routers) /\ Peers(r) \subseteq Routers
  BY DEF FloodingAssumption, Peers
<1>2. IsFiniteSet(S)
  BY <1>1, FS_Subset
<1> QED BY <1>2, FS_CardinalityType

\* Where the objects of any router may be.
Addr == Routers \X Nat \X Nat

Shape(h) == /\ IsFiniteSet(DOMAIN h) /\ DOMAIN h \subseteq Addr
            /\ \A p \in DOMAIN h : h[p] \in Lsps

\* A new object does not take the place of another.
LEMMA AddressFresh ==
  ASSUME FloodingAssumption, NEW h, Shape(h), NEW x, x.own \in Routers, x.seq \in Nat
  PROVE  Address(h, x) \in Addr /\ Address(h, x) \notin DOMAIN h /\ Address(h, x) # NULL
<1> DEFINE C == Cardinality(DOMAIN h)
           at(k) == <<x.own, x.seq, k>>
           T == {k \in 0..C : at(k) \notin DOMAIN h}
<1>1. IsFiniteSet(DOMAIN h) /\ C \in Nat
  BY FS_CardinalityType DEF Shape
<1>2. T # {}
  <2> SUFFICES ASSUME \A k \in 0..C : at(k) \in DOMAIN h PROVE FALSE
    OBVIOUS
  <2> DEFINE f == [k \in 0..C |-> at(k)]
  <2>1. f \in [0..C -> DOMAIN h]
    OBVIOUS
  <2>2. IsFiniteSet(0..C) /\ Cardinality(0..C) = C + 1
    <3> HIDE DEF C
    <3> QED BY <1>1, Interval
  <2>3. Cardinality(DOMAIN h) < Cardinality(0..C)
    BY <1>1, <2>2
  <2>4. \E k, m \in 0..C : k # m /\ f[k] = f[m]
    <3> HIDE DEF f
    <3> QED BY <1>1, <2>1, <2>2, <2>3, FS_PigeonHole
  <2> QED BY <2>4
<1>3. T \in SUBSET Nat
  <2> HIDE DEF at
  <2> QED BY <1>1
<1>4. PICK n \in T : \A m \in T : ~(m < n)
  <2> HIDE DEF T
  <2> QED BY <1>2, <1>3, Least
<1>5. n \in 0..C /\ at(n) \notin DOMAIN h /\ \A k \in 0..(n - 1) : at(k) \in DOMAIN h
  <2> HIDE DEF at
  <2>1. n \in 0..C /\ n \in Nat
    BY <1>3
  <2>2. \A k \in 0..(n - 1) : k \in 0..C /\ k < n
    BY <1>1, <2>1
  <2> QED BY <1>4, <2>1, <2>2
<1>6. PICK k \in 0..C : at(k) \notin DOMAIN h /\ Address(h, x) = at(k)
  BY <1>5 DEF Address
<1>7. Address(h, x) \in Addr
  BY <1>1, <1>6 DEF Addr
<1> QED BY <1>6, <1>7 DEF FloodingAssumption, Addr

------------------------------------------------------------------------------
(* Queues *)

Queues(q) == q \in [Intfs -> Seq(Addr)]

LEMMA PlacesFinite ==
  ASSUME FloodingAssumption, NEW q, Queues(q), NEW r \in Routers
  PROVE  /\ IsFiniteSet(Places(q, r)) /\ Cardinality(Places(q, r)) \in Nat
         /\ \A p : IsFiniteSet(Waiting(q, r, p)) /\ Cardinality(Waiting(q, r, p)) \in Nat
<1> DEFINE F == {{s} \X DOMAIN q[<<r, s>>] : s \in Peers(r)}
           f == [s \in Peers(r) |-> {s} \X DOMAIN q[<<r, s>>]]
<1>1. IsFiniteSet(Peers(r))
  BY PeersFinite
<1>2. f \in Surjection(Peers(r), F)
  BY DEF Surjection
<1>3. IsFiniteSet(F)
  <2> HIDE DEF f, F
  <2> QED BY <1>1, <1>2, FS_Surjection
<1>4. ASSUME NEW s \in Peers(r) PROVE IsFiniteSet({s} \X DOMAIN q[<<r, s>>])
  <2>1. q[<<r, s>>] \in Seq(Addr)
    BY IntfPair DEF Queues
  <2>2. DOMAIN q[<<r, s>>] = 1..Len(q[<<r, s>>]) /\ Len(q[<<r, s>>]) \in Nat
    BY <2>1, Elements
  <2>3. IsFiniteSet(DOMAIN q[<<r, s>>])
    BY <2>2, Interval
  <2> QED BY <2>3, FS_Singleton, FS_Product
<1>5. IsFiniteSet(UNION F)
  <2>1. \A T \in F : IsFiniteSet(T)
    BY <1>4
  <2> HIDE DEF F
  <2> QED BY <1>3, <2>1, FS_UNION
<1>6. IsFiniteSet(Places(q, r))
  BY <1>5 DEF Places
<1>7. \A p : Waiting(q, r, p) \subseteq Places(q, r)
  BY DEF Waiting
<1>8. ASSUME NEW p PROVE IsFiniteSet(Waiting(q, r, p))
  BY <1>6, <1>7, FS_Subset
<1> QED BY <1>6, <1>8, FS_CardinalityType

LEMMA PlaceIs ==
  ASSUME NEW q, NEW r, NEW x
  PROVE  x \in Places(q, r) <=> \E s \in Peers(r) : x \in {s} \X DOMAIN q[<<r, s>>]
BY DEF Places

LEMMA PlacePair ==
  ASSUME NEW q, NEW r
  PROVE  /\ \A s, k : <<s, k>> \in Places(q, r) <=> s \in Peers(r) /\ k \in DOMAIN q[<<r, s>>]
         /\ \A x \in Places(q, r) :
              /\ x = <<x[1], x[2]>>
              /\ x[1] \in Peers(r) /\ x[2] \in DOMAIN q[<<r, x[1]>>]
<1>1. ASSUME NEW s, NEW k
      PROVE  <<s, k>> \in Places(q, r) <=> s \in Peers(r) /\ k \in DOMAIN q[<<r, s>>]
  <2>1. \A t : <<s, k>> \in {t} \X DOMAIN q[<<r, t>>] <=> s = t /\ k \in DOMAIN q[<<r, t>>]
    OBVIOUS
  <2>2. <<s, k>> \in Places(q, r) <=> \E t \in Peers(r) : <<s, k>> \in {t} \X DOMAIN q[<<r, t>>]
    BY PlaceIs
  <2> HIDE DEF Places
  <2> QED BY ONLY <2>1, <2>2
<1>2. ASSUME NEW x \in Places(q, r)
      PROVE  /\ x = <<x[1], x[2]>>
             /\ x[1] \in Peers(r) /\ x[2] \in DOMAIN q[<<r, x[1]>>]
  <2>1. PICK s \in Peers(r) : x \in {s} \X DOMAIN q[<<r, s>>]
    BY PlaceIs
  <2>2. x = <<x[1], x[2]>> /\ x[1] = s /\ x[2] \in DOMAIN q[<<r, s>>]
    BY <2>1
  <2> QED BY <2>2
<1> QED BY <1>1, <1>2

\* What the other routers' queues hold does not matter to a router.
LEMMA OtherQueues ==
  ASSUME FloodingAssumption, NEW q, NEW q2, NEW r \in Routers,
         \A s \in Peers(r) : q2[<<r, s>>] = q[<<r, s>>]
  PROVE  Places(q2, r) = Places(q, r) /\ \A p : Waiting(q2, r, p) = Waiting(q, r, p)
<1>1. Places(q2, r) = Places(q, r)
  BY DEF Places
<1>2. \A x \in Places(q, r) : x[1] \in Peers(r)
  BY PlacePair
<1> QED BY <1>1, <1>2 DEF Waiting

\* p is appended to the queues to the routers of S.
Appended(q2, q, r, S, p) ==
  q2 = [i \in Intfs |-> IF i[1] = r /\ i[2] \in S THEN Append(q[i], p) ELSE q[i]]

LEMMA AppendedWaiting ==
  ASSUME FloodingAssumption, NEW q, Queues(q), NEW r \in Routers, NEW S \in SUBSET Peers(r),
         NEW p \in Addr, NEW q2, Appended(q2, q, r, S, p)
  PROVE  /\ Queues(q2)
         /\ Cardinality(Places(q2, r)) = Cardinality(Places(q, r)) + Cardinality(S)
         /\ Cardinality(Waiting(q2, r, p)) = Cardinality(Waiting(q, r, p)) + Cardinality(S)
         /\ \A a : a # p => Waiting(q2, r, a) = Waiting(q, r, a)
<1> USE DEF Appended
<1>1. ASSUME NEW s \in Peers(r)
      PROVE  /\ <<r, s>> \in Intfs /\ q[<<r, s>>] \in Seq(Addr) /\ Len(q[<<r, s>>]) \in Nat
             /\ DOMAIN q[<<r, s>>] = 1..Len(q[<<r, s>>])
  <2>1. <<r, s>> \in Intfs /\ q[<<r, s>>] \in Seq(Addr)
    BY IntfPair DEF Queues
  <2> QED BY <2>1, Elements
<1>2. ASSUME NEW s \in S
      PROVE  /\ q2[<<r, s>>] = Append(q[<<r, s>>], p)
             /\ DOMAIN q2[<<r, s>>] = 1..(Len(q[<<r, s>>]) + 1)
             /\ q2[<<r, s>>][Len(q[<<r, s>>]) + 1] = p
             /\ \A k \in 1..Len(q[<<r, s>>]) : q2[<<r, s>>][k] = q[<<r, s>>][k]
  <2>1. q2[<<r, s>>] = Append(q[<<r, s>>], p)
    BY <1>1
  <2>2. Append(q[<<r, s>>], p) \in Seq(Addr) /\ Len(Append(q[<<r, s>>], p)) = Len(q[<<r, s>>]) + 1
    BY <1>1, AppendProperties
  <2>3. DOMAIN Append(q[<<r, s>>], p) = 1..(Len(q[<<r, s>>]) + 1)
    BY <2>2, Elements
  <2>4. /\ Append(q[<<r, s>>], p)[Len(q[<<r, s>>]) + 1] = p
        /\ \A k \in 1..Len(q[<<r, s>>]) : Append(q[<<r, s>>], p)[k] = q[<<r, s>>][k]
    BY <1>1, AppendProperties
  <2> QED BY <2>1, <2>3, <2>4
<1>3. ASSUME NEW s \in Peers(r), s \notin S PROVE q2[<<r, s>>] = q[<<r, s>>]
  BY <1>1, <1>3
<1>4. Queues(q2)
  <2>1. ASSUME NEW i \in Intfs
        PROVE  (IF i[1] = r /\ i[2] \in S THEN Append(q[i], p) ELSE q[i]) \in Seq(Addr)
    BY AppendProperties DEF Queues
  <2> QED BY <2>1 DEF Queues
<1> DEFINE New2 == {<<s, Len(q[<<r, s>>]) + 1>> : s \in S}
<1>5. Cardinality(New2) = Cardinality(S) /\ IsFiniteSet(New2)
  <2> DEFINE f == [s \in S |-> <<s, Len(q[<<r, s>>]) + 1>>]
  <2>1. f \in Bijection(S, New2)
    BY DEF Bijection, Injection, Surjection, IsInjective
  <2>2. ExistsBijection(S, New2)
    <3> HIDE DEF f, New2
    <3> QED BY <2>1 DEF ExistsBijection
  <2>3. IsFiniteSet(S)
    BY PeersFinite
  <2> HIDE DEF New2
  <2> QED BY <2>2, <2>3, FS_Bijection
<1>8. Places(q2, r) = Places(q, r) \cup New2
  <2>1. ASSUME NEW x \in Places(q2, r) PROVE x \in Places(q, r) \cup New2
    <3>0. /\ x = <<x[1], x[2]>>
          /\ x[1] \in Peers(r) /\ x[2] \in DOMAIN q2[<<r, x[1]>>]
      BY PlacePair
    <3>1. PICK s, k : x = <<s, k>> /\ s \in Peers(r) /\ k \in DOMAIN q2[<<r, s>>]
      BY <3>0
    <3>2. CASE s \in S
      <4>1. k \in DOMAIN q[<<r, s>>] \/ k = Len(q[<<r, s>>]) + 1
        BY <1>1, <1>2, <3>1, <3>2
      <4>2. k \in DOMAIN q[<<r, s>>] => <<s, k>> \in Places(q, r)
        BY <3>1, PlacePair
      <4> QED BY <3>1, <3>2, <4>1, <4>2
    <3>3. CASE s \notin S
      <4>1. <<s, k>> \in Places(q, r)
        BY <1>3, <3>1, <3>3, PlacePair
      <4> QED BY <3>1, <4>1
    <3> QED BY <3>2, <3>3
  <2>2. ASSUME NEW x \in Places(q, r) PROVE x \in Places(q2, r)
    <3>0. /\ x = <<x[1], x[2]>>
          /\ x[1] \in Peers(r) /\ x[2] \in DOMAIN q[<<r, x[1]>>]
      BY PlacePair
    <3>1. PICK s, k : x = <<s, k>> /\ s \in Peers(r) /\ k \in DOMAIN q[<<r, s>>]
      BY <3>0
    <3>2. k \in DOMAIN q2[<<r, s>>]
      BY <1>1, <1>2, <1>3, <3>1
    <3> QED BY <3>1, <3>2, PlacePair
  <2>3. ASSUME NEW s \in S PROVE <<s, Len(q[<<r, s>>]) + 1>> \in Places(q2, r)
    <3>1. Len(q[<<r, s>>]) + 1 \in DOMAIN q2[<<r, s>>]
      BY <1>1, <1>2
    <3> QED BY <3>1, PlacePair
  <2>4. New2 \subseteq Places(q2, r)
    BY <2>3
  <2> HIDE DEF New2
  <2> QED BY <2>1, <2>2, <2>4
<1>9. \A x \in New2 : x \notin Places(q, r) /\ q2[<<r, x[1]>>][x[2]] = p
  <2>0. SUFFICES ASSUME NEW x \in New2
                 PROVE  x \notin Places(q, r) /\ q2[<<r, x[1]>>][x[2]] = p
    OBVIOUS
  <2>1. PICK s \in S : x = <<s, Len(q[<<r, s>>]) + 1>>
    OBVIOUS
  <2>2. Len(q[<<r, s>>]) + 1 \notin DOMAIN q[<<r, s>>]
    BY <1>1
  <2>3. x[1] = s /\ x[2] = Len(q[<<r, s>>]) + 1
    BY <2>1
  <2>4. x \notin Places(q, r)
    BY <2>1, <2>2, PlacePair
  <2> QED BY <1>2, <2>3, <2>4
<1>10. \A x \in Places(q, r) : q2[<<r, x[1]>>][x[2]] = q[<<r, x[1]>>][x[2]]
  <2> SUFFICES ASSUME NEW x \in Places(q, r)
               PROVE  q2[<<r, x[1]>>][x[2]] = q[<<r, x[1]>>][x[2]]
    OBVIOUS
  <2>1. PICK s, k : x[1] = s /\ x[2] = k /\ s \in Peers(r) /\ k \in DOMAIN q[<<r, s>>]
    BY PlacePair
  <2>2. q2[<<r, s>>][k] = q[<<r, s>>][k]
    BY <1>1, <1>2, <1>3, <2>1
  <2> QED BY <2>1, <2>2
<1>11. Waiting(q2, r, p) = Waiting(q, r, p) \cup New2
  <2> HIDE DEF New2
  <2> QED BY <1>8, <1>9, <1>10 DEF Waiting
<1>12. \A a : a # p => Waiting(q2, r, a) = Waiting(q, r, a)
  <2> HIDE DEF New2
  <2> QED BY <1>8, <1>9, <1>10 DEF Waiting
<1>13. /\ IsFiniteSet(Places(q, r)) /\ Cardinality(Places(q, r)) \in Nat
       /\ IsFiniteSet(Waiting(q, r, p)) /\ Cardinality(Waiting(q, r, p)) \in Nat
  BY PlacesFinite
<1>14. Places(q, r) \cap New2 = {} /\ Waiting(q, r, p) \cap New2 = {}
  <2> HIDE DEF New2
  <2> QED BY <1>9 DEF Waiting
<1>15. Cardinality(S) \in Nat
  BY PeersFinite
<1>16. Cardinality(Places(q, r) \cup New2) = Cardinality(Places(q, r)) + Cardinality(S)
  <2> HIDE DEF New2
  <2>1. Cardinality(Places(q, r) \cup New2)
          = Cardinality(Places(q, r)) + Cardinality(New2) - Cardinality(Places(q, r) \cap New2)
    BY <1>5, <1>13, FS_Union
  <2>2. Cardinality(Places(q, r) \cap New2) = 0
    BY <1>14, FS_EmptySet
  <2> QED BY <1>5, <1>13, <1>15, <2>1, <2>2
<1>17. Cardinality(Waiting(q, r, p) \cup New2) = Cardinality(Waiting(q, r, p)) + Cardinality(S)
  <2> HIDE DEF New2
  <2>1. Cardinality(Waiting(q, r, p) \cup New2)
          = Cardinality(Waiting(q, r, p)) + Cardinality(New2) - Cardinality(Waiting(q, r, p) \cap New2)
    BY <1>5, <1>13, FS_Union
  <2>2. Cardinality(Waiting(q, r, p) \cap New2) = 0
    BY <1>14, FS_EmptySet
  <2> QED BY <1>5, <1>13, <1>15, <2>1, <2>2
<1> QED BY <1>4, <1>8, <1>11, <1>12, <1>16, <1>17

LEMMA Tagged ==
  ASSUME NEW D, IsFiniteSet(D), NEW s
  PROVE  IsFiniteSet({s} \X D) /\ Cardinality({s} \X D) = Cardinality(D)
<1> DEFINE G == {<<s, k>> : k \in D}
           f == [k \in D |-> <<s, k>>]
<1>0. {s} \X D = G
  OBVIOUS
<1>1. f \in Bijection(D, G)
  BY DEF Bijection, Injection, Surjection, IsInjective
<1>2. ExistsBijection(D, G)
  <2> HIDE DEF f, G
  <2> QED BY <1>1 DEF ExistsBijection
<1> HIDE DEF G
<1>3. IsFiniteSet(G) /\ Cardinality(G) = Cardinality(D)
  BY <1>2, FS_Bijection
<1> QED BY <1>0, <1>3

\* The queue to s is emptied: its places are given up.
Drained(q2, q, r, s) == q2 = [q EXCEPT ![<<r, s>>] = << >>]
PlacesOf(u, a) == {k \in DOMAIN u : u[k] = a}

LEMMA DrainedWaiting ==
  ASSUME FloodingAssumption, NEW q, Queues(q), NEW r \in Routers, NEW s \in Peers(r), NEW q2,
         Drained(q2, q, r, s)
  PROVE  /\ Queues(q2)
         /\ Len(q[<<r, s>>]) \in Nat
         /\ Cardinality(Places(q2, r)) + Len(q[<<r, s>>]) = Cardinality(Places(q, r))
         /\ \A a : /\ Cardinality(PlacesOf(q[<<r, s>>], a)) \in Nat
                   /\ Cardinality(Waiting(q2, r, a)) + Cardinality(PlacesOf(q[<<r, s>>], a))
                        = Cardinality(Waiting(q, r, a))
<1> DEFINE u == q[<<r, s>>]
           Gone == {s} \X DOMAIN u
           GoneOf(a) == {x \in Gone : u[x[2]] = a}
<1> USE DEF Drained
<1>1. <<r, s>> \in Intfs /\ u \in Seq(Addr)
  BY IntfPair DEF Queues
<1>2. DOMAIN u = 1..Len(u) /\ Len(u) \in Nat
  BY <1>1, Elements
<1>3. q2[<<r, s>>] = << >> /\ \A i \in Intfs : i # <<r, s>> => q2[i] = q[i]
  BY <1>1 DEF Queues
<1>4. << >> \in Seq(Addr) /\ DOMAIN << >> = {}
  <2>1. << >> \in Seq(Addr) /\ Len(<< >>) = 0
    BY EmptySeq
  <2>2. DOMAIN << >> = 1..Len(<< >>)
    BY ONLY <2>1, Elements
  <2> QED BY <2>1, <2>2
<1>5. Queues(q2)
  BY <1>1, <1>4 DEF Queues
<1>6. ASSUME NEW t \in Peers(r), t # s PROVE q2[<<r, t>>] = q[<<r, t>>]
  <2>1. <<r, t>> \in Intfs /\ <<r, t>> # <<r, s>>
    BY <1>6, IntfPair
  <2> QED BY <1>3, <2>1
<1>7. \A x : x \in Gone <=> \E k \in DOMAIN u : x = <<s, k>>
  OBVIOUS
<1>8. Places(q, r) = Places(q2, r) \cup Gone
  <2>1. ASSUME NEW x \in Places(q, r) PROVE x \in Places(q2, r) \cup Gone
    <3>1. /\ x = <<x[1], x[2]>>
          /\ x[1] \in Peers(r) /\ x[2] \in DOMAIN q[<<r, x[1]>>]
      BY PlacePair
    <3>2. CASE x[1] = s
      BY <3>1, <3>2
    <3>3. CASE x[1] # s
      <4>1. <<x[1], x[2]>> \in Places(q2, r)
        BY <1>6, <3>1, <3>3, PlacePair
      <4> QED BY <3>1, <4>1
    <3> QED BY <3>2, <3>3
  <2>2. ASSUME NEW x \in Places(q2, r) PROVE x \in Places(q, r)
    <3>1. /\ x = <<x[1], x[2]>>
          /\ x[1] \in Peers(r) /\ x[2] \in DOMAIN q2[<<r, x[1]>>]
      BY PlacePair
    <3>2. x[1] # s
      BY <1>3, <1>4, <3>1
    <3>3. <<x[1], x[2]>> \in Places(q, r)
      BY <1>6, <3>1, <3>2, PlacePair
    <3> QED BY <3>1, <3>3
  <2>3. ASSUME NEW x \in Gone PROVE x \in Places(q, r)
    <3>1. PICK k \in DOMAIN u : x = <<s, k>>
      BY <1>7
    <3> QED BY <3>1, PlacePair
  <2> QED BY <2>1, <2>2, <2>3
<1>9. ASSUME NEW x \in Places(q2, r) PROVE x[1] # s /\ q2[<<r, x[1]>>] = q[<<r, x[1]>>]
  <2>1. x[1] \in Peers(r) /\ x[2] \in DOMAIN q2[<<r, x[1]>>]
    BY PlacePair
  <2>2. x[1] # s
    BY <1>3, <1>4, <2>1
  <2> QED BY <1>6, <2>1, <2>2
<1>10. ASSUME NEW x \in Gone PROVE x[1] = s
  OBVIOUS
<1>11. Places(q2, r) \cap Gone = {}
  BY <1>9, <1>10
<1>12. /\ IsFiniteSet(Places(q2, r)) /\ Cardinality(Places(q2, r)) \in Nat
       /\ \A a : IsFiniteSet(Waiting(q2, r, a)) /\ Cardinality(Waiting(q2, r, a)) \in Nat
  BY <1>5, PlacesFinite
<1>13. IsFiniteSet(DOMAIN u) /\ Cardinality(DOMAIN u) = Len(u)
  BY <1>2, Interval
<1>14. ASSUME NEW a
       PROVE  /\ IsFiniteSet(PlacesOf(u, a)) /\ Cardinality(PlacesOf(u, a)) \in Nat
              /\ IsFiniteSet(GoneOf(a)) /\ Cardinality(GoneOf(a)) = Cardinality(PlacesOf(u, a))
  <2>1. IsFiniteSet(PlacesOf(u, a))
    BY <1>13, FS_Subset DEF PlacesOf
  <2> DEFINE f == [k \in PlacesOf(u, a) |-> <<s, k>>]
  <2>2. f \in Bijection(PlacesOf(u, a), GoneOf(a))
    BY DEF Bijection, Injection, Surjection, IsInjective, PlacesOf
  <2>3. ExistsBijection(PlacesOf(u, a), GoneOf(a))
    <3> HIDE DEF f, GoneOf
    <3> QED BY <2>2 DEF ExistsBijection
  <2> HIDE DEF GoneOf
  <2> QED BY <2>1, <2>3, FS_Bijection, FS_CardinalityType
<1>15. IsFiniteSet(Gone) /\ Cardinality(Gone) = Len(u)
  BY <1>13, Tagged
<1>16. Cardinality(Places(q2, r)) + Len(u) = Cardinality(Places(q, r))
  <2> HIDE DEF Gone, u
  <2>1. Cardinality(Places(q2, r) \cup Gone)
          = Cardinality(Places(q2, r)) + Cardinality(Gone) - Cardinality(Places(q2, r) \cap Gone)
    BY <1>12, <1>15, FS_Union
  <2>2. Cardinality(Places(q2, r) \cap Gone) = 0
    BY <1>11, FS_EmptySet
  <2>3. Cardinality(Places(q, r)) = Cardinality(Places(q2, r) \cup Gone)
    BY <1>8
  <2>4. Cardinality(Places(q2, r)) \in Nat
    BY <1>12
  <2> QED BY ONLY <1>2, <1>15, <2>1, <2>2, <2>3, <2>4
<1>17. ASSUME NEW a
       PROVE  Cardinality(Waiting(q2, r, a)) + Cardinality(PlacesOf(u, a)) = Cardinality(Waiting(q, r, a))
  <2>1. Waiting(q, r, a) = Waiting(q2, r, a) \cup GoneOf(a)
    <3> HIDE DEF u, Gone
    <3>1. \A x \in Gone : q[<<r, x[1]>>] = u
      BY <1>10 DEF u
    <3> QED BY <1>8, <1>9, <3>1 DEF Waiting
  <2>2. Waiting(q2, r, a) \cap GoneOf(a) = {}
    <3> HIDE DEF u, Gone
    <3> QED BY <1>11 DEF Waiting
  <2> HIDE DEF GoneOf
  <2>3. Cardinality(Waiting(q2, r, a) \cup GoneOf(a))
          = Cardinality(Waiting(q2, r, a)) + Cardinality(GoneOf(a))
              - Cardinality(Waiting(q2, r, a) \cap GoneOf(a))
    BY <1>12, <1>14, FS_Union
  <2>4. Cardinality(Waiting(q2, r, a) \cap GoneOf(a)) = 0
    BY <2>2, FS_EmptySet
  <2>5. Cardinality(Waiting(q, r, a)) = Cardinality(Waiting(q2, r, a) \cup GoneOf(a))
    BY <2>1
  <2>6. Cardinality(Waiting(q2, r, a)) \in Nat
    BY <1>12
  <2>7. Cardinality(PlacesOf(u, a)) \in Nat /\ Cardinality(GoneOf(a)) = Cardinality(PlacesOf(u, a))
    BY <1>14
  <2> QED BY ONLY <2>3, <2>4, <2>5, <2>6, <2>7
<1> QED BY <1>2, <1>5, <1>14, <1>16, <1>17

\* The queues of a router that shuts down are empty.
LEMMA EmptiedWaiting ==
  ASSUME FloodingAssumption, NEW q, Queues(q), NEW r \in Routers, NEW q2,
         q2 = [i \in Intfs |-> IF i[1] = r THEN << >> ELSE q[i]]
  PROVE  /\ Queues(q2) /\ Cardinality(Places(q2, r)) = 0
         /\ \A a : Cardinality(Waiting(q2, r, a)) = 0
<1>1. << >> \in Seq(Addr) /\ DOMAIN << >> = {}
  <2>1. << >> \in Seq(Addr) /\ Len(<< >>) = 0
    BY EmptySeq
  <2>2. DOMAIN << >> = 1..Len(<< >>)
    BY ONLY <2>1, Elements
  <2> QED BY <2>1, <2>2
<1>2. Queues(q2)
  BY <1>1 DEF Queues
<1>3. \A s \in Peers(r) : q2[<<r, s>>] = << >>
  BY IntfPair
<1>4. Places(q2, r) = {}
  <2> SUFFICES ASSUME NEW x \in Places(q2, r) PROVE FALSE
    OBVIOUS
  <2>1. x[1] \in Peers(r) /\ x[2] \in DOMAIN q2[<<r, x[1]>>]
    BY PlacePair
  <2> QED BY <1>1, <1>3, <2>1
<1>5. \A a : Waiting(q2, r, a) = {}
  BY <1>4 DEF Waiting
<1> QED BY <1>2, <1>4, <1>5, FS_EmptySet

------------------------------------------------------------------------------
(* Lists *)

\* kept, for the first n elements.
Kept(s, J, n, f) ==
  f = [k \in 0..n |-> IF k = 0 THEN << >>
                      ELSE IF s[k] \in J THEN f[k - 1] ELSE Append(f[k - 1], s[k])]

\* What the first k elements of s leave.
Left(s, J, k, f) ==
  /\ f[k] \in Seq(ToSet(s))
  /\ \A x : x \in ToSet(f[k]) <=> x \notin J /\ \E i \in 1..k : s[i] = x

LEMMA KeptExists ==
  ASSUME NEW S, NEW s \in Seq(S), NEW J
  PROVE  \A n \in 0..Len(s) : \E f : Kept(s, J, n, f)
<1> DEFINE T == {n \in 0..Len(s) : ~ \E f : Kept(s, J, n, f)}
<1>1. Len(s) \in Nat
  BY Elements
<1>2. SUFFICES ASSUME T # {} PROVE FALSE
  OBVIOUS
<1>2a. T \in SUBSET Nat
  BY <1>1
<1>3. PICK n \in T : \A m \in T : ~(m < n)
  <2> HIDE DEF T
  <2> QED BY <1>2, <1>2a, Least
<1>4. n \in 0..Len(s) /\ ~ \E f : Kept(s, J, n, f)
  BY <1>3
<1>5. CASE n = 0
  <2> DEFINE f == [k \in 0..0 |-> << >>]
  <2>1. Kept(s, J, 0, f)
    BY DEF Kept
  <2> QED BY <1>4, <1>5, <2>1
<1>6. CASE n # 0
  <2>1. n - 1 \in 0..Len(s) /\ n - 1 < n
    BY <1>1, <1>4, <1>6
  <2>2. PICK f : Kept(s, J, n - 1, f)
    BY <1>3, <2>1
  <2> DEFINE g == [k \in 0..n |-> IF k = 0 THEN << >>
                                  ELSE IF s[k] \in J THEN f[k - 1] ELSE Append(f[k - 1], s[k])]
  <2>3. \A k \in 0..(n - 1) : g[k] = f[k]
    <3>1. f = [k \in 0..(n - 1) |-> IF k = 0 THEN << >>
                  ELSE IF s[k] \in J THEN f[k - 1] ELSE Append(f[k - 1], s[k])]
      BY <2>2 DEF Kept
    <3>2. n \in Nat
      BY <1>1, <1>4
    <3>3. \A k \in 0..(n - 1) : k \in 0..n
      BY <3>2
    <3>4. TAKE k \in 0..(n - 1)
    <3>5. f[k] = IF k = 0 THEN << >>
                  ELSE IF s[k] \in J THEN f[k - 1] ELSE Append(f[k - 1], s[k])
      BY ONLY <3>1
    <3> QED BY <3>3, <3>5
  <2>4. \A k \in 1..n : g[k - 1] = f[k - 1]
    <3> HIDE DEF g
    <3>1. n \in Nat
      BY <1>1, <1>4
    <3>2. \A k \in 1..n : k - 1 \in 0..(n - 1)
      BY <3>1
    <3> QED BY <2>3, <3>2
  <2>5. Kept(s, J, n, g)
    <3> HIDE DEF g
    <3>1. g = [k \in 0..n |-> IF k = 0 THEN << >>
                  ELSE IF s[k] \in J THEN f[k - 1] ELSE Append(f[k - 1], s[k])]
      BY DEF g
    <3>2. \A k \in 0..n : k # 0 => k \in 1..n
      BY <1>1, <1>4
    <3> QED BY <2>4, <3>1, <3>2 DEF Kept
  <2> QED BY <1>4, <2>5
<1> QED BY <1>5, <1>6

LEMMA WithoutUnfolds ==
  ASSUME NEW S, NEW s \in Seq(S), NEW J
  PROVE  \E f : Kept(s, J, Len(s), f) /\ Without(s, J) = f[Len(s)]
<1>1. \E f : Kept(s, J, Len(s), f)
  <2>1. Len(s) \in 0..Len(s)
    BY Elements
  <2> QED BY <2>1, KeptExists
<1>2. Kept(s, J, Len(s), CHOOSE f : Kept(s, J, Len(s), f))
  BY <1>1
<1> QED BY <1>2 DEF Without, Kept

\* Leaving out J keeps every other element.
LEMMA WithoutElements ==
  ASSUME NEW S, NEW s \in Seq(S), NEW J
  PROVE  /\ Without(s, J) \in Seq(S)
         /\ \A x : x \in ToSet(Without(s, J)) <=> x \in ToSet(s) /\ x \notin J
<1>0. Len(s) \in Nat /\ \A k \in 1..Len(s) : s[k] \in ToSet(s)
  BY Elements
<1>1. PICK f : Kept(s, J, Len(s), f) /\ Without(s, J) = f[Len(s)]
  BY WithoutUnfolds
<1>2. \A k \in 0..Len(s) :
        f[k] = IF k = 0 THEN << >>
               ELSE IF s[k] \in J THEN f[k - 1] ELSE Append(f[k - 1], s[k])
  BY <1>1 DEF Kept
<1> DEFINE T == {k \in 0..Len(s) : ~Left(s, J, k, f)}
<1>3. T = {}
  <2> SUFFICES ASSUME T # {} PROVE FALSE
    OBVIOUS
  <2>0. T \in SUBSET Nat
    BY <1>0
  <2>1. PICK n \in T : \A m \in T : ~(m < n)
    <3> HIDE DEF T
    <3> QED BY <2>0, Least
  <2>2. n \in Nat /\ n \in 0..Len(s) /\ ~Left(s, J, n, f)
    BY <2>0
  <2>2a. \A m \in 0..(n - 1) : m \in 0..Len(s) /\ m < n
    BY <1>0, <2>2
  <2>2b. \A m \in 0..(n - 1) : Left(s, J, m, f)
    BY <2>1, <2>2a
  <2>3. n # 0
    <3>1. ASSUME n = 0 PROVE Left(s, J, n, f)
      <4>1. f[n] = << >>
        BY <1>2, <2>2, <3>1
      <4>2. f[n] \in Seq(ToSet(s))
        BY <4>1, EmptySeq
      <4>2a. ToSet(f[n]) = {}
        BY <4>1, <4>2, Elements
      <4> QED BY <3>1, <4>2, <4>2a DEF Left
    <3> QED BY <2>2, <3>1
  <2>4. n - 1 \in 0..(n - 1) /\ n \in 1..Len(s)
    BY <2>2, <2>3, <1>0
  <2>5. Left(s, J, n - 1, f)
    BY <2>2b, <2>4
  <2>6. \A x : (\E i \in 1..n : s[i] = x) <=> x = s[n] \/ \E i \in 1..(n - 1) : s[i] = x
    BY <2>2, <2>4, <1>0
  <2>7. CASE s[n] \in J
    <3>1. f[n] = f[n - 1]
      BY <1>2, <2>2, <2>3, <2>7
    <3> QED BY <2>2, <2>5, <2>6, <2>7, <3>1 DEF Left
  <2>8. CASE s[n] \notin J
    <3>1. f[n] = Append(f[n - 1], s[n]) /\ s[n] \in ToSet(s)
      BY <1>0, <1>2, <2>2, <2>3, <2>4, <2>8
    <3>2. f[n - 1] \in Seq(ToSet(s))
      BY <2>5 DEF Left
    <3>3. f[n] \in Seq(ToSet(s)) /\ ToSet(f[n]) = ToSet(f[n - 1]) \cup {s[n]}
      BY <3>1, <3>2, AppendElements
    <3>4. \A x : x \in ToSet(f[n]) <=> x \in ToSet(f[n - 1]) \/ x = s[n]
      BY <3>3
    <3> QED BY <2>2, <2>5, <2>6, <2>8, <3>3, <3>4 DEF Left
  <2> QED BY <2>7, <2>8
<1>4. Left(s, J, Len(s), f)
  <2>1. Len(s) \in 0..Len(s)
    BY <1>0
  <2> QED BY <1>3, <2>1
<1>5. /\ \A x : x \in ToSet(s) <=> \E i \in 1..Len(s) : s[i] = x
      /\ ToSet(s) \subseteq S
  BY Elements
<1>6. Without(s, J) \in Seq(ToSet(s))
  BY <1>1, <1>4 DEF Left
<1>7. Without(s, J) \in Seq(S)
  BY <1>5, <1>6, SeqDef
<1> QED BY <1>1, <1>4, <1>5, <1>7 DEF Left

LEMMA CatElements ==
  ASSUME NEW S, NEW s \in Seq(S), NEW t \in Seq(S)
  PROVE  s \o t \in Seq(S) /\ ToSet(s \o t) = ToSet(s) \cup ToSet(t)
<1> DEFINE u == s \o t
<1>1. /\ u \in Seq(S) /\ Len(u) = Len(s) + Len(t)
      /\ \A k \in 1..Len(u) : u[k] = IF k <= Len(s) THEN s[k] ELSE t[k - Len(s)]
  BY ConcatProperties
<1>2. /\ Len(s) \in Nat /\ Len(t) \in Nat
      /\ \A x : x \in ToSet(s) <=> \E i \in 1..Len(s) : s[i] = x
      /\ \A x : x \in ToSet(t) <=> \E i \in 1..Len(t) : t[i] = x
  BY Elements
<1> HIDE DEF u
<1>3. \A x : x \in ToSet(u) <=> \E i \in 1..Len(u) : u[i] = x
  BY <1>1, Elements
<1>4. ASSUME NEW i \in 1..Len(s) PROVE i \in 1..Len(u) /\ u[i] = s[i]
  BY <1>1, <1>2
<1>5. ASSUME NEW i \in 1..Len(t) PROVE i + Len(s) \in 1..Len(u) /\ u[i + Len(s)] = t[i]
  <2>1. PICK k : k = i + Len(s)
    OBVIOUS
  <2>2. k \in 1..Len(u) /\ ~(k <= Len(s)) /\ k - Len(s) = i
    BY <1>1, <1>2, <2>1
  <2>3. u[k] = t[k - Len(s)]
    BY <1>1, <2>2
  <2> QED BY <2>1, <2>2, <2>3
<1>6. ASSUME NEW i \in 1..Len(u)
      PROVE  (i \in 1..Len(s) /\ u[i] = s[i]) \/ (i - Len(s) \in 1..Len(t) /\ u[i] = t[i - Len(s)])
  BY <1>1, <1>2
<1>7. \A x : x \in ToSet(u) <=> x \in ToSet(s) \/ x \in ToSet(t)
  BY <1>2, <1>3, <1>4, <1>5, <1>6, ZenonT(40)
<1> QED BY <1>1, <1>7 DEF u

\* x is an element of s at most once.
Once(s, x) == \A i, k \in 1..Len(s) : s[i] = x /\ s[k] = x => i = k

LEMMA OnceAppend ==
  ASSUME NEW S, NEW s \in Seq(S), NEW e \in S, NEW x, Once(s, x), e # x \/ x \notin ToSet(s)
  PROVE  Once(Append(s, e), x)
<1> DEFINE u == Append(s, e)
<1>1. /\ Len(s) \in Nat /\ Len(u) = Len(s) + 1 /\ u[Len(s) + 1] = e
      /\ \A k \in 1..Len(s) : u[k] = s[k] /\ s[k] \in ToSet(s)
  BY AppendProperties, Elements
<1> HIDE DEF u
<1>2. \A k \in 1..Len(u) : k \in 1..Len(s) \/ k = Len(s) + 1
  BY <1>1
<1>3. Once(u, x)
  BY <1>1, <1>2 DEF Once
<1> QED BY <1>3 DEF u

LEMMA OnceTail ==
  ASSUME NEW S, NEW s \in Seq(S), s # << >>, NEW x, Once(s, x)
  PROVE  Once(Tail(s), x) /\ (x = Head(s) => x \notin ToSet(Tail(s)))
<1> DEFINE u == Tail(s)
<1>1. /\ Len(s) \in Nat \ {0} /\ u \in Seq(S) /\ Len(u) = Len(s) - 1 /\ Head(s) = s[1]
      /\ \A k \in 1..Len(u) : u[k] = s[k + 1]
  BY HeadTailProperties, Elements
<1> HIDE DEF u
<1>2. \A k \in 1..Len(u) : k + 1 \in 1..Len(s) /\ k + 1 # 1
  BY <1>1
<1>3. 1 \in 1..Len(s)
  BY <1>1
<1>4. Once(u, x)
  <2> SUFFICES ASSUME NEW i \in 1..Len(u), NEW k \in 1..Len(u), u[i] = x, u[k] = x PROVE i = k
    BY DEF Once
  <2>1. i + 1 = k + 1
    BY <1>1, <1>2 DEF Once
  <2> QED BY <1>1, <2>1
<1>5. ASSUME x = s[1], x \in ToSet(u) PROVE FALSE
  <2>1. PICK k \in 1..Len(u) : u[k] = x
    BY <1>1, <1>5, Elements
  <2> QED BY <1>1, <1>2, <1>3, <1>5, <2>1 DEF Once
<1> QED BY <1>1, <1>4, <1>5 DEF u

LEMMA OnceCat ==
  ASSUME NEW S, NEW s \in Seq(S), NEW t \in Seq(S), NEW x, Once(s, x), x \notin ToSet(t)
  PROVE  Once(s \o t, x)
<1> DEFINE u == s \o t
<1>1. /\ u \in Seq(S) /\ Len(u) = Len(s) + Len(t)
      /\ \A k \in 1..Len(u) : u[k] = IF k <= Len(s) THEN s[k] ELSE t[k - Len(s)]
  BY ConcatProperties
<1>2. /\ Len(s) \in Nat /\ Len(t) \in Nat
      /\ \A i \in 1..Len(t) : t[i] \in ToSet(t)
  BY Elements
<1> HIDE DEF u
<1>3. ASSUME NEW k \in 1..Len(u), u[k] = x PROVE k \in 1..Len(s) /\ s[k] = x
  <2>1. CASE k <= Len(s)
    BY <1>1, <1>2, <1>3, <2>1
  <2>2. CASE ~(k <= Len(s))
    <3>1. PICK i : i = k - Len(s)
      OBVIOUS
    <3>2. i \in 1..Len(t) /\ u[k] = t[i]
      BY <1>1, <1>2, <2>2, <3>1
    <3> QED BY <1>2, <1>3, <3>2
  <2> QED BY <2>1, <2>2
<1>4. Once(u, x)
  BY <1>3 DEF Once
<1> QED BY <1>4 DEF u

LEMMA OnceWithout ==
  ASSUME NEW S, NEW s \in Seq(S), NEW J, NEW x, Once(s, x)
  PROVE  Once(Without(s, J), x)
<1>0. Len(s) \in Nat /\ \A k \in 1..Len(s) : s[k] \in S
  BY Elements
<1>1. PICK f : Kept(s, J, Len(s), f) /\ Without(s, J) = f[Len(s)]
  BY WithoutUnfolds
<1>2. \A k \in 0..Len(s) :
        f[k] = IF k = 0 THEN << >>
               ELSE IF s[k] \in J THEN f[k - 1] ELSE Append(f[k - 1], s[k])
  BY <1>1 DEF Kept
<1> DEFINE P(k) == /\ f[k] \in Seq(S) /\ Once(f[k], x)
                   /\ x \in ToSet(f[k]) => \E i \in 1..k : s[i] = x
           T == {k \in 0..Len(s) : ~P(k)}
<1>3. T = {}
  <2> SUFFICES ASSUME T # {} PROVE FALSE
    OBVIOUS
  <2>0. T \in SUBSET Nat
    BY <1>0
  <2>1. PICK n \in T : \A m \in T : ~(m < n)
    <3> HIDE DEF T
    <3> QED BY <2>0, Least
  <2>2. n \in Nat /\ n \in 0..Len(s) /\ ~P(n)
    BY <2>0
  <2>3. n # 0
    <3>1. ASSUME n = 0 PROVE P(n)
      <4>1. f[n] = << >>
        BY <1>2, <2>2, <3>1
      <4>2. f[n] \in Seq(S) /\ Len(f[n]) = 0
        BY <4>1, EmptySeq
      <4>3. ToSet(f[n]) = {}
        BY <4>2, Elements
      <4>4. Once(f[n], x)
        BY <4>2 DEF Once
      <4> QED BY <4>2, <4>3, <4>4
    <3> QED BY <2>2, <3>1
  <2>4. n - 1 \in 0..Len(s) /\ n - 1 < n /\ n \in 1..Len(s)
    BY <1>0, <2>2, <2>3
  <2>5. P(n - 1)
    <3> HIDE DEF P
    <3> QED BY <2>1, <2>4
  <2>6. \A i \in 1..(n - 1) : i \in 1..n /\ i \in 1..Len(s) /\ i # n
    BY <1>0, <2>2, <2>4
  <2>7. CASE s[n] \in J
    <3>1. f[n] = f[n - 1]
      BY <1>2, <2>2, <2>3, <2>7
    <3>2. P(n)
      BY <2>5, <2>6, <3>1
    <3> QED BY <2>2, <3>2
  <2>8. CASE s[n] \notin J
    <3>1. f[n] = Append(f[n - 1], s[n]) /\ s[n] \in S
      BY <1>0, <1>2, <2>2, <2>3, <2>4, <2>8
    <3>2. f[n] \in Seq(S) /\ ToSet(f[n]) = ToSet(f[n - 1]) \cup {s[n]}
      BY <2>5, <3>1, AppendElements
    <3>3. s[n] # x \/ x \notin ToSet(f[n - 1])
      <4>1. ASSUME NEW i \in 1..(n - 1), s[i] = x, s[n] = x PROVE FALSE
        BY <2>4, <2>6, <4>1 DEF Once
      <4> QED BY <2>5, <4>1
    <3>4. Once(f[n], x)
      BY <2>5, <3>1, <3>3, OnceAppend
    <3>5. x \in ToSet(f[n]) => \E i \in 1..n : s[i] = x
      <4>1. n \in 1..n
        BY <2>4
      <4> QED BY <2>5, <2>6, <3>2, <4>1
    <3>6. P(n)
      BY <3>2, <3>4, <3>5
    <3> QED BY <2>2, <3>6
  <2> QED BY <2>7, <2>8
<1>4. P(Len(s))
  <2>1. Len(s) \in 0..Len(s)
    BY <1>0
  <2> HIDE DEF P
  <2> QED BY <1>3, <2>1
<1> QED BY <1>1, <1>4

LEMMA SetToSeqType ==
  ASSUME NEW S, IsFiniteSet(S)
  PROVE  SetToSeq(S) \in Seq(S)
<1>1. Cardinality(S) \in Nat /\ ExistsBijection(1..Cardinality(S), S)
  BY FS_CardinalityType
<1>2. \E f \in [1..Cardinality(S) -> S] : IsInjective(f)
  BY <1>1 DEF ExistsBijection, Bijection, Injection, IsInjective
<1>3. SetToSeq(S) \in [1..Cardinality(S) -> S]
  BY <1>2 DEF SetToSeq
<1> QED BY <1>1, <1>3, SeqDef

\* The jobs of the dispatcher.
Tasks == {"isis_generate_lsp_pkt", "isis_run_spf", "isis_lsp_xmit_job", "pkt_recvr_job_cbk"}
         \X (Routers \cup {NULL}) \X (Routers \cup {NULL})

LEMMA TaskTypes ==
  /\ \A r \in Routers : Gen(r) \in Tasks /\ Spf(r) \in Tasks
  /\ \A r, s \in Routers : Xmit(r, s) \in Tasks
  /\ Pkts \in Tasks
BY DEF Gen, Spf, Xmit, Pkts, Tasks

LEMMA TasksDiffer ==
  /\ \A r, s : r # s => Gen(r) # Gen(s) /\ Spf(r) # Spf(s)
  /\ \A r, s, t : /\ Gen(r) # Spf(s) /\ Gen(r) # Xmit(s, t) /\ Spf(r) # Xmit(s, t)
                  /\ Gen(r) # Pkts /\ Spf(r) # Pkts /\ Xmit(s, t) # Pkts
BY DEF Gen, Spf, Xmit, Pkts

LEMMA ListedIs ==
  ASSUME NEW js \in Seq(Tasks), NEW j
  PROVE  Listed(js, j) <=> j \in ToSet(js)
BY Elements DEF Listed

LEMMA PostElements ==
  ASSUME NEW js \in Seq(Tasks), NEW j \in Tasks
  PROVE  /\ Post(js, j) \in Seq(Tasks) /\ ToSet(Post(js, j)) = ToSet(js) \cup {j}
         /\ \A x : Once(js, x) => Once(Post(js, j), x)
<1>1. CASE Listed(js, j)
  BY <1>1, ListedIs DEF Post
<1>2. CASE ~Listed(js, j)
  <2>1. j \notin ToSet(js)
    BY <1>2, ListedIs
  <2>2. \A x : Once(js, x) => Once(Append(js, j), x)
    BY <2>1, OnceAppend
  <2> QED BY <1>2, <2>2, AppendElements DEF Post
<1> QED BY <1>1, <1>2

\* The reception of packets is listed at most once in js2 if it is in js.
Calm(js2, js) ==
  Once(js, Pkts) => Once(js2, Pkts) /\ (Pkts \in ToSet(js2) => Pkts \in ToSet(js))

LEMMA CalmSteps ==
  /\ \A a : Calm(a, a)
  /\ \A a, b, c : Calm(b, a) /\ Calm(c, b) => Calm(c, a)
BY DEF Calm

------------------------------------------------------------------------------
(* The heap of a router.  m says how many references there are to an address   *)
(* besides that of the database.                                               *)

Bit(b) == IF b THEN 1 ELSE 0

Counted(h, m) == \A p \in DOMAIN h : h[p].ref = m[p] + Bit(h[p].db)
Backed(h, m) == \A a \in Addr : m[a] # 0 => a \in DOMAIN h
DbOnce(h) == \A p, k \in DOMAIN h : h[p].db /\ h[k].db /\ h[p].own = h[k].own => p = k
Sound(h, m) ==
  Shape(h) /\ m \in [Addr -> Nat] /\ Counted(h, m) /\ Backed(h, m) /\ DbOnce(h)

\* The same contents; the objects of g are some of h; those in the database.
SameLsp(x, y) == /\ x.own = y.own /\ x.seq = y.seq /\ x.adjs = y.adjs
                 /\ x.tlv = y.tlv /\ x.purge = y.purge
Of(g, h) == \A p \in DOMAIN g : p \in DOMAIN h /\ SameLsp(g[p], h[p])
Installed(h) == {p \in DOMAIN h : h[p].db}

LEMMA LspFields ==
  ASSUME NEW x \in Lsps
  PROVE  /\ x.own \in Routers /\ x.seq \in Nat /\ x.adjs \in SUBSET Routers
         /\ x.tlv \in BOOLEAN /\ x.purge \in BOOLEAN /\ x.live \in BOOLEAN
         /\ x.ref \in Nat \ {0} /\ x.db \in BOOLEAN
BY DEF Lsps

LEMMA LspUpdates ==
  ASSUME NEW x \in Lsps
  PROVE  /\ \A n \in Nat \ {0} : LET y == [x EXCEPT !.ref = n]
              IN y \in Lsps /\ SameLsp(y, x) /\ y.ref = n /\ y.live = x.live /\ y.db = x.db
         /\ \A n \in Nat : LET y == [x EXCEPT !.seq = n]
              IN /\ y \in Lsps /\ y.own = x.own /\ y.seq = n /\ y.adjs = x.adjs /\ y.tlv = x.tlv
                 /\ y.purge = x.purge /\ y.ref = x.ref /\ y.live = x.live /\ y.db = x.db
BY DEF Lsps, SameLsp

LEMMA DbOff ==
  ASSUME NEW x \in Lsps, NEW y, y = [x EXCEPT !.db = FALSE]
  PROVE  y \in Lsps /\ SameLsp(y, x) /\ y.ref = x.ref /\ y.live = x.live /\ y.db = FALSE
BY DEF Lsps, SameLsp

LEMMA LiveOff ==
  ASSUME NEW x \in Lsps, NEW y, y = [x EXCEPT !.live = FALSE]
  PROVE  y \in Lsps /\ SameLsp(y, x) /\ y.ref = x.ref /\ y.live = FALSE /\ y.db = x.db
BY DEF Lsps, SameLsp

\* n[p] references to every object p are to be given up, and that of the
\* database to some of them: g has their objects marked so.
Marked(h, g) ==
  /\ DOMAIN g = DOMAIN h
  /\ \A p \in DOMAIN h : /\ g[p] \in Lsps /\ SameLsp(g[p], h[p]) /\ g[p].ref = h[p].ref
                         /\ g[p].db => h[p].db
Balanced(h, g, m, n, m2) ==
  /\ m2 \in [Addr -> Nat]
  /\ \A p \in DOMAIN h : /\ n[p] \in Nat
                         /\ m[p] + Bit(h[p].db) = m2[p] + Bit(g[p].db) + n[p]
  /\ \A a \in Addr \ DOMAIN h : m2[a] = 0

LEMMA GiveUpSound ==
  ASSUME NEW h, NEW m, Sound(h, m), NEW g, Marked(h, g), NEW n, NEW m2, Balanced(h, g, m, n, m2)
  PROVE  /\ Sound(GiveUp(g, n), m2) /\ Of(GiveUp(g, n), h)
         /\ Installed(GiveUp(g, n)) = {p \in DOMAIN h : g[p].db}
<1> DEFINE f == GiveUp(g, n)
<1> USE DEF Marked, Balanced
<1>1. ASSUME NEW p \in DOMAIN h
      PROVE  /\ g[p] \in Lsps /\ h[p] \in Lsps /\ p \in Addr
             /\ m[p] \in Nat /\ m2[p] \in Nat /\ n[p] \in Nat
             /\ g[p].ref = m2[p] + Bit(g[p].db) + n[p]
             /\ Bit(g[p].db) \in {0, 1} /\ (g[p].db <=> Bit(g[p].db) = 1)
  <2>1. g[p] \in Lsps /\ h[p] \in Lsps /\ p \in Addr /\ n[p] \in Nat
    BY DEF Sound, Shape
  <2>2. m[p] \in Nat /\ m2[p] \in Nat
    BY <2>1 DEF Sound
  <2>3. g[p].ref = m2[p] + Bit(g[p].db) + n[p]
    BY DEF Sound, Counted
  <2>4. g[p].db \in BOOLEAN
    BY <2>1, LspFields
  <2> QED BY <2>1, <2>2, <2>3, <2>4 DEF Bit
<1>2. /\ DOMAIN f = {p \in DOMAIN h : g[p].ref # n[p]}
      /\ \A p \in DOMAIN f : f[p] = [g[p] EXCEPT !.ref = @ - n[p]]
  BY DEF GiveUp
<1> HIDE DEF f
<1>3. ASSUME NEW p \in DOMAIN f
      PROVE  /\ p \in DOMAIN h /\ f[p] \in Lsps /\ SameLsp(f[p], h[p])
             /\ f[p].ref = m2[p] + Bit(f[p].db) /\ f[p].db = g[p].db
  <2>1. p \in DOMAIN h /\ g[p].ref # n[p]
    BY <1>2
  <2>2. PICK k : k = g[p].ref - n[p]
    OBVIOUS
  <2>3. k \in Nat \ {0} /\ k = m2[p] + Bit(g[p].db)
    BY <1>1, <2>1, <2>2
  <2>4. f[p] = [g[p] EXCEPT !.ref = k]
    BY <1>2, <2>2
  <2>5. f[p] \in Lsps /\ SameLsp(f[p], g[p]) /\ f[p].ref = k /\ f[p].db = g[p].db
    BY <1>1, <2>1, <2>3, <2>4, LspUpdates
  <2>6. SameLsp(g[p], h[p])
    BY <2>1
  <2> QED BY <2>1, <2>3, <2>5, <2>6 DEF SameLsp
<1>4. \A p \in DOMAIN h : g[p].db \/ m2[p] # 0 => p \in DOMAIN f
  BY <1>1, <1>2
<1>5. Shape(f)
  <2>1. DOMAIN f \subseteq DOMAIN h
    BY <1>2
  <2>2. IsFiniteSet(DOMAIN h) /\ DOMAIN h \subseteq Addr
    BY DEF Sound, Shape
  <2>3. IsFiniteSet(DOMAIN f)
    BY <2>1, <2>2, FS_Subset
  <2> QED BY <1>3, <2>1, <2>2, <2>3 DEF Shape
<1>6. Counted(f, m2)
  BY <1>3 DEF Counted
<1>7. Backed(f, m2)
  BY <1>4 DEF Backed
<1>8. DbOnce(f)
  BY <1>3 DEF Sound, DbOnce, SameLsp
<1>9. Of(f, h)
  BY <1>3 DEF Of
<1>10. Installed(f) = {p \in DOMAIN h : g[p].db}
  BY <1>3, <1>4 DEF Installed
<1>11. Sound(f, m2)
  BY <1>5, <1>6, <1>7, <1>8 DEF Sound
<1> QED BY <1>9, <1>10, <1>11 DEF f

LEMMA SameItself == \A x : SameLsp(x, x)
BY DEF SameLsp

LEMMA DerefSound ==
  ASSUME NEW h, NEW m, Sound(h, m), NEW p \in Addr, m[p] # 0,
         NEW m2 \in [Addr -> Nat], \A a \in Addr : m[a] = m2[a] + (IF a = p THEN 1 ELSE 0)
  PROVE  /\ Sound(Deref(h, p), m2) /\ Of(Deref(h, p), h)
         /\ Installed(Deref(h, p)) = Installed(h)
<1> DEFINE n == [k \in DOMAIN h |-> IF k = p THEN 1 ELSE 0]
<1>1. p \in DOMAIN h /\ DOMAIN h \subseteq Addr /\ \A k \in DOMAIN h : h[k] \in Lsps
  BY DEF Sound, Backed, Shape
<1>2. \A k \in DOMAIN h : n[k] \in Nat /\ m[k] = m2[k] + n[k] /\ m2[k] \in Nat
  BY <1>1
<1>3. \A k \in DOMAIN h : Bit(h[k].db) \in Nat
  BY <1>1 DEF Bit
<1>4. \A a \in Addr \ DOMAIN h : m2[a] = 0
  <2>1. \A a \in Addr : m[a] \in Nat /\ m2[a] \in Nat
    BY DEF Sound
  <2> QED BY <1>1, <2>1 DEF Sound, Backed
<1>5. Marked(h, h)
  BY <1>1, SameItself DEF Marked
<1>6. Balanced(h, h, m, n, m2)
  <2> HIDE DEF n
  <2> QED BY <1>2, <1>3, <1>4 DEF Balanced
<1> HIDE DEF n
<1>7. /\ Sound(GiveUp(h, n), m2) /\ Of(GiveUp(h, n), h)
      /\ Installed(GiveUp(h, n)) = {k \in DOMAIN h : h[k].db}
  BY <1>5, <1>6, GiveUpSound
<1>8. Deref(h, p) = GiveUp(h, n)
  BY DEF Deref, n
<1> QED BY <1>7, <1>8 DEF Installed

\* The database gives up object p.
LEMMA ReleaseSound ==
  ASSUME NEW h, NEW m, Sound(h, m), NEW p \in Installed(h), NEW g, Marked(h, g),
         \A k \in DOMAIN h : g[k].db = (h[k].db /\ k # p)
  PROVE  /\ Sound(Deref(g, p), m) /\ Of(Deref(g, p), h)
         /\ Installed(Deref(g, p)) = Installed(h) \ {p}
<1> DEFINE n == [k \in DOMAIN g |-> IF k = p THEN 1 ELSE 0]
<1>1. DOMAIN g = DOMAIN h /\ p \in DOMAIN h /\ h[p].db
  BY DEF Marked, Installed
<1>2. ASSUME NEW k \in DOMAIN h
      PROVE  n[k] \in Nat /\ m[k] + Bit(h[k].db) = m[k] + Bit(g[k].db) + n[k]
  <2>1. m[k] \in Nat /\ h[k].db \in BOOLEAN
    BY LspFields DEF Sound, Shape
  <2>2. Bit(h[k].db) = Bit(g[k].db) + n[k] /\ Bit(g[k].db) \in Nat /\ n[k] \in Nat
    <3>1. n[k] = IF k = p THEN 1 ELSE 0
      BY <1>1
    <3>2. g[k].db = (h[k].db /\ k # p)
      OBVIOUS
    <3>3. CASE k = p
      <4>1. n[k] = 1 /\ h[k].db = TRUE /\ g[k].db = FALSE
        BY <1>1, <2>1, <3>1, <3>2, <3>3
      <4>2. Bit(h[k].db) = 1 /\ Bit(g[k].db) = 0
        BY <4>1 DEF Bit
      <4> HIDE DEF n
      <4> QED BY <4>1, <4>2
    <3>4. CASE k # p
      <4>1. g[k].db = h[k].db /\ n[k] = 0
        BY <2>1, <3>1, <3>2, <3>4
      <4>2. Bit(g[k].db) = Bit(h[k].db) /\ Bit(g[k].db) \in Nat
        BY <4>1 DEF Bit
      <4> HIDE DEF n
      <4> QED BY <4>1, <4>2
    <3> QED BY <3>3, <3>4
  <2> HIDE DEF n
  <2> QED BY <2>1, <2>2
<1>3. m \in [Addr -> Nat] /\ \A a \in Addr \ DOMAIN h : m[a] = 0
  BY DEF Sound, Backed
<1> HIDE DEF n
<1>4. Balanced(h, g, m, n, m)
  BY <1>2, <1>3 DEF Balanced
<1>5. /\ Sound(GiveUp(g, n), m) /\ Of(GiveUp(g, n), h)
      /\ Installed(GiveUp(g, n)) = {k \in DOMAIN h : g[k].db}
  BY <1>4, GiveUpSound
<1>6. Deref(g, p) = GiveUp(g, n)
  BY DEF Deref, n
<1>7. {k \in DOMAIN h : g[k].db} = Installed(h) \ {p}
  BY DEF Installed
<1> QED BY <1>5, <1>6, <1>7

LEMMA Remove1Sound ==
  ASSUME NEW h, NEW m, Sound(h, m), NEW p \in Installed(h)
  PROVE  /\ Sound(Remove1(h, p), m) /\ Of(Remove1(h, p), h)
         /\ Installed(Remove1(h, p)) = Installed(h) \ {p}
<1> DEFINE g == [h EXCEPT ![p].db = FALSE]
<1>1. p \in DOMAIN h /\ h[p].db /\ \A k \in DOMAIN h : h[k] \in Lsps
  BY DEF Installed, Sound, Shape
<1>2. DOMAIN g = DOMAIN h /\ \A k \in DOMAIN h : g[k] = IF k = p THEN [h[k] EXCEPT !.db = FALSE] ELSE h[k]
  OBVIOUS
<1> HIDE DEF g
<1>3. ASSUME NEW k \in DOMAIN h
      PROVE  /\ g[k] \in Lsps /\ SameLsp(g[k], h[k]) /\ g[k].ref = h[k].ref
             /\ g[k].db = (h[k].db /\ k # p)
  <2>1. CASE k = p
    <3>1. g[k] = [h[k] EXCEPT !.db = FALSE]
      BY <1>2, <2>1
    <3> QED BY <1>1, <2>1, <3>1, DbOff, ZenonT(40)
  <2>2. CASE k # p
    <3>1. g[k] = h[k]
      BY <1>2, <2>2
    <3> QED BY <1>1, <2>2, <3>1, SameItself, LspFields
  <2> QED BY <2>1, <2>2
<1>4. Marked(h, g)
  BY <1>2, <1>3 DEF Marked
<1>5. /\ Sound(Deref(g, p), m) /\ Of(Deref(g, p), h)
      /\ Installed(Deref(g, p)) = Installed(h) \ {p}
  BY <1>3, <1>4, ReleaseSound
<1> QED BY <1>5 DEF Remove1, g

LEMMA EvictSound ==
  ASSUME NEW h, NEW m, Sound(h, m), NEW p, p = NULL \/ p \in Installed(h)
  PROVE  /\ Sound(Evict(h, p), m) /\ Of(Evict(h, p), h)
         /\ p # NULL => Installed(Evict(h, p)) = Installed(h) \ {p}
         /\ p = NULL => Evict(h, p) = h
<1>1. CASE p = NULL
  BY <1>1, SameItself DEF Evict, Of
<1>2. CASE p # NULL
  <2> DEFINE f == [h EXCEPT ![p].live = FALSE]
             g == [f EXCEPT ![p].db = FALSE]
  <2>1. p \in DOMAIN h /\ h[p].db /\ p \in Installed(h) /\ \A k \in DOMAIN h : h[k] \in Lsps
    BY <1>2 DEF Installed, Sound, Shape
  <2>2. DOMAIN f = DOMAIN h /\ \A k \in DOMAIN h : f[k] = IF k = p THEN [h[k] EXCEPT !.live = FALSE] ELSE h[k]
    OBVIOUS
  <2> HIDE DEF f
  <2>3. DOMAIN g = DOMAIN h /\ \A k \in DOMAIN h : g[k] = IF k = p THEN [f[k] EXCEPT !.db = FALSE] ELSE f[k]
    BY <2>2
  <2> HIDE DEF g
  <2>4. ASSUME NEW k \in DOMAIN h
        PROVE  /\ g[k] \in Lsps /\ SameLsp(g[k], h[k]) /\ g[k].ref = h[k].ref
               /\ g[k].db = (h[k].db /\ k # p)
    <3>1. CASE k = p
      <4>1. f[k] = [h[k] EXCEPT !.live = FALSE]
        BY <2>2, <3>1
      <4>2. f[k] \in Lsps /\ SameLsp(f[k], h[k]) /\ f[k].ref = h[k].ref
        BY <2>1, <4>1, LiveOff
      <4>3. g[k] = [f[k] EXCEPT !.db = FALSE]
        BY <2>3, <3>1
      <4>4. g[k] \in Lsps /\ SameLsp(g[k], f[k]) /\ g[k].ref = f[k].ref /\ g[k].db = FALSE
        BY <4>2, <4>3, DbOff
      <4> QED BY <2>1, <3>1, <4>2, <4>4 DEF SameLsp
    <3>2. CASE k # p
      <4>1. g[k] = h[k]
        BY <2>2, <2>3, <3>2
      <4> QED BY <2>1, <3>2, <4>1, SameItself, LspFields
    <3> QED BY <3>1, <3>2
  <2>5. Marked(h, g)
    BY <2>3, <2>4 DEF Marked
  <2>6. /\ Sound(Deref(g, p), m) /\ Of(Deref(g, p), h)
        /\ Installed(Deref(g, p)) = Installed(h) \ {p}
    BY <2>1, <2>4, <2>5, ReleaseSound
  <2>7. Evict(h, p) = Deref(g, p)
    BY <1>2 DEF Evict, Remove1, g, f
  <2> QED BY <1>2, <2>6, <2>7
<1> QED BY <1>1, <1>2

LEMMA EmptyDbSound ==
  ASSUME NEW h, NEW m, Sound(h, m)
  PROVE  Sound(EmptyDb(h), m) /\ Of(EmptyDb(h), h) /\ Installed(EmptyDb(h)) = {}
<1> DEFINE g == [p \in DOMAIN h |-> [h[p] EXCEPT !.db = FALSE]]
           n == [p \in DOMAIN h |-> IF h[p].db THEN 1 ELSE 0]
<1>1. ASSUME NEW p \in DOMAIN h
      PROVE  h[p] \in Lsps /\ h[p].db \in BOOLEAN /\ m[p] \in Nat
  BY LspFields DEF Sound, Shape
<1>2. ASSUME NEW p \in DOMAIN h
      PROVE  /\ g[p] \in Lsps /\ SameLsp(g[p], h[p]) /\ g[p].ref = h[p].ref
             /\ g[p].db = FALSE
  <2>1. g[p] = [h[p] EXCEPT !.db = FALSE]
    OBVIOUS
  <2> QED BY <1>1, <2>1, DbOff
<1>3. DOMAIN g = DOMAIN h /\ \A p \in DOMAIN h : n[p] = Bit(h[p].db)
  BY DEF Bit
<1> HIDE DEF g, n
<1>4. Marked(h, g)
  BY <1>2, <1>3 DEF Marked
<1>5. Balanced(h, g, m, n, m)
  <2>1. m \in [Addr -> Nat] /\ \A a \in Addr \ DOMAIN h : m[a] = 0
    BY DEF Sound, Backed
  <2>2. ASSUME NEW p \in DOMAIN h
        PROVE  n[p] \in Nat /\ m[p] + Bit(h[p].db) = m[p] + Bit(g[p].db) + n[p]
    <3>1. Bit(g[p].db) = 0
      BY <1>2 DEF Bit
    <3>2. Bit(h[p].db) \in Nat /\ n[p] = Bit(h[p].db) /\ m[p] \in Nat
      BY <1>1, <1>3 DEF Bit
    <3> QED BY <3>1, <3>2
  <2> QED BY <2>1, <2>2 DEF Balanced
<1>6. /\ Sound(GiveUp(g, n), m) /\ Of(GiveUp(g, n), h)
      /\ Installed(GiveUp(g, n)) = {p \in DOMAIN h : g[p].db}
  BY <1>4, <1>5, GiveUpSound
<1>7. EmptyDb(h) = GiveUp(g, n)
  BY DEF EmptyDb, g, n
<1> QED BY <1>2, <1>6, <1>7

LspData(x) == /\ x.own \in Routers /\ x.seq \in Nat /\ x.adjs \in SUBSET Routers
              /\ x.tlv \in BOOLEAN /\ x.purge \in BOOLEAN

\* m2 counts n references to p more than m.
More(m2, m, p, n) ==
  m2 \in [Addr -> Nat] /\ \A a \in Addr : m2[a] = m[a] + (IF a = p THEN n ELSE 0)

\* An object is made, and held by its maker.
Made(f, h, x, p) ==
  /\ p \in Addr /\ p \notin DOMAIN h /\ p # NULL
  /\ DOMAIN f = DOMAIN h \cup {p} /\ \A k \in DOMAIN h : f[k] = h[k]
  /\ SameLsp(f[p], x) /\ f[p].db = FALSE /\ Installed(f) = Installed(h)

LEMMA NewSound ==
  ASSUME FloodingAssumption, NEW h, NEW m, Sound(h, m), NEW x, LspData(x), NEW p, p = Address(h, x),
         NEW m2, More(m2, m, p, 1), NEW f, f = New(h, x)
  PROVE  Sound(f, m2) /\ Made(f, h, x, p)
<1> DEFINE y == [own |-> x.own, seq |-> x.seq, adjs |-> x.adjs, tlv |-> x.tlv,
                 purge |-> x.purge, live |-> TRUE, ref |-> 1, db |-> FALSE]
<1>1. p \in Addr /\ p \notin DOMAIN h /\ p # NULL
  BY AddressFresh DEF LspData, Sound
<1>2. DOMAIN f = DOMAIN h \cup {p} /\ f[p] = y /\ \A k \in DOMAIN h : f[k] = h[k]
  BY <1>1 DEF New
<1>3. y \in Lsps /\ SameLsp(y, x) /\ y.db = FALSE /\ y.ref = 1
  BY DEF Lsps, SameLsp, LspData
<1> HIDE DEF y
<1>4. m[p] = 0 /\ m2[p] = 1 /\ \A a \in Addr : a # p => m2[a] = m[a]
  <2>1. \A a \in Addr : m[a] \in Nat
    BY DEF Sound
  <2> QED BY <1>1, <2>1 DEF Sound, Backed, More
<1>5. Shape(f)
  <2>1. IsFiniteSet(DOMAIN h) /\ DOMAIN h \subseteq Addr /\ \A k \in DOMAIN h : h[k] \in Lsps
    BY DEF Sound, Shape
  <2>2. IsFiniteSet(DOMAIN h \cup {p})
    BY <2>1, FS_AddElement
  <2> QED BY <1>1, <1>2, <1>3, <2>1, <2>2 DEF Shape
<1>6. Counted(f, m2)
  <2>1. f[p].ref = m2[p] + Bit(f[p].db)
    BY <1>2, <1>3, <1>4 DEF Bit
  <2>2. ASSUME NEW k \in DOMAIN h PROVE f[k].ref = m2[k] + Bit(f[k].db)
    <3>1. h[k].ref = m[k] + Bit(h[k].db) /\ k \in Addr /\ k # p
      BY <1>1 DEF Sound, Counted, Shape
    <3> QED BY <1>2, <1>4, <3>1
  <2> QED BY <1>2, <2>1, <2>2 DEF Counted
<1>7. Backed(f, m2)
  BY <1>2, <1>4 DEF Sound, Backed
<1>8. DbOnce(f)
  BY <1>2, <1>3 DEF Sound, DbOnce
<1>9. Installed(f) = Installed(h)
  BY <1>2, <1>3 DEF Installed
<1>10. Sound(f, m2)
  BY <1>5, <1>6, <1>7, <1>8 DEF Sound, More
<1> QED BY <1>1, <1>2, <1>3, <1>9, <1>10 DEF Made

\* The database takes an object of a router of which it has none.
Put(f, h, p) ==
  /\ DOMAIN f = DOMAIN h /\ \A k \in DOMAIN h : SameLsp(f[k], h[k])
  /\ Installed(f) = Installed(h) \cup {p}

LEMMA InstallSound ==
  ASSUME NEW h, NEW m, Sound(h, m), NEW p \in DOMAIN h, h[p].db = FALSE,
         \A k \in Installed(h) : h[k].own # h[p].own, NEW f, f = Install(h, p)
  PROVE  Sound(f, m) /\ Put(f, h, p)
<1>1. /\ DOMAIN f = DOMAIN h
      /\ \A k \in DOMAIN h : f[k] = IF k = p THEN [[h[p] EXCEPT !.ref = @ + 1] EXCEPT !.db = TRUE]
                                    ELSE h[k]
  BY DEF Install, Ref
<1>2. \A k \in DOMAIN h : h[k] \in Lsps /\ h[k].db \in BOOLEAN /\ h[k].ref \in Nat
  BY LspFields DEF Sound, Shape
<1>3. f[p] \in Lsps /\ SameLsp(f[p], h[p]) /\ f[p].ref = h[p].ref + 1 /\ f[p].db = TRUE
  <2>1. f[p] = [[h[p] EXCEPT !.ref = @ + 1] EXCEPT !.db = TRUE]
    BY <1>1
  <2>2. h[p] \in Lsps /\ h[p].ref + 1 \in Nat \ {0}
    BY <1>2
  <2> QED BY <2>1, <2>2 DEF Lsps, SameLsp
<1>4. \A k \in DOMAIN h : k # p => f[k] = h[k]
  BY <1>1
<1>5. \A k \in DOMAIN h : f[k] \in Lsps /\ SameLsp(f[k], h[k])
  BY <1>2, <1>3, <1>4, SameItself
<1>6. Shape(f)
  BY <1>1, <1>5 DEF Sound, Shape
<1>7. Counted(f, m)
  <2>1. f[p].ref = m[p] + Bit(f[p].db)
    <3>1. h[p].ref = m[p] + Bit(h[p].db) /\ m[p] \in Nat
      BY DEF Sound, Counted, Shape
    <3> QED BY <1>3, <3>1 DEF Bit
  <2> QED BY <1>1, <1>4, <2>1 DEF Sound, Counted
<1>8. Backed(f, m)
  BY <1>1 DEF Sound, Backed
<1>9. Installed(f) = Installed(h) \cup {p}
  BY <1>1, <1>3, <1>4 DEF Installed
<1>10. DbOnce(f)
  <2> SUFFICES ASSUME NEW i \in DOMAIN h, NEW k \in DOMAIN h, f[i].db, f[k].db, f[i].own = f[k].own
               PROVE  i = k
    BY <1>1 DEF DbOnce
  <2>1. h[i].own = h[k].own
    BY <1>5 DEF SameLsp
  <2>2. \A j \in DOMAIN h : j # p /\ f[j].db => h[j].db /\ j \in Installed(h)
    BY <1>4 DEF Installed
  <2> QED BY <2>1, <2>2 DEF Sound, DbOnce
<1>11. Sound(f, m)
  BY <1>6, <1>7, <1>8, <1>10 DEF Sound
<1> QED BY <1>1, <1>5, <1>9, <1>11 DEF Put

\* n more references to p.
LEMMA RefsSound ==
  ASSUME NEW h, NEW m, Sound(h, m), NEW p \in DOMAIN h, NEW n \in Nat, NEW m2, More(m2, m, p, n),
         NEW f, f = [h EXCEPT ![p].ref = @ + n]
  PROVE  /\ Sound(f, m2) /\ DOMAIN f = DOMAIN h
         /\ \A k \in DOMAIN h : SameLsp(f[k], h[k]) /\ f[k].db = h[k].db /\ f[k].live = h[k].live
         /\ Installed(f) = Installed(h)
<1>1. /\ DOMAIN f = DOMAIN h
      /\ \A k \in DOMAIN h : f[k] = IF k = p THEN [h[p] EXCEPT !.ref = @ + n] ELSE h[k]
  OBVIOUS
<1>2. \A k \in DOMAIN h : h[k] \in Lsps /\ h[k].ref \in Nat \ {0}
  BY LspFields DEF Sound, Shape
<1>3. /\ f[p] \in Lsps /\ SameLsp(f[p], h[p]) /\ f[p].ref = h[p].ref + n /\ f[p].db = h[p].db
      /\ f[p].live = h[p].live
  <2>1. f[p] = [h[p] EXCEPT !.ref = h[p].ref + n]
    BY <1>1
  <2>2. h[p] \in Lsps /\ h[p].ref + n \in Nat \ {0}
    BY <1>2
  <2> QED BY <2>1, <2>2 DEF Lsps, SameLsp
<1>4. \A k \in DOMAIN h : k # p => f[k] = h[k]
  BY <1>1
<1>5. \A k \in DOMAIN h : /\ f[k] \in Lsps /\ SameLsp(f[k], h[k]) /\ f[k].db = h[k].db
                          /\ f[k].live = h[k].live
  BY <1>2, <1>3, <1>4, SameItself
<1>6. Shape(f)
  BY <1>1, <1>5 DEF Sound, Shape
<1>7. Counted(f, m2)
  <2>1. ASSUME NEW k \in DOMAIN h PROVE f[k].ref = m2[k] + Bit(f[k].db)
    <3>1. /\ h[k].ref = m[k] + Bit(h[k].db) /\ m[k] \in Nat /\ k \in Addr
          /\ Bit(h[k].db) \in Nat
      BY DEF Sound, Counted, Shape, Bit
    <3>2. m2[k] = m[k] + (IF k = p THEN n ELSE 0)
      BY <3>1 DEF More
    <3> QED BY <1>3, <1>4, <3>1, <3>2
  <2> QED BY <1>1, <2>1 DEF Counted
<1>8. Backed(f, m2)
  <2>1. \A a \in Addr : a # p => m2[a] = m[a]
    <3>1. \A a \in Addr : m[a] \in Nat
      BY DEF Sound
    <3> QED BY <3>1 DEF More
  <2> QED BY <1>1, <2>1 DEF Sound, Backed
<1>9. DbOnce(f)
  BY <1>1, <1>5 DEF Sound, DbOnce, SameLsp
<1>10. Installed(f) = Installed(h)
  BY <1>1, <1>5 DEF Installed
<1>11. Sound(f, m2)
  BY <1>6, <1>7, <1>8, <1>9 DEF Sound, More
<1> QED BY <1>1, <1>5, <1>10, <1>11

------------------------------------------------------------------------------
(* Contexts.  Router r holds the object at s as self_lsp_pkt, and a handler of *)
(* its the one at e.                                                           *)

Refs(r, q, s, e) ==
  [a \in Addr |-> (IF s = a THEN 1 ELSE 0) + (IF e = a THEN 1 ELSE 0) + Cardinality(Waiting(q, r, a))]

LEMMA RefsAre ==
  ASSUME FloodingAssumption, NEW q, Queues(q), NEW r \in Routers, NEW s, NEW e
  PROVE  /\ Refs(r, q, s, e) \in [Addr -> Nat]
         /\ \A a \in Addr : Refs(r, q, s, e)[a]
              = (IF s = a THEN 1 ELSE 0) + (IF e = a THEN 1 ELSE 0) + Cardinality(Waiting(q, r, a))
         /\ \A a : Cardinality(Waiting(q, r, a)) \in Nat
<1>1. \A a : Cardinality(Waiting(q, r, a)) \in Nat
  BY PlacesFinite
<1>2. \A a \in Addr :
        (IF s = a THEN 1 ELSE 0) + (IF e = a THEN 1 ELSE 0) + Cardinality(Waiting(q, r, a)) \in Nat
  BY <1>1
<1> QED BY <1>1, <1>2 DEF Refs

\* Contexts of router r.
Ctx(c, r, s, e) ==
  /\ Queues(c.queue) /\ Sound(c.heap, Refs(r, c.queue, s, e))
  /\ c.pending \in Nat /\ Cardinality(Places(c.queue, r)) <= c.pending
  /\ c.jobs \in Seq(Tasks)

\* From context c to d, jobs are added and the heap holds the same LSPs.
Grown(d, c, r) ==
  /\ ToSet(c.jobs) \subseteq ToSet(d.jobs) /\ Calm(d.jobs, c.jobs)
  /\ \A i \in Intfs : i[1] # r => d.queue[i] = c.queue[i]
  /\ DOMAIN d.heap = DOMAIN c.heap /\ Installed(d.heap) = Installed(c.heap)
  /\ \A k \in DOMAIN c.heap : SameLsp(d.heap[k], c.heap[k])

LEMMA EnqueueSound ==
  ASSUME FloodingAssumption, NEW r \in Routers, NEW c, NEW s, NEW e, Ctx(c, r, s, e),
         NEW S \in SUBSET Peers(r), NEW p \in DOMAIN c.heap, NEW d, d = Enqueue(c, r, S, p)
  PROVE  Ctx(d, r, s, e) /\ Grown(d, c, r)
<1> DEFINE on == {t \in S : enabled[<<r, t>>] /\ c.heap[p].live}
           new == {t \in on : ~Listed(c.jobs, Xmit(r, t))}
<1>1. /\ d.heap = [c.heap EXCEPT ![p].ref = @ + Cardinality(on)]
      /\ d.queue = [i \in Intfs |-> IF i[1] = r /\ i[2] \in on THEN Append(c.queue[i], p)
                                                           ELSE c.queue[i]]
      /\ d.pending = c.pending + Cardinality(on)
      /\ d.jobs = c.jobs \o SetToSeq({Xmit(r, t) : t \in new})
  BY DEF Enqueue
<1>2. on \in SUBSET Peers(r) /\ new \in SUBSET Peers(r)
  OBVIOUS
<1> DEFINE T == {Xmit(r, t) : t \in new}
<1>3. IsFiniteSet(T) /\ T \subseteq Tasks
  <2>1. IsFiniteSet(new)
    <3> HIDE DEF new
    <3> QED BY <1>2, PeersFinite
  <2> DEFINE f == [t \in new |-> Xmit(r, t)]
  <2>2. f \in Surjection(new, T)
    <3> HIDE DEF new
    <3> QED BY DEF Surjection
  <2>3. IsFiniteSet(T)
    <3> HIDE DEF f, T, new
    <3> QED BY <2>1, <2>2, FS_Surjection
  <2>4. T \subseteq Tasks
    <3>1. ASSUME NEW t \in new PROVE Xmit(r, t) \in Tasks
      <4>1. t \in Routers
        BY <1>2, IntfPair
      <4> QED BY <4>1, TaskTypes
    <3> HIDE DEF new
    <3> QED BY <3>1
  <2> QED BY <2>3, <2>4
<1> HIDE DEF on, new, T
<1>4. PICK n : n = Cardinality(on) /\ n \in Nat
  BY <1>2, PeersFinite
<1>5. p \in Addr
  BY DEF Ctx, Sound, Shape
<1>6. /\ Queues(d.queue)
      /\ Cardinality(Places(d.queue, r)) = Cardinality(Places(c.queue, r)) + n
      /\ Cardinality(Waiting(d.queue, r, p)) = Cardinality(Waiting(c.queue, r, p)) + n
      /\ \A a : a # p => Waiting(d.queue, r, a) = Waiting(c.queue, r, a)
  <2>1. Queues(c.queue)
    BY DEF Ctx
  <2>2. PICK q2 : q2 = d.queue
    OBVIOUS
  <2>3. Appended(q2, c.queue, r, on, p)
    BY <1>1, <2>2 DEF Appended
  <2>4. /\ Queues(q2)
        /\ Cardinality(Places(q2, r)) = Cardinality(Places(c.queue, r)) + Cardinality(on)
        /\ Cardinality(Waiting(q2, r, p)) = Cardinality(Waiting(c.queue, r, p)) + Cardinality(on)
        /\ \A a : a # p => Waiting(q2, r, a) = Waiting(c.queue, r, a)
    BY <1>2, <1>5, <2>1, <2>3, AppendedWaiting
  <2> QED BY <1>4, <2>2, <2>4
<1>7. More(Refs(r, d.queue, s, e), Refs(r, c.queue, s, e), p, n)
  <2>1. Queues(c.queue)
    BY DEF Ctx
  <2>2. ASSUME NEW a \in Addr
        PROVE  Refs(r, d.queue, s, e)[a] = Refs(r, c.queue, s, e)[a] + (IF a = p THEN n ELSE 0)
    <3>1. Refs(r, d.queue, s, e)[a]
            = (IF s = a THEN 1 ELSE 0) + (IF e = a THEN 1 ELSE 0) + Cardinality(Waiting(d.queue, r, a))
      BY <1>6, RefsAre
    <3>2. /\ Refs(r, c.queue, s, e)[a]
               = (IF s = a THEN 1 ELSE 0) + (IF e = a THEN 1 ELSE 0) + Cardinality(Waiting(c.queue, r, a))
          /\ Cardinality(Waiting(c.queue, r, a)) \in Nat
      BY <2>1, RefsAre
    <3>3. Cardinality(Waiting(d.queue, r, a))
            = Cardinality(Waiting(c.queue, r, a)) + (IF a = p THEN n ELSE 0)
      BY <1>6, <3>2
    <3> QED BY ONLY <1>4, <3>1, <3>2, <3>3
  <2>3. Refs(r, d.queue, s, e) \in [Addr -> Nat]
    BY <1>6, RefsAre
  <2> QED BY <2>2, <2>3 DEF More
<1>8. /\ Sound(d.heap, Refs(r, d.queue, s, e)) /\ DOMAIN d.heap = DOMAIN c.heap
      /\ \A k \in DOMAIN c.heap : SameLsp(d.heap[k], c.heap[k])
      /\ Installed(d.heap) = Installed(c.heap)
  <2>1. Sound(c.heap, Refs(r, c.queue, s, e))
    BY DEF Ctx
  <2>2. PICK f : f = d.heap
    OBVIOUS
  <2>3. f = [c.heap EXCEPT ![p].ref = @ + n]
    BY <1>1, <1>4, <2>2
  <2>4. /\ Sound(f, Refs(r, d.queue, s, e)) /\ DOMAIN f = DOMAIN c.heap
        /\ \A k \in DOMAIN c.heap : SameLsp(f[k], c.heap[k])
        /\ Installed(f) = Installed(c.heap)
    BY <1>4, <1>7, <2>1, <2>3, RefsSound
  <2> QED BY <2>2, <2>4
<1>9. /\ d.jobs \in Seq(Tasks) /\ ToSet(c.jobs) \subseteq ToSet(d.jobs)
      /\ Calm(d.jobs, c.jobs)
  <2>1. SetToSeq(T) \in Seq(T)
    BY <1>3, SetToSeqType
  <2>2. SetToSeq(T) \in Seq(Tasks)
    BY <1>3, <2>1, SeqDef
  <2>3. d.jobs = c.jobs \o SetToSeq(T) /\ c.jobs \in Seq(Tasks)
    BY <1>1 DEF T, Ctx
  <2>4. Pkts \notin T
    BY TasksDiffer DEF T
  <2>5. ToSet(SetToSeq(T)) \subseteq T
    BY <2>1, Elements
  <2>6. d.jobs \in Seq(Tasks) /\ ToSet(d.jobs) = ToSet(c.jobs) \cup ToSet(SetToSeq(T))
    BY <2>2, <2>3, CatElements
  <2>7. Once(c.jobs, Pkts) => Once(d.jobs, Pkts)
    <3>1. Pkts \notin ToSet(SetToSeq(T))
      BY <2>4, <2>5
    <3> QED BY <2>2, <2>3, <3>1, OnceCat
  <2> QED BY <2>4, <2>5, <2>6, <2>7 DEF Calm
<1>10. d.pending \in Nat /\ Cardinality(Places(d.queue, r)) <= d.pending
  <2>1. d.pending = c.pending + n
    BY <1>1, <1>4
  <2>2. /\ Queues(c.queue) /\ c.pending \in Nat
        /\ Cardinality(Places(c.queue, r)) <= c.pending
    BY DEF Ctx
  <2>3. Cardinality(Places(c.queue, r)) \in Nat
    BY <2>2, PlacesFinite
  <2> QED BY <1>4, <1>6, <2>1, <2>2, <2>3
<1>11. \A i \in Intfs : i[1] # r => d.queue[i] = c.queue[i]
  BY <1>1
<1>12. Ctx(d, r, s, e)
  BY <1>6, <1>8, <1>9, <1>10 DEF Ctx
<1> QED BY <1>8, <1>9, <1>11, <1>12 DEF Grown

\* The queues of other routers and the list of jobs do not matter to a context.
LEMMA CtxMoved ==
  ASSUME FloodingAssumption, NEW r \in Routers, NEW c, NEW s, NEW e, Ctx(c, r, s, e), NEW d,
         d.heap = c.heap, d.pending = c.pending, d.jobs \in Seq(Tasks), Queues(d.queue),
         \A t \in Peers(r) : d.queue[<<r, t>>] = c.queue[<<r, t>>]
  PROVE  Ctx(d, r, s, e)
<1>1. /\ Places(d.queue, r) = Places(c.queue, r)
      /\ \A p : Waiting(d.queue, r, p) = Waiting(c.queue, r, p)
  BY OtherQueues, Z3
<1>2. Refs(r, d.queue, s, e) = Refs(r, c.queue, s, e)
  BY <1>1 DEF Refs
<1> QED BY <1>1, <1>2 DEF Ctx

\* What is referred to exists.
LEMMA Referred ==
  ASSUME FloodingAssumption, NEW r \in Routers, NEW c, NEW s, NEW e, Ctx(c, r, s, e)
  PROVE  /\ s \in Addr => s \in DOMAIN c.heap
         /\ e \in Addr => e \in DOMAIN c.heap
         /\ \A t \in Peers(r) : \A k \in DOMAIN c.queue[<<r, t>>] :
              c.queue[<<r, t>>][k] \in DOMAIN c.heap
<1>1. Queues(c.queue) /\ Backed(c.heap, Refs(r, c.queue, s, e))
  BY DEF Ctx, Sound
<1>2. /\ \A a \in Addr : Refs(r, c.queue, s, e)[a]
           = (IF s = a THEN 1 ELSE 0) + (IF e = a THEN 1 ELSE 0) + Cardinality(Waiting(c.queue, r, a))
      /\ \A a : Cardinality(Waiting(c.queue, r, a)) \in Nat
  BY <1>1, RefsAre
<1>3. \A a \in Addr : s = a \/ e = a \/ Cardinality(Waiting(c.queue, r, a)) # 0
        => Refs(r, c.queue, s, e)[a] # 0
  BY <1>2
<1>4. ASSUME NEW t \in Peers(r), NEW k \in DOMAIN c.queue[<<r, t>>]
      PROVE  c.queue[<<r, t>>][k] \in DOMAIN c.heap
  <2>1. PICK a : a = c.queue[<<r, t>>][k]
    OBVIOUS
  <2>2. a \in Addr
    <3>1. c.queue[<<r, t>>] \in Seq(Addr)
      BY <1>1, IntfPair DEF Queues
    <3> QED BY <2>1, <3>1, Elements
  <2>3. <<t, k>> \in Places(c.queue, r)
    BY PlacePair
  <2>4. <<t, k>> \in Waiting(c.queue, r, a)
    BY <2>1, <2>3 DEF Waiting
  <2>5. IsFiniteSet(Waiting(c.queue, r, a))
    BY <1>1, PlacesFinite
  <2>6. Cardinality(Waiting(c.queue, r, a)) # 0
    BY <2>4, <2>5, FS_EmptySet
  <2> QED BY <1>1, <1>3, <2>1, <2>2, <2>6 DEF Backed
<1> QED BY <1>1, <1>3, <1>4 DEF Backed

------------------------------------------------------------------------------
(* The inductive invariant.  It speaks of each router apart: its references    *)
(* are counted, and what it is told and tells is in step with its jobs.        *)

Packets == [to : Intfs, lsp : [own : Routers, seq : Nat, adjs : SUBSET Routers,
                               tlv : BOOLEAN, purge : BOOLEAN]]

TypeInv ==
  /\ life \in [Routers -> {"off", "on", "stopping"}]
  /\ enabled \in [Intfs -> BOOLEAN] /\ adj \in [Intfs -> {"none", "DOWN", "UP"}]
  /\ heap = [r \in Routers |-> heap[r]]
  /\ self \in [Routers -> Addr \cup {NULL}] /\ seqNo \in [Routers -> Nat]
  /\ recon \in [Routers -> {"off", "new", "flooded"}]
  /\ pending \in [Routers -> Nat] /\ stack \in Seq(Packets)
  /\ broken \in {"no", "assert", "null"}

\* Router r has heap h, the life L, the object at s as its own LSP, the sequence
\* number n, and reconciles as R says.
Told(h, js, r, L, s, n, R) ==
  /\ s # NULL => h[s].own = r
  /\ \A p \in Installed(h) : h[p].own = r => h[p].seq <= n
  /\ L = "on" /\ s # NULL => (h[s].tlv => R # "off" \/ Gen(r) \in ToSet(js))

Local(r) == /\ Ctx(Context(r), r, self[r], NULL)
            /\ Told(heap[r], jobs, r, life[r], self[r], seqNo[r], recon[r])

RInv == TypeInv /\ \A r \in Routers : Local(r)

\* What a step makes of router r; the jobs of others stay listed.
Changed(r, c, L, s, n, R) ==
  /\ life' = [life EXCEPT ![r] = L] /\ self' = [self EXCEPT ![r] = s]
  /\ seqNo' = [seqNo EXCEPT ![r] = n] /\ recon' = [recon EXCEPT ![r] = R]
  /\ Commit(r, c)
Typed(L, s, n, R) ==
  /\ L \in {"off", "on", "stopping"} /\ s \in Addr \cup {NULL} /\ n \in Nat
  /\ R \in {"off", "new", "flooded"}
Keeps(d, c, r) ==
  /\ \A i \in Intfs : i[1] # r => d.queue[i] = c.queue[i]
  /\ \A q \in Routers \ {r} : Gen(q) \in ToSet(c.jobs) => Gen(q) \in ToSet(d.jobs)
Rest2 == /\ enabled' \in [Intfs -> BOOLEAN] /\ adj' \in [Intfs -> {"none", "DOWN", "UP"}]
         /\ stack' \in Seq(Packets) /\ broken' \in {"no", "assert", "null"}

LEMMA Moves ==
  ASSUME FloodingAssumption, RInv, Rest2, NEW r \in Routers, NEW c, NEW L, NEW s, NEW n, NEW R,
         Changed(r, c, L, s, n, R), Typed(L, s, n, R),
         Ctx(c, r, s, NULL), Keeps(c, Context(r), r), Told(c.heap, c.jobs, r, L, s, n, R)
  PROVE  RInv'
<1> USE DEF TypeInv
<1>1. TypeInv
  BY DEF RInv
<1>2. /\ heap' = [heap EXCEPT ![r] = c.heap] /\ queue' = c.queue
      /\ pending' = [pending EXCEPT ![r] = c.pending] /\ jobs' = c.jobs
  BY DEF Changed, Commit
<1>3. /\ life'[r] = L /\ self'[r] = s /\ seqNo'[r] = n /\ recon'[r] = R
      /\ heap'[r] = c.heap /\ pending'[r] = c.pending
  BY <1>1, <1>2 DEF Changed
<1>4. ASSUME NEW q \in Routers, q # r
      PROVE  /\ life'[q] = life[q] /\ self'[q] = self[q] /\ seqNo'[q] = seqNo[q]
             /\ recon'[q] = recon[q]
             /\ heap'[q] = heap[q] /\ pending'[q] = pending[q]
  BY <1>1, <1>2, <1>4 DEF Changed
<1>5. TypeInv'
  <2>1. /\ life' \in [Routers -> {"off", "on", "stopping"}]
        /\ self' \in [Routers -> Addr \cup {NULL}] /\ seqNo' \in [Routers -> Nat]
    BY <1>1 DEF Changed, Typed
  <2>2. /\ recon' \in [Routers -> {"off", "new", "flooded"}]
    BY <1>1 DEF Changed, Typed
  <2>3. pending' \in [Routers -> Nat]
    <3>1. c.pending \in Nat
      BY DEF Ctx
    <3> QED BY <1>1, <1>2, <3>1
  <2>4. heap' = [q \in Routers |-> heap'[q]]
    BY <1>1, <1>2
  <2> QED BY <2>1, <2>2, <2>3, <2>4 DEF Rest2
<1>6. Local(r)'
  <2>1. Ctx(Context(r)', r, s, NULL)
    <3>1. /\ Context(r)'.heap = c.heap /\ Context(r)'.pending = c.pending
          /\ Context(r)'.queue = c.queue /\ Context(r)'.jobs = c.jobs
      BY <1>2, <1>3 DEF Context
    <3> QED BY <3>1 DEF Ctx
  <2> QED BY <1>2, <1>3, <2>1 DEF Local
<1>7. ASSUME NEW q \in Routers, q # r PROVE Local(q)'
  <2>1. Ctx(Context(q), q, self[q], NULL)
    BY DEF RInv, Local
  <2>2. Told(heap[q], jobs, q, life[q], self[q], seqNo[q], recon[q])
    BY DEF RInv, Local
  <2>3. PICK d : d = Context(q)'
    OBVIOUS
  <2>4. /\ d.heap = Context(q).heap /\ d.pending = Context(q).pending
        /\ d.queue = c.queue /\ d.jobs = c.jobs
    BY <1>2, <1>4, <1>7, <2>3 DEF Context
  <2>5. d.jobs \in Seq(Tasks) /\ Queues(d.queue)
    BY <2>4 DEF Ctx
  <2>6. \A t \in Peers(q) : d.queue[<<q, t>>] = Context(q).queue[<<q, t>>]
    <3>1. \A t \in Peers(q) : <<q, t>> \in Intfs /\ <<q, t>>[1] # r
      BY <1>7, IntfPair
    <3>2. Context(q).queue = Context(r).queue
      BY DEF Context
    <3> QED BY <2>4, <3>1, <3>2 DEF Keeps
  <2>7. Ctx(d, q, self[q], NULL)
    BY <2>1, <2>4, <2>5, <2>6, CtxMoved
  <2>8. Told(heap[q], c.jobs, q, life[q], self[q], seqNo[q], recon[q])
    <3>1. Gen(q) \in ToSet(jobs) => Gen(q) \in ToSet(c.jobs)
      BY <1>7 DEF Keeps, Context
    <3> QED BY <2>2, <3>1 DEF Told
  <2> QED BY <1>2, <1>4, <1>7, <2>3, <2>7, <2>8 DEF Local
<1> QED BY <1>5, <1>6, <1>7 DEF RInv

------------------------------------------------------------------------------
(* Lookups, jobs and steps that leave the objects alone *)

LEMMA LookupIs ==
  ASSUME FloodingAssumption, NEW h, NEW m, Sound(h, m), NEW o, NEW p, p = Lookup(h, o)
  PROVE  /\ p = NULL => \A k \in Installed(h) : h[k].own # o
         /\ p # NULL => /\ p \in Installed(h) /\ p \in DOMAIN h /\ h[p].own = o
                        /\ \A k \in Installed(h) : h[k].own = o => k = p
<1> DEFINE found == {k \in DOMAIN h : h[k].db /\ h[k].own = o}
<1>1. p = IF found = {} THEN NULL ELSE CHOOSE k \in found : TRUE
  BY DEF Lookup
<1>2. \A k : k \in found <=> k \in Installed(h) /\ h[k].own = o
  BY DEF Installed
<1>3. \A i, k \in found : i = k
  BY DEF Sound, DbOnce
<1>4. DOMAIN h \subseteq Addr /\ NULL \notin Addr /\ found \subseteq DOMAIN h
  BY DEF Sound, Shape, FloodingAssumption, Addr
<1> HIDE DEF found
<1>5. found # {} => p \in found /\ p # NULL
  BY <1>1, <1>4
<1>6. found = {} => p = NULL
  BY <1>1
<1> QED BY <1>2, <1>3, <1>4, <1>5, <1>6

LEMMA TailKeeps ==
  ASSUME NEW js \in Seq(Tasks), js # << >>
  PROVE  /\ Tail(js) \in Seq(Tasks) /\ ToSet(Tail(js)) \subseteq ToSet(js)
         /\ \A j \in ToSet(js) : j # Head(js) => j \in ToSet(Tail(js))
         /\ Calm(Tail(js), js)
<1>1. /\ Tail(js) \in Seq(Tasks) /\ ToSet(Tail(js)) \subseteq ToSet(js)
      /\ ToSet(js) = ToSet(Tail(js)) \cup {Head(js)}
  BY TailElements
<1>2. Once(js, Pkts) => Once(Tail(js), Pkts)
  BY OnceTail
<1> QED BY <1>1, <1>2 DEF Calm

LEMMA JobsGrow ==
  ASSUME NEW js \in Seq(Tasks), NEW r \in Routers
  PROVE  /\ Generation(r, js) \in Seq(Tasks) /\ ToSet(js) \subseteq ToSet(Generation(r, js))
         /\ life[r] = "on" => Gen(r) \in ToSet(Generation(r, js))
         /\ Calm(Generation(r, js), js)
         /\ \A b : /\ SpfIf(b, r, js) \in Seq(Tasks) /\ ToSet(js) \subseteq ToSet(SpfIf(b, r, js))
                   /\ Calm(SpfIf(b, r, js), js)
<1>1. Gen(r) \in Tasks /\ Spf(r) \in Tasks /\ Gen(r) # Pkts /\ Spf(r) # Pkts
  BY TaskTypes, TasksDiffer
<1>2. /\ Post(js, Gen(r)) \in Seq(Tasks) /\ ToSet(Post(js, Gen(r))) = ToSet(js) \cup {Gen(r)}
      /\ Post(js, Spf(r)) \in Seq(Tasks) /\ ToSet(Post(js, Spf(r))) = ToSet(js) \cup {Spf(r)}
  BY <1>1, PostElements
<1>3. Calm(Post(js, Gen(r)), js) /\ Calm(Post(js, Spf(r)), js)
  <2>1. \A x : (Once(js, x) => Once(Post(js, Gen(r)), x)) /\ (Once(js, x) => Once(Post(js, Spf(r)), x))
    BY <1>1, PostElements
  <2> QED BY <1>1, <1>2, <2>1 DEF Calm
<1>4. Calm(js, js)
  BY CalmSteps
<1> QED BY <1>2, <1>3, <1>4 DEF Generation, SpfIf

\* From h to h2, objects and LSPs of the database may go.
LEMMA ToldKept ==
  ASSUME NEW r, NEW h, NEW js, NEW L, NEW s, NEW n, NEW R,
         Told(h, js, r, L, s, n, R),
         NEW h2, Of(h2, h), \A p \in Installed(h2) : p \in Installed(h),
         NEW s2, s2 = s \/ s2 = NULL, s2 # NULL => s2 \in DOMAIN h2,
         NEW n2, \A p \in Installed(h2) : h2[p].own = r => h2[p].seq <= n2,
         NEW L2, L2 = L \/ L2 = "stopping", NEW R2, R # "off" => R2 # "off", NEW js2,
         L2 = "on" => (Gen(r) \in ToSet(js) => Gen(r) \in ToSet(js2))
  PROVE  Told(h2, js2, r, L2, s2, n2, R2)
<1>1. \A p \in Installed(h2) : p \in DOMAIN h2
  BY DEF Installed
<1>2. \A p \in DOMAIN h2 : h2[p].own = h[p].own /\ h2[p].adjs = h[p].adjs /\ h2[p].tlv = h[p].tlv
  BY DEF Of, SameLsp
<1> QED BY <1>1, <1>2 DEF Told

LEMMA OfItself == \A h : Of(h, h)
BY SameItself DEF Of

LEMMA Parts ==
  ASSUME RInv, NEW r \in Routers
  PROVE  /\ TypeInv /\ Ctx(Context(r), r, self[r], NULL)
         /\ Told(heap[r], jobs, r, life[r], self[r], seqNo[r], recon[r])
         /\ Typed(life[r], self[r], seqNo[r], recon[r])
         /\ Queues(queue) /\ Sound(heap[r], Refs(r, queue, self[r], NULL))
         /\ jobs \in Seq(Tasks) /\ pending[r] \in Nat
         /\ life = [life EXCEPT ![r] = life[r]] /\ self = [self EXCEPT ![r] = self[r]]
         /\ seqNo = [seqNo EXCEPT ![r] = seqNo[r]] /\ recon = [recon EXCEPT ![r] = recon[r]]
         /\ heap = [heap EXCEPT ![r] = heap[r]]
         /\ pending = [pending EXCEPT ![r] = pending[r]]
<1>1. TypeInv /\ Ctx(Context(r), r, self[r], NULL)
      /\ Told(heap[r], jobs, r, life[r], self[r], seqNo[r], recon[r])
  BY DEF RInv, Local
<1>2. Typed(life[r], self[r], seqNo[r], recon[r]) /\ pending[r] \in Nat
  BY <1>1 DEF TypeInv, Typed
<1>3. /\ Queues(queue) /\ Sound(heap[r], Refs(r, queue, self[r], NULL))
      /\ jobs \in Seq(Tasks)
  BY <1>1 DEF Ctx, Context
<1>4. /\ life = [life EXCEPT ![r] = life[r]] /\ self = [self EXCEPT ![r] = self[r]]
      /\ seqNo = [seqNo EXCEPT ![r] = seqNo[r]] /\ recon = [recon EXCEPT ![r] = recon[r]]
  BY <1>1 DEF TypeInv
<1>5. heap = [heap EXCEPT ![r] = heap[r]] /\ pending = [pending EXCEPT ![r] = pending[r]]
  BY <1>1 DEF TypeInv
<1> QED BY <1>1, <1>2, <1>3, <1>4, <1>5

LEMMA SelfExists ==
  ASSUME FloodingAssumption, RInv, NEW r \in Routers, self[r] # NULL
  PROVE  self[r] \in Addr /\ self[r] \in DOMAIN heap[r]
<1>1. Ctx(Context(r), r, self[r], NULL) /\ self[r] \in Addr
  BY Parts DEF Typed
<1>2. self[r] \in DOMAIN Context(r).heap
  BY <1>1, Referred
<1> QED BY <1>1, <1>2 DEF Context

\* A step that leaves the objects and queues alone.
LEMMA JobsOnly ==
  ASSUME FloodingAssumption, RInv, Rest2, NEW r \in Routers, UNCHANGED <<heap, self, queue, pending>>,
         NEW L, NEW n, NEW R, Typed(L, self[r], n, R),
         life' = [life EXCEPT ![r] = L], seqNo' = [seqNo EXCEPT ![r] = n],
         recon' = [recon EXCEPT ![r] = R], jobs' \in Seq(Tasks),
         \A q \in Routers \ {r} : Gen(q) \in ToSet(jobs) => Gen(q) \in ToSet(jobs'),
         Told(heap[r], jobs', r, L, self[r], n, R)
  PROVE  RInv'
<1>1. PICK c : c = [Context(r) EXCEPT !.jobs = jobs']
  OBVIOUS
<1>2. /\ c.heap = heap[r] /\ c.queue = queue /\ c.pending = pending[r] /\ c.jobs = jobs'
      /\ Context(r).heap = heap[r] /\ Context(r).queue = queue /\ Context(r).pending = pending[r]
      /\ Context(r).jobs = jobs
  BY <1>1 DEF Context
<1>3. Ctx(Context(r), r, self[r], NULL)
  BY Parts
<1>4. Ctx(c, r, self[r], NULL)
  BY <1>2, <1>3 DEF Ctx
<1>5. Changed(r, c, L, self[r], n, R)
  <2>1. /\ heap = [heap EXCEPT ![r] = heap[r]] /\ pending = [pending EXCEPT ![r] = pending[r]]
        /\ self = [self EXCEPT ![r] = self[r]]
    BY Parts
  <2>2. Commit(r, c)
    BY <1>2, <2>1 DEF Commit
  <2> QED BY <2>1, <2>2 DEF Changed
<1>6. Keeps(c, Context(r), r)
  BY <1>2 DEF Keeps
<1>7. Told(c.heap, c.jobs, r, L, self[r], n, R)
  BY <1>2
<1>8. PICK s : s = self[r]
  OBVIOUS
<1> QED BY <1>4, <1>5, <1>6, <1>7, <1>8, Moves

\* Jobs are added, and reconciliation does not end.
LEMMA JobsMore ==
  ASSUME FloodingAssumption, RInv, Rest2, NEW r \in Routers,
         UNCHANGED <<life, heap, self, seqNo, queue, pending>>,
         NEW R \in {"off", "new", "flooded"}, recon' = [recon EXCEPT ![r] = R],
         recon[r] # "off" => R # "off", jobs' \in Seq(Tasks),
         \A q \in Routers : Gen(q) \in ToSet(jobs) => Gen(q) \in ToSet(jobs')
  PROVE  RInv'
<1>1. /\ Told(heap[r], jobs, r, life[r], self[r], seqNo[r], recon[r])
      /\ Typed(life[r], self[r], seqNo[r], recon[r])
      /\ life = [life EXCEPT ![r] = life[r]]
      /\ seqNo = [seqNo EXCEPT ![r] = seqNo[r]]
  BY Parts
<1>2. PICK L, n : L = life[r] /\ n = seqNo[r]
  OBVIOUS
<1>3. Typed(L, self[r], n, R)
  BY <1>1, <1>2 DEF Typed
<1>4. Told(heap[r], jobs', r, L, self[r], n, R)
  BY <1>1, <1>2 DEF Told
<1>5. /\ life' = [life EXCEPT ![r] = L] /\ seqNo' = [seqNo EXCEPT ![r] = n]
  BY <1>1, <1>2
<1> QED BY <1>3, <1>4, <1>5, JobsOnly

LEMMA AdjTyped ==
  ASSUME FloodingAssumption, RInv, NEW r \in Routers, NEW s \in Peers(r),
         NEW a \in {"none", "DOWN", "UP"}, SetAdj(r, s, a)
  PROVE  adj' \in [Intfs -> {"none", "DOWN", "UP"}]
BY DEF RInv, TypeInv, SetAdj

LEMMA AdjUpSafe ==
  ASSUME FloodingAssumption, RInv, NEW r \in Routers, NEW s \in Peers(r), AdjUp(r, s)
  PROVE  RInv' /\ Calm(jobs', jobs)
<1>1. TypeInv /\ jobs \in Seq(Tasks)
  BY Parts
<1>2. PICK R : R = IF (recon[r] = "off") = (UpPeers(r) = {}) THEN "new" ELSE recon[r]
  OBVIOUS
<1>3. R \in {"off", "new", "flooded"} /\ (recon[r] # "off" => R # "off")
  BY <1>1, <1>2 DEF TypeInv
<1>4. recon' = [recon EXCEPT ![r] = R]
  BY <1>2 DEF AdjUp
<1>5. jobs' \in Seq(Tasks) /\ ToSet(jobs) \subseteq ToSet(jobs') /\ Calm(jobs', jobs)
  BY <1>1, JobsGrow, CalmSteps DEF AdjUp
<1>6. Rest2
  BY <1>1, AdjTyped DEF Rest2, AdjUp, TypeInv
<1>7. UNCHANGED <<life, heap, self, seqNo, queue, pending>>
  BY DEF AdjUp
<1> QED BY <1>3, <1>4, <1>5, <1>6, <1>7, JobsMore

LEMMA AdjDownSafe ==
  ASSUME FloodingAssumption, RInv, NEW r \in Routers, NEW s \in Peers(r), AdjDown(r, s)
  PROVE  RInv' /\ Calm(jobs', jobs)
<1>1. TypeInv /\ jobs \in Seq(Tasks)
  BY Parts
<1>2. PICK R : R = IF recon[r] # "off" /\ UpPeers(r) # {s} THEN "new" ELSE recon[r]
  OBVIOUS
<1>3. R \in {"off", "new", "flooded"} /\ (recon[r] # "off" => R # "off")
  BY <1>1, <1>2 DEF TypeInv
<1>4. recon' = [recon EXCEPT ![r] = R]
  BY <1>2 DEF AdjDown
<1>5. jobs' \in Seq(Tasks) /\ ToSet(jobs) \subseteq ToSet(jobs') /\ Calm(jobs', jobs)
  BY <1>1, JobsGrow, CalmSteps DEF AdjDown
<1>6. Rest2
  BY <1>1, AdjTyped DEF Rest2, AdjDown, TypeInv
<1>7. UNCHANGED <<life, heap, self, seqNo, queue, pending>>
  BY DEF AdjDown
<1> QED BY <1>3, <1>4, <1>5, <1>6, <1>7, JobsMore

\* Steps that end no reconciliation and add jobs at most.
LEMMA QuietSafe ==
  ASSUME FloodingAssumption, RInv, NEW r \in Routers,
         \/ \E s \in Peers(r) : AdjDelete(r, s)
         \/ ReconFlood(r) \/ Refresh(r) \/ EnableAll(r)
  PROVE  RInv' /\ Calm(jobs', jobs)
<1>1. TypeInv /\ jobs \in Seq(Tasks) /\ recon = [recon EXCEPT ![r] = recon[r]]
  BY Parts
<1>2. PICK R : R = IF recon' = recon THEN recon[r] ELSE "flooded"
  OBVIOUS
<1>3. R \in {"off", "new", "flooded"} /\ (recon[r] # "off" => R # "off")
  BY <1>1, <1>2 DEF TypeInv
<1>4. recon' = [recon EXCEPT ![r] = R]
  <2>1. CASE recon' = recon
    BY <1>1, <1>2, <2>1
  <2>2. CASE recon' # recon
    <3>1. ReconFlood(r)
      BY <2>2 DEF AdjDelete, Refresh, EnableAll
    <3> QED BY <1>2, <2>2, <3>1 DEF ReconFlood
  <2> QED BY <2>1, <2>2
<1>5. jobs' \in Seq(Tasks) /\ ToSet(jobs) \subseteq ToSet(jobs') /\ Calm(jobs', jobs)
  <2>1. jobs' = jobs \/ jobs' = Generation(r, jobs)
    BY DEF AdjDelete, ReconFlood, Refresh, EnableAll
  <2> QED BY <1>1, <2>1, JobsGrow, CalmSteps
<1>6. Rest2
  <2>1. adj' \in [Intfs -> {"none", "DOWN", "UP"}]
    BY <1>1, AdjTyped DEF AdjDelete, ReconFlood, Refresh, EnableAll, TypeInv
  <2>2. enabled' \in [Intfs -> BOOLEAN]
    <3>1. enabled \in [Intfs -> BOOLEAN]
      BY <1>1 DEF TypeInv
    <3>2. enabled' = enabled \/ enabled' = [i \in Intfs |-> enabled[i] \/ i[1] = r]
      BY DEF AdjDelete, ReconFlood, Refresh, EnableAll
    <3>3. \A i \in Intfs : (enabled[i] \/ i[1] = r) \in BOOLEAN
      OBVIOUS
    <3> QED BY ONLY <3>1, <3>2, <3>3
  <2>3. stack' \in Seq(Packets) /\ broken' \in {"no", "assert", "null"}
    BY <1>1 DEF AdjDelete, ReconFlood, Refresh, EnableAll, TypeInv
  <2> QED BY <2>1, <2>2, <2>3 DEF Rest2
<1>7. UNCHANGED <<life, heap, self, seqNo, queue, pending>>
  BY DEF AdjDelete, ReconFlood, Refresh, EnableAll
<1> QED BY <1>3, <1>4, <1>5, <1>6, <1>7, JobsMore

LEMMA ReconExitSafe ==
  ASSUME FloodingAssumption, RInv, NEW r \in Routers, ReconExit(r)
  PROVE  RInv' /\ Calm(jobs', jobs)
<1>1. /\ TypeInv /\ jobs \in Seq(Tasks)
      /\ Told(heap[r], jobs, r, life[r], self[r], seqNo[r], recon[r])
      /\ Typed(life[r], self[r], seqNo[r], recon[r])
      /\ life = [life EXCEPT ![r] = life[r]]
      /\ seqNo = [seqNo EXCEPT ![r] = seqNo[r]]
  BY Parts
<1>2. PICK L, n, R : L = life[r] /\ n = seqNo[r] /\ R = "off"
  OBVIOUS
<1>3. /\ jobs' \in Seq(Tasks) /\ ToSet(jobs) \subseteq ToSet(jobs') /\ Calm(jobs', jobs)
      /\ Gen(r) \in ToSet(jobs')
  BY <1>1, JobsGrow DEF ReconExit
<1>4. Rest2
  BY <1>1 DEF Rest2, ReconExit, TypeInv
<1>5. Typed(L, self[r], n, R)
  BY <1>1, <1>2 DEF Typed
<1>6. Told(heap[r], jobs', r, L, self[r], n, R)
  BY <1>1, <1>2, <1>3 DEF Told
<1>7. /\ life' = [life EXCEPT ![r] = L] /\ seqNo' = [seqNo EXCEPT ![r] = n]
      /\ recon' = [recon EXCEPT ![r] = R]
      /\ UNCHANGED <<heap, self, queue, pending>>
  BY <1>1, <1>2 DEF ReconExit
<1> QED BY <1>3, <1>4, <1>5, <1>6, <1>7, JobsOnly

\* ISIS starts with a database that holds nothing of others.
LEMMA StartSafe ==
  ASSUME FloodingAssumption, RInv, NEW r \in Routers, Start(r)
  PROVE  RInv' /\ Calm(jobs', jobs)
<1>1. /\ TypeInv /\ jobs \in Seq(Tasks)
      /\ Told(heap[r], jobs, r, life[r], self[r], seqNo[r], recon[r])
      /\ Typed(life[r], self[r], seqNo[r], recon[r])
      /\ recon = [recon EXCEPT ![r] = recon[r]]
      /\ seqNo = [seqNo EXCEPT ![r] = seqNo[r]]
  BY Parts
<1>2. PICK L, n, R : L = "on" /\ n = seqNo[r] /\ R = recon[r]
  OBVIOUS
<1>3. /\ jobs' \in Seq(Tasks) /\ ToSet(jobs) \subseteq ToSet(jobs') /\ Calm(jobs', jobs)
      /\ Gen(r) \in ToSet(jobs')
  <2>1. Gen(r) \in Tasks /\ Gen(r) # Pkts /\ jobs' = Post(jobs, Gen(r))
    BY TaskTypes, TasksDiffer DEF Start
  <2>2. /\ jobs' \in Seq(Tasks) /\ ToSet(jobs') = ToSet(jobs) \cup {Gen(r)}
        /\ \A x : Once(jobs, x) => Once(jobs', x)
    BY <1>1, <2>1, PostElements
  <2> QED BY <2>1, <2>2 DEF Calm
<1>4. Rest2
  BY <1>1 DEF Rest2, Start, TypeInv
<1>5. Typed(L, self[r], n, R)
  BY <1>1, <1>2 DEF Typed
<1>6. Told(heap[r], jobs', r, L, self[r], n, R)
  BY <1>1, <1>2, <1>3 DEF Told, Start
<1>7. /\ life' = [life EXCEPT ![r] = L] /\ seqNo' = [seqNo EXCEPT ![r] = n]
      /\ recon' = [recon EXCEPT ![r] = R]
      /\ UNCHANGED <<heap, self, queue, pending>>
  BY <1>1, <1>2 DEF Start
<1> QED BY <1>3, <1>4, <1>5, <1>6, <1>7, JobsOnly

LEMMA RunSpfSafe ==
  ASSUME FloodingAssumption, RInv, NEW r \in Routers, RunSpf(r)
  PROVE  RInv' /\ Calm(jobs', jobs)
<1>1. /\ TypeInv /\ jobs \in Seq(Tasks)
      /\ Told(heap[r], jobs, r, life[r], self[r], seqNo[r], recon[r])
      /\ Typed(life[r], self[r], seqNo[r], recon[r])
      /\ life = [life EXCEPT ![r] = life[r]] /\ recon = [recon EXCEPT ![r] = recon[r]]
      /\ seqNo = [seqNo EXCEPT ![r] = seqNo[r]]
  BY Parts
<1>2. PICK L, n, R : L = life[r] /\ n = seqNo[r] /\ R = recon[r]
  OBVIOUS
<1>3. /\ jobs' \in Seq(Tasks) /\ Calm(jobs', jobs)
      /\ \A j \in ToSet(jobs) : j # Spf(r) => j \in ToSet(jobs')
  BY <1>1, TailKeeps DEF RunSpf
<1>4. Rest2
  BY <1>1 DEF Rest2, RunSpf, TypeInv
<1>5. Typed(L, self[r], n, R)
  BY <1>1, <1>2 DEF Typed
<1>6. Told(heap[r], jobs', r, L, self[r], n, R)
  <2>1. Gen(r) \in ToSet(jobs) => Gen(r) \in ToSet(jobs')
    BY <1>3, TasksDiffer
  <2> QED BY <1>1, <1>2, <2>1 DEF Told
<1>7. /\ life' = [life EXCEPT ![r] = L] /\ seqNo' = [seqNo EXCEPT ![r] = n]
      /\ recon' = [recon EXCEPT ![r] = R]
      /\ UNCHANGED <<heap, self, queue, pending>>
  BY <1>1, <1>2 DEF RunSpf
<1>8. \A q \in Routers \ {r} : Gen(q) # Spf(r)
  BY TasksDiffer
<1> QED BY <1>3, <1>4, <1>5, <1>6, <1>7, <1>8, JobsOnly

\* A step that takes objects away and leaves the queues alone.
LEMMA HeapOnly ==
  ASSUME FloodingAssumption, RInv, Rest2, NEW r \in Routers,
         UNCHANGED <<life, self, queue, pending>>,
         NEW h, heap' = [heap EXCEPT ![r] = h], Sound(h, Refs(r, queue, self[r], NULL)),
         Of(h, heap[r]), \A p \in Installed(h) : p \in Installed(heap[r]),
         NEW n \in Nat, seqNo' = [seqNo EXCEPT ![r] = n],
         \A p \in Installed(h) : h[p].own = r => h[p].seq <= n,
         NEW R \in {"off", "new", "flooded"}, recon' = [recon EXCEPT ![r] = R],
         recon[r] # "off" => R # "off", jobs' \in Seq(Tasks),
         \A q \in Routers : Gen(q) \in ToSet(jobs) => Gen(q) \in ToSet(jobs')
  PROVE  RInv'
<1>1. /\ Told(heap[r], jobs, r, life[r], self[r], seqNo[r], recon[r])
      /\ Typed(life[r], self[r], seqNo[r], recon[r])
      /\ life = [life EXCEPT ![r] = life[r]] /\ self = [self EXCEPT ![r] = self[r]]
      /\ pending = [pending EXCEPT ![r] = pending[r]]
      /\ Ctx(Context(r), r, self[r], NULL)
  BY Parts
<1>2. PICK L, s : L = life[r] /\ s = self[r]
  OBVIOUS
<1>3. PICK c : c = [heap |-> h, queue |-> queue, pending |-> pending[r], jobs |-> jobs']
  OBVIOUS
<1>4. /\ c.heap = h /\ c.queue = queue /\ c.pending = pending[r] /\ c.jobs = jobs'
      /\ Context(r).queue = queue /\ Context(r).pending = pending[r] /\ Context(r).jobs = jobs
  BY <1>3 DEF Context
<1>5. Ctx(c, r, s, NULL)
  BY <1>1, <1>2, <1>4 DEF Ctx
<1>6. Changed(r, c, L, s, n, R)
  <2>1. Commit(r, c)
    BY <1>1, <1>4 DEF Commit
  <2> QED BY <1>1, <1>2, <2>1 DEF Changed
<1>7. Typed(L, s, n, R)
  BY <1>1, <1>2 DEF Typed
<1>8. Keeps(c, Context(r), r)
  BY <1>4 DEF Keeps
<1>9. s # NULL => s \in DOMAIN h
  <2>1. ASSUME s # NULL PROVE s \in DOMAIN c.heap
    <3>1. s \in Addr
      BY <1>7, <2>1 DEF Typed
    <3> QED BY <1>5, <3>1, Referred
  <2> QED BY <1>4, <2>1
<1>10. Told(h, jobs', r, L, s, n, R)
  <2>1. Told(heap[r], jobs, r, L, s, seqNo[r], recon[r])
    BY <1>1, <1>2
  <2> QED BY <1>9, <2>1, ToldKept
<1> QED BY <1>4, <1>5, <1>6, <1>7, <1>8, <1>10, Moves

LEMMA ExpireSafe ==
  ASSUME FloodingAssumption, RInv, NEW r \in Routers, NEW o \in Routers, Expire(r, o)
  PROVE  RInv' /\ Calm(jobs', jobs)
<1>1. /\ TypeInv /\ jobs \in Seq(Tasks) /\ Sound(heap[r], Refs(r, queue, self[r], NULL))
      /\ Told(heap[r], jobs, r, life[r], self[r], seqNo[r], recon[r])
      /\ Typed(life[r], self[r], seqNo[r], recon[r])
      /\ seqNo = [seqNo EXCEPT ![r] = seqNo[r]] /\ recon = [recon EXCEPT ![r] = recon[r]]
  BY Parts
<1>2. PICK p : p = Lookup(heap[r], o)
  OBVIOUS
<1>3. p # NULL /\ heap' = [heap EXCEPT ![r] = Remove1(heap[r], p)]
  BY <1>2 DEF Expire
<1>4. p \in Installed(heap[r])
  BY <1>1, <1>2, <1>3, LookupIs
<1>5. PICK h, n, R : h = Remove1(heap[r], p) /\ n = seqNo[r] /\ R = recon[r]
  OBVIOUS
<1>6. /\ Sound(h, Refs(r, queue, self[r], NULL)) /\ Of(h, heap[r])
      /\ Installed(h) = Installed(heap[r]) \ {p}
  BY <1>1, <1>4, <1>5, Remove1Sound
<1>7. \A k \in Installed(h) : h[k].own = r => h[k].seq <= n
  BY <1>1, <1>5, <1>6 DEF Told, Of, SameLsp, Installed
<1>8. Rest2
  BY <1>1 DEF Rest2, Expire, TypeInv
<1>9. n \in Nat /\ R \in {"off", "new", "flooded"}
  BY <1>1, <1>5 DEF Typed
<1>10. /\ heap' = [heap EXCEPT ![r] = h] /\ seqNo' = [seqNo EXCEPT ![r] = n]
       /\ recon' = [recon EXCEPT ![r] = R] /\ jobs' = jobs
       /\ UNCHANGED <<life, self, queue, pending>>
  BY <1>1, <1>3, <1>5 DEF Expire
<1>11. RInv'
  BY <1>1, <1>5, <1>6, <1>7, <1>8, <1>9, <1>10, HeapOnly
<1> QED BY <1>10, <1>11, CalmSteps

LEMMA ClearSafe ==
  ASSUME FloodingAssumption, RInv, NEW r \in Routers, Clear(r)
  PROVE  RInv' /\ Calm(jobs', jobs)
<1>1. /\ TypeInv /\ jobs \in Seq(Tasks) /\ Sound(heap[r], Refs(r, queue, self[r], NULL))
  BY Parts
<1>2. PICK h, n, R : /\ h = EmptyDb(heap[r]) /\ n = 0
                     /\ R = IF recon[r] = "off" THEN "new" ELSE recon[r]
  OBVIOUS
<1>3. /\ Sound(h, Refs(r, queue, self[r], NULL)) /\ Of(h, heap[r])
      /\ Installed(h) = {}
  BY <1>1, <1>2, EmptyDbSound
<1>4. Rest2
  BY <1>1 DEF Rest2, Clear, TypeInv
<1>5. n \in Nat /\ R \in {"off", "new", "flooded"} /\ (recon[r] # "off" => R # "off")
  BY <1>1, <1>2 DEF TypeInv
<1>6. /\ heap' = [heap EXCEPT ![r] = h] /\ seqNo' = [seqNo EXCEPT ![r] = n]
      /\ recon' = [recon EXCEPT ![r] = R]
      /\ UNCHANGED <<life, self, queue, pending>>
  BY <1>2 DEF Clear
<1>7. jobs' \in Seq(Tasks) /\ ToSet(jobs) \subseteq ToSet(jobs') /\ Calm(jobs', jobs)
  <2>1. jobs' = jobs \/ jobs' = Generation(r, jobs)
    BY DEF Clear
  <2> QED BY <1>1, <2>1, JobsGrow, CalmSteps
<1>8. RInv'
  BY <1>3, <1>4, <1>5, <1>6, <1>7, HeapOnly
<1> QED BY <1>7, <1>8

------------------------------------------------------------------------------
(* Queues that are sent or given up, and shutdown *)

LEMMA DrainSound ==
  ASSUME FloodingAssumption, RInv, NEW r \in Routers, NEW s \in Peers(r),
         NEW h, h = DerefAll(heap[r], queue[<<r, s>>]),
         NEW q, Drained(q, queue, r, s)
  PROVE  /\ Queues(q) /\ Sound(h, Refs(r, q, self[r], NULL))
         /\ Of(h, heap[r]) /\ Installed(h) = Installed(heap[r])
         /\ Len(queue[<<r, s>>]) \in Nat /\ Cardinality(Places(q, r)) \in Nat
         /\ Cardinality(Places(q, r)) + Len(queue[<<r, s>>]) <= pending[r]
         /\ \A i \in Intfs : i[1] # r => q[i] = queue[i]
<1> DEFINE n == [p \in DOMAIN heap[r] |-> Cardinality(PlacesOf(queue[<<r, s>>], p))]
           m == Refs(r, queue, self[r], NULL)
           m2 == Refs(r, q, self[r], NULL)
<1> HIDE DEF n, m, m2
<1>1. /\ Queues(queue) /\ Sound(heap[r], m) /\ Ctx(Context(r), r, self[r], NULL)
  BY Parts DEF m
<1>2. /\ Queues(q) /\ Len(queue[<<r, s>>]) \in Nat
      /\ Cardinality(Places(q, r)) + Len(queue[<<r, s>>]) = Cardinality(Places(queue, r))
      /\ \A a : /\ Cardinality(PlacesOf(queue[<<r, s>>], a)) \in Nat
                /\ Cardinality(Waiting(q, r, a)) + Cardinality(PlacesOf(queue[<<r, s>>], a))
                     = Cardinality(Waiting(queue, r, a))
  BY <1>1, DrainedWaiting
<1>3. /\ m \in [Addr -> Nat] /\ m2 \in [Addr -> Nat]
      /\ \A a \in Addr : m[a] = m2[a] + Cardinality(PlacesOf(queue[<<r, s>>], a))
  <2>1. /\ m \in [Addr -> Nat]
        /\ \A a \in Addr : m[a] = (IF self[r] = a THEN 1 ELSE 0) + (IF NULL = a THEN 1 ELSE 0)
                                    + Cardinality(Waiting(queue, r, a))
    BY <1>1, RefsAre DEF m
  <2>2. /\ m2 \in [Addr -> Nat]
        /\ \A a \in Addr : m2[a] = (IF self[r] = a THEN 1 ELSE 0) + (IF NULL = a THEN 1 ELSE 0)
                                    + Cardinality(Waiting(q, r, a))
        /\ \A a : Cardinality(Waiting(q, r, a)) \in Nat
    <3>1. Queues(q)
      BY <1>2
    <3> QED BY <3>1, RefsAre DEF m2
  <2>3. ASSUME NEW a \in Addr PROVE m[a] = m2[a] + Cardinality(PlacesOf(queue[<<r, s>>], a))
    <3>1. /\ m[a] = (IF self[r] = a THEN 1 ELSE 0) + (IF NULL = a THEN 1 ELSE 0)
                      + Cardinality(Waiting(queue, r, a))
          /\ m2[a] = (IF self[r] = a THEN 1 ELSE 0) + (IF NULL = a THEN 1 ELSE 0)
                      + Cardinality(Waiting(q, r, a))
          /\ Cardinality(Waiting(q, r, a)) \in Nat
      BY <2>1, <2>2
    <3>2. /\ Cardinality(PlacesOf(queue[<<r, s>>], a)) \in Nat
          /\ Cardinality(Waiting(q, r, a)) + Cardinality(PlacesOf(queue[<<r, s>>], a)) = Cardinality(Waiting(queue, r, a))
      BY <1>2
    <3> QED BY ONLY <3>1, <3>2
  <2> QED BY <2>1, <2>2, <2>3
<1>4. DOMAIN heap[r] \subseteq Addr /\ \A p \in DOMAIN heap[r] : heap[r][p] \in Lsps
  BY <1>1 DEF Sound, Shape
<1>5. Marked(heap[r], heap[r])
  BY <1>4, SameItself DEF Marked
<1>6. Balanced(heap[r], heap[r], m, n, m2)
  <2>1. ASSUME NEW p \in DOMAIN heap[r]
        PROVE  n[p] \in Nat /\ m[p] + Bit(heap[r][p].db) = m2[p] + Bit(heap[r][p].db) + n[p]
    <3>1. n[p] = Cardinality(PlacesOf(queue[<<r, s>>], p)) /\ n[p] \in Nat
      BY <1>2 DEF n
    <3>2. m[p] = m2[p] + n[p] /\ m2[p] \in Nat /\ m[p] \in Nat
      BY <1>3, <1>4, <3>1
    <3>3. Bit(heap[r][p].db) \in Nat
      BY DEF Bit
    <3> QED BY ONLY <3>1, <3>2, <3>3
  <2>2. ASSUME NEW a \in Addr \ DOMAIN heap[r] PROVE m2[a] = 0
    <3>1. m[a] = 0
      BY <1>1, <1>3 DEF Sound, Backed
    <3>2. m[a] = m2[a] + Cardinality(PlacesOf(queue[<<r, s>>], a)) /\ m2[a] \in Nat /\ Cardinality(PlacesOf(queue[<<r, s>>], a)) \in Nat
      BY <1>2, <1>3
    <3> QED BY ONLY <3>1, <3>2
  <2> QED BY <1>3, <2>1, <2>2 DEF Balanced
<1>7. h = GiveUp(heap[r], n)
  BY DEF DerefAll, PlacesOf, n
<1>8. /\ Sound(h, m2) /\ Of(h, heap[r])
      /\ Installed(h) = {p \in DOMAIN heap[r] : heap[r][p].db}
  BY <1>1, <1>5, <1>6, <1>7, GiveUpSound
<1>9. Cardinality(Places(q, r)) \in Nat
  BY <1>2, PlacesFinite
<1>10. Cardinality(Places(queue, r)) <= pending[r]
  BY <1>1 DEF Ctx, Context
<1>11. \A i \in Intfs : i[1] # r => q[i] = queue[i]
  BY <1>1 DEF Queues, Drained
<1> QED BY <1>2, <1>8, <1>9, <1>10, <1>11 DEF Installed, m2

LEMMA DrainedStep ==
  ASSUME FloodingAssumption, RInv, Rest2, NEW r \in Routers, NEW s \in Peers(r),
         UNCHANGED <<life, self, seqNo, recon>>,
         heap' = [heap EXCEPT ![r] = DerefAll(heap[r], queue[<<r, s>>])],
         queue' = [queue EXCEPT ![<<r, s>>] = << >>],
         NEW n, n = pending[r] \/ n = pending[r] - Len(queue[<<r, s>>]),
         pending' = [pending EXCEPT ![r] = n], jobs' \in Seq(Tasks),
         \A q \in Routers : Gen(q) \in ToSet(jobs) => Gen(q) \in ToSet(jobs')
  PROVE  RInv'
<1>1. /\ Told(heap[r], jobs, r, life[r], self[r], seqNo[r], recon[r])
      /\ Typed(life[r], self[r], seqNo[r], recon[r])
      /\ life = [life EXCEPT ![r] = life[r]] /\ self = [self EXCEPT ![r] = self[r]]
      /\ seqNo = [seqNo EXCEPT ![r] = seqNo[r]] /\ recon = [recon EXCEPT ![r] = recon[r]]
      /\ pending[r] \in Nat
  BY Parts
<1>2. PICK L, m, R, o : /\ L = life[r] /\ o = self[r] /\ m = seqNo[r] /\ R = recon[r]
  OBVIOUS
<1>3. PICK h, q : /\ h = DerefAll(heap[r], queue[<<r, s>>])
                  /\ q = [queue EXCEPT ![<<r, s>>] = << >>]
  OBVIOUS
<1>4. /\ Queues(q) /\ Sound(h, Refs(r, q, o, NULL))
      /\ Of(h, heap[r]) /\ Installed(h) = Installed(heap[r])
      /\ Len(queue[<<r, s>>]) \in Nat /\ Cardinality(Places(q, r)) \in Nat
      /\ Cardinality(Places(q, r)) + Len(queue[<<r, s>>]) <= pending[r]
      /\ \A i \in Intfs : i[1] # r => q[i] = queue[i]
  <2>1. Drained(q, queue, r, s)
    BY <1>3 DEF Drained
  <2> QED BY <1>2, <1>3, <2>1, DrainSound
<1>5. PICK c : c = [heap |-> h, queue |-> q, pending |-> n, jobs |-> jobs']
  OBVIOUS
<1>6. /\ c.heap = h /\ c.queue = q /\ c.pending = n /\ c.jobs = jobs'
      /\ Context(r).queue = queue /\ Context(r).jobs = jobs
  BY <1>5 DEF Context
<1>7. n \in Nat /\ Cardinality(Places(q, r)) <= n
  BY <1>1, <1>4
<1>8. Ctx(c, r, o, NULL)
  BY <1>4, <1>6, <1>7 DEF Ctx
<1>9. Changed(r, c, L, o, m, R)
  <2>1. Commit(r, c)
    BY <1>3, <1>6 DEF Commit
  <2> QED BY <1>1, <1>2, <2>1 DEF Changed
<1>10. Typed(L, o, m, R)
  BY <1>1, <1>2 DEF Typed
<1>11. Keeps(c, Context(r), r)
  BY <1>4, <1>6 DEF Keeps
<1>12. o # NULL => o \in DOMAIN h
  <2>1. ASSUME o # NULL PROVE o \in DOMAIN c.heap
    <3>1. o \in Addr
      BY <1>10, <2>1 DEF Typed
    <3> QED BY <1>8, <3>1, Referred
  <2> QED BY <1>6, <2>1
<1>13. Told(h, jobs', r, L, o, m, R)
  <2>1. Told(heap[r], jobs, r, L, o, m, R)
    BY <1>1, <1>2
  <2>2. \A k \in Installed(h) : h[k].own = r => h[k].seq <= m
    BY <1>4, <2>1 DEF Told, Of, SameLsp, Installed
  <2>3. \A k \in Installed(h) : k \in Installed(heap[r])
    BY <1>4
  <2>4. Of(h, heap[r])
    BY <1>4
  <2>5. L = L \/ L = "stopping"
    OBVIOUS
  <2>6. Gen(r) \in ToSet(jobs) => Gen(r) \in ToSet(jobs')
    OBVIOUS
  <2> QED BY <1>12, <2>1, <2>2, <2>3, <2>4, <2>5, <2>6, ToldKept
<1> QED BY <1>6, <1>8, <1>9, <1>10, <1>11, <1>13, Moves

LEMMA WithoutTasks ==
  ASSUME NEW js \in Seq(Tasks), NEW J
  PROVE  /\ Without(js, J) \in Seq(Tasks) /\ Calm(Without(js, J), js)
         /\ \A j : j \in ToSet(Without(js, J)) <=> j \in ToSet(js) /\ j \notin J
<1>1. /\ Without(js, J) \in Seq(Tasks)
      /\ \A j : j \in ToSet(Without(js, J)) <=> j \in ToSet(js) /\ j \notin J
  BY WithoutElements
<1>2. Once(js, Pkts) => Once(Without(js, J), Pkts)
  BY OnceWithout
<1> QED BY <1>1, <1>2 DEF Calm

LEMMA DisableIntfSafe ==
  ASSUME FloodingAssumption, RInv, NEW r \in Routers, NEW s \in Peers(r), DisableIntf(r, s)
  PROVE  RInv' /\ Calm(jobs', jobs)
<1>1. /\ TypeInv /\ jobs \in Seq(Tasks) /\ pending = [pending EXCEPT ![r] = pending[r]]
  BY Parts
<1>2. /\ heap' = [heap EXCEPT ![r] = DerefAll(heap[r], queue[<<r, s>>])]
      /\ queue' = [queue EXCEPT ![<<r, s>>] = << >>]
      /\ UNCHANGED <<life, self, seqNo, recon, pending, stack, broken>>
      /\ jobs' = Without(jobs, {Xmit(r, s)})
      /\ enabled' = [enabled EXCEPT ![<<r, s>>] = FALSE] /\ SetAdj(r, s, "none")
  BY DEF DisableIntf
<1>3. /\ jobs' \in Seq(Tasks) /\ Calm(jobs', jobs)
      /\ \A j \in ToSet(jobs) : j # Xmit(r, s) => j \in ToSet(jobs')
  BY <1>1, <1>2, WithoutTasks
<1>4. Rest2
  BY <1>1, <1>2, AdjTyped DEF Rest2, TypeInv
<1>5. PICK n : n = pending[r]
  OBVIOUS
<1>6. \A q \in Routers : Gen(q) # Xmit(r, s)
  BY TasksDiffer
<1>7. RInv'
  BY <1>1, <1>2, <1>3, <1>4, <1>5, <1>6, DrainedStep
<1> QED BY <1>3, <1>7

\* All references of the router are given up: nothing is left.
LEMMA ShutdownNowSafe ==
  ASSUME FloodingAssumption, RInv, NEW r \in Routers, NEW js \in Seq(Tasks),
         ShutdownNow(r, js), stack' \in Seq(Packets),
         \A q \in Routers \ {r} : Gen(q) \in ToSet(jobs) => Gen(q) \in ToSet(js)
  PROVE  RInv' /\ Calm(jobs', js)
<1> DEFINE g == [p \in DOMAIN heap[r] |-> [heap[r][p] EXCEPT !.db = FALSE]]
           n == [p \in DOMAIN heap[r] |-> Held(r, p)]
           h == GiveUp(g, n)
           q == [i \in Intfs |-> IF i[1] = r THEN << >> ELSE queue[i]]
           m == Refs(r, queue, self[r], NULL)
           m2 == Refs(r, q, NULL, NULL)
<1>0. heap' = [heap EXCEPT ![r] = h]
  BY DEF ShutdownNow
<1>0a. queue' = q /\ pending' = [pending EXCEPT ![r] = 0]
  BY DEF ShutdownNow
<1>0b. /\ life' = [life EXCEPT ![r] = "off"] /\ self' = [self EXCEPT ![r] = NULL]
       /\ seqNo' = [seqNo EXCEPT ![r] = 0] /\ recon' = [recon EXCEPT ![r] = "off"]
  BY DEF ShutdownNow
<1>1. /\ TypeInv /\ jobs \in Seq(Tasks) /\ Queues(queue) /\ Sound(heap[r], m)
  BY Parts
<1> HIDE DEF m
<1>2. /\ Queues(q) /\ Cardinality(Places(q, r)) = 0
      /\ \A a : Cardinality(Waiting(q, r, a)) = 0
  BY <1>1, EmptiedWaiting
<1>3. ASSUME NEW p \in DOMAIN heap[r]
      PROVE  /\ g[p] \in Lsps /\ SameLsp(g[p], heap[r][p]) /\ g[p].ref = heap[r][p].ref
             /\ g[p].db = FALSE
  <2>1. heap[r][p] \in Lsps /\ g[p] = [heap[r][p] EXCEPT !.db = FALSE]
    BY <1>1 DEF Sound, Shape
  <2> QED BY <2>1, DbOff
<1>4. Marked(heap[r], g)
  <2>1. DOMAIN g = DOMAIN heap[r]
    OBVIOUS
  <2> HIDE DEF g
  <2> QED BY <1>3, <2>1 DEF Marked
<1>5. m2 \in [Addr -> Nat] /\ \A a \in Addr : m2[a] = 0
  <2>1. NULL \notin Addr
    BY DEF FloodingAssumption, Addr
  <2>2. Queues(q)
    BY <1>2
  <2>3. /\ m2 \in [Addr -> Nat]
        /\ \A a \in Addr : m2[a] = (IF NULL = a THEN 1 ELSE 0) + (IF NULL = a THEN 1 ELSE 0)
                                    + Cardinality(Waiting(q, r, a))
    <3> HIDE DEF q
    <3> QED BY <2>2, RefsAre
  <2> HIDE DEF q, m2
  <2> QED BY <1>2, <2>1, <2>3, Z3
<1>6. Balanced(heap[r], g, m, n, m2)
  <2>1. ASSUME NEW p \in DOMAIN heap[r]
        PROVE  n[p] \in Nat /\ m[p] + Bit(heap[r][p].db) = m2[p] + Bit(g[p].db) + n[p]
    <3>1. p \in Addr /\ p # NULL
      BY <1>1 DEF Sound, Shape, FloodingAssumption, Addr
    <3>2. /\ m[p] = (IF self[r] = p THEN 1 ELSE 0) + (IF NULL = p THEN 1 ELSE 0)
                     + Cardinality(Waiting(queue, r, p))
          /\ Cardinality(Waiting(queue, r, p)) \in Nat
      BY <1>1, <3>1, RefsAre DEF m
    <3>3. n[p] = (IF self[r] = p THEN 1 ELSE 0) + Bit(heap[r][p].db)
                   + Cardinality(Waiting(queue, r, p))
      <4>1. n[p] = Held(r, p)
        OBVIOUS
      <4> HIDE DEF n
      <4> QED BY <4>1 DEF Held, Bit
    <3>4. Bit(heap[r][p].db) \in Nat /\ Bit(g[p].db) = 0 /\ m2[p] = 0
      <4>1. Bit(heap[r][p].db) \in Nat
        BY DEF Bit
      <4>2. Bit(g[p].db) = 0
        BY <1>3 DEF Bit
      <4>3. m2[p] = 0
        BY <1>5, <3>1
      <4> QED BY <4>1, <4>2, <4>3
    <3> HIDE DEF g, n, m2
    <3> QED BY ONLY <3>1, <3>2, <3>3, <3>4
  <2> HIDE DEF g, n, m2
  <2> QED BY <1>5, <2>1 DEF Balanced
<1> HIDE DEF g, n, m2
<1>7. Sound(h, m2) /\ Of(h, heap[r]) /\ Installed(h) = {}
  <2>1. Installed(h) = {p \in DOMAIN heap[r] : g[p].db} /\ Sound(h, m2) /\ Of(h, heap[r])
    BY <1>1, <1>4, <1>6, GiveUpSound
  <2> QED BY <1>3, <2>1
<1>8. /\ jobs' \in Seq(Tasks) /\ Calm(jobs', js)
      /\ \A j : j \in ToSet(js) /\ j \notin {Xmit(r, s) : s \in Routers} => j \in ToSet(jobs')
  <2>1. jobs' = Without(js, {Xmit(r, s) : s \in Routers})
    BY DEF ShutdownNow
  <2> QED BY <2>1, WithoutTasks
<1> HIDE DEF h, q
<1>9. PICK c : c = [heap |-> h, queue |-> q, pending |-> 0, jobs |-> jobs']
  OBVIOUS
<1>10. /\ c.heap = h /\ c.queue = q /\ c.pending = 0 /\ c.jobs = jobs'
       /\ Context(r).queue = queue /\ Context(r).jobs = jobs
  BY <1>9 DEF Context
<1>11. Ctx(c, r, NULL, NULL)
  BY <1>2, <1>7, <1>8, <1>10 DEF Ctx, m2
<1>12. Changed(r, c, "off", NULL, 0, "off")
  BY <1>0, <1>0a, <1>0b, <1>10 DEF Changed, Commit
<1>13. Typed("off", NULL, 0, "off")
  BY DEF Typed
<1>14. Keeps(c, Context(r), r)
  <2>1. \A i \in Intfs : i[1] # r => q[i] = queue[i]
    BY DEF q
  <2>2. \A t \in Routers : Gen(t) \notin {Xmit(r, s) : s \in Routers}
    BY TasksDiffer
  <2> QED BY <1>8, <1>10, <2>1, <2>2 DEF Keeps
<1>15. Told(c.heap, c.jobs, r, "off", NULL, 0, "off")
  BY <1>7, <1>10 DEF Told
<1>16. Rest2
  <2>1. enabled' = [i \in Intfs |-> enabled[i] /\ i[1] # r]
    BY DEF ShutdownNow
  <2>2. enabled' \in [Intfs -> BOOLEAN]
    BY <2>1
  <2>3. adj' = [i \in Intfs |-> IF i[1] = r THEN "none" ELSE adj[i]]
    BY DEF ShutdownNow
  <2>4. adj' \in [Intfs -> {"none", "DOWN", "UP"}]
    BY <1>1, <2>3 DEF TypeInv
  <2>5. broken' \in {"no", "assert", "null"}
    BY <1>1 DEF TypeInv, ShutdownNow
  <2> QED BY <2>2, <2>4, <2>5 DEF Rest2
<1>17. RInv'
  BY <1>11, <1>12, <1>13, <1>14, <1>15, <1>16, Moves
<1> QED BY <1>8, <1>17

LEMMA ShutdownSafe ==
  ASSUME FloodingAssumption, RInv, NEW r \in Routers, Shutdown(r)
  PROVE  RInv' /\ Calm(jobs', jobs)
<1>1. /\ TypeInv /\ jobs \in Seq(Tasks)
      /\ Told(heap[r], jobs, r, life[r], self[r], seqNo[r], recon[r])
      /\ Typed(life[r], self[r], seqNo[r], recon[r])
      /\ seqNo = [seqNo EXCEPT ![r] = seqNo[r]] /\ recon = [recon EXCEPT ![r] = recon[r]]
  BY Parts
<1>2. PICK js : js = Without(jobs, {Gen(r), Spf(r)})
  OBVIOUS
<1>3. /\ js \in Seq(Tasks) /\ Calm(js, jobs)
      /\ \A q \in Routers \ {r} : Gen(q) \in ToSet(jobs) => Gen(q) \in ToSet(js)
  <2>1. \A q \in Routers \ {r} : Gen(q) \notin {Gen(r), Spf(r)}
    BY TasksDiffer
  <2>2. /\ js \in Seq(Tasks) /\ Calm(js, jobs)
        /\ \A j : j \in ToSet(js) <=> j \in ToSet(jobs) /\ j \notin {Gen(r), Spf(r)}
    BY <1>1, <1>2, WithoutTasks
  <2> QED BY <2>1, <2>2
<1>4. stack' = stack /\ stack' \in Seq(Packets)
  BY <1>1 DEF Shutdown, TypeInv
<1>5. CASE ShutdownNow(r, js)
  <2>1. RInv' /\ Calm(jobs', js)
    BY <1>3, <1>4, <1>5, ShutdownNowSafe
  <2> QED BY <1>3, <2>1, CalmSteps
<1>6. CASE /\ life' = [life EXCEPT ![r] = "stopping"] /\ jobs' = Append(js, Gen(r))
           /\ UNCHANGED <<enabled, adj, heap, self, seqNo, recon, queue, pending, broken>>
  <2>1. /\ jobs' \in Seq(Tasks) /\ ToSet(jobs') = ToSet(js) \cup {Gen(r)}
        /\ Once(js, Pkts) => Once(jobs', Pkts)
    <3>1. Gen(r) \in Tasks /\ Gen(r) # Pkts
      BY TaskTypes, TasksDiffer
    <3> QED BY <1>3, <1>6, <3>1, AppendElements, OnceAppend
  <2>2. Calm(jobs', jobs)
    <3>1. Gen(r) # Pkts
      BY TasksDiffer
    <3> QED BY <1>3, <2>1, <3>1 DEF Calm
  <2>3. Rest2
    BY <1>1, <1>4, <1>6 DEF Rest2, TypeInv
  <2>4. PICK L, n, R : L = "stopping" /\ n = seqNo[r] /\ R = recon[r]
    OBVIOUS
  <2>5. Typed(L, self[r], n, R)
    BY <1>1, <2>4 DEF Typed
  <2>6. Told(heap[r], jobs', r, L, self[r], n, R)
    BY <1>1, <2>4 DEF Told
  <2>7. /\ life' = [life EXCEPT ![r] = L] /\ seqNo' = [seqNo EXCEPT ![r] = n]
        /\ recon' = [recon EXCEPT ![r] = R]
        /\ UNCHANGED <<heap, self, queue, pending>>
    BY <1>1, <1>6, <2>4
  <2>8. \A q \in Routers \ {r} : Gen(q) \in ToSet(jobs) => Gen(q) \in ToSet(jobs')
    BY <1>3, <2>1
  <2>9. RInv'
    BY <2>1, <2>3, <2>5, <2>6, <2>7, <2>8, JobsOnly
  <2> QED BY <2>2, <2>9
<1> QED BY <1>2, <1>5, <1>6 DEF Shutdown

\* The reception job is listed at most once, and only with packets to receive.
Carrier ==
  jobs \in Seq(Tasks) /\ Once(jobs, Pkts) /\ (Pkts \in ToSet(jobs) => stack # << >>)

\* The packets made of the objects of a queue.
Packed(r, s, sent) ==
  [k \in DOMAIN sent |->
     [to |-> <<s, r>>,
      lsp |-> [own |-> heap[r][sent[k]].own, seq |-> heap[r][sent[k]].seq,
               adjs |-> heap[r][sent[k]].adjs, tlv |-> heap[r][sent[k]].tlv,
               purge |-> heap[r][sent[k]].purge]]]

\* t is the stack after they are sent.
Pushed(t, r, s, sent) ==
  /\ t = Reverse(Packed(r, s, sent)) \o stack
  /\ \A k \in 1..Len(sent) : sent[k] \in DOMAIN heap[r]

LEMMA SentStack ==
  ASSUME FloodingAssumption, RInv, NEW r \in Routers, NEW s \in Peers(r), NEW sent \in Seq(Addr),
         NEW t, Pushed(t, r, s, sent)
  PROVE  t \in Seq(Packets) /\ Len(t) = Len(sent) + Len(stack) /\ Len(sent) \in Nat /\ Len(stack) \in Nat
<1> USE DEF Pushed
<1>1. stack \in Seq(Packets) /\ Sound(heap[r], Refs(r, queue, self[r], NULL))
  BY Parts DEF TypeInv
<1>2. Len(sent) \in Nat /\ DOMAIN sent = 1..Len(sent) /\ Len(stack) \in Nat
  BY <1>1, Elements
<1>3. <<s, r>> \in Intfs
  <2>1. PICK i : i = <<r, s>>
    OBVIOUS
  <2>2. i \in Intfs /\ i[1] = r /\ i[2] = s
    BY <2>1, IntfPair
  <2>3. <<i[2], i[1]>> \in Intfs
    BY <2>2 DEF FloodingAssumption
  <2> QED BY <2>2, <2>3
<1>4. PICK u : u = Packed(r, s, sent)
  OBVIOUS
<1>5. u \in [1..Len(sent) -> Packets]
  <2>1. ASSUME NEW k \in 1..Len(sent)
        PROVE  [to |-> <<s, r>>,
                lsp |-> [own |-> heap[r][sent[k]].own, seq |-> heap[r][sent[k]].seq,
                         adjs |-> heap[r][sent[k]].adjs, tlv |-> heap[r][sent[k]].tlv,
                         purge |-> heap[r][sent[k]].purge]] \in Packets
    <3>1. heap[r][sent[k]] \in Lsps
      BY <1>1 DEF Sound, Shape
    <3>2. PICK o : o = heap[r][sent[k]]
      OBVIOUS
    <3>3. /\ o.own \in Routers /\ o.seq \in Nat /\ o.adjs \in SUBSET Routers
          /\ o.tlv \in BOOLEAN /\ o.purge \in BOOLEAN
      BY <3>1, <3>2, LspFields
    <3>4. [to |-> <<s, r>>, lsp |-> [own |-> o.own, seq |-> o.seq, adjs |-> o.adjs,
                                     tlv |-> o.tlv, purge |-> o.purge]] \in Packets
      BY <1>3, <3>3 DEF Packets
    <3> QED BY <3>2, <3>4
  <2> QED BY <1>2, <1>4, <2>1 DEF Packed
<1>6. u \in Seq(Packets) /\ Len(u) = Len(sent)
  BY <1>2, <1>5, SeqDef, LenProperties
<1>7. Reverse(u) \in [1..Len(sent) -> Packets]
  <2>1. \A i \in 1..Len(sent) : Len(sent) - i + 1 \in 1..Len(sent)
    BY <1>2
  <2> QED BY <1>5, <1>6, <2>1 DEF Reverse
<1>8. PICK v : v = Reverse(u)
  OBVIOUS
<1>9. v \in Seq(Packets) /\ Len(v) = Len(sent)
  BY <1>2, <1>7, <1>8, SeqDef, LenProperties
<1>10. v \o stack \in Seq(Packets) /\ Len(v \o stack) = Len(v) + Len(stack)
  BY <1>1, <1>9, ConcatProperties, ZenonT(40)
<1> QED BY <1>2, <1>4, <1>8, <1>9, <1>10

LEMMA TransmitSafe ==
  ASSUME FloodingAssumption, RInv, Carrier, NEW r \in Routers, NEW s \in Peers(r), Transmit(r, s)
  PROVE  RInv' /\ Carrier'
<1>1. /\ TypeInv /\ jobs \in Seq(Tasks) /\ Ctx(Context(r), r, self[r], NULL) /\ Queues(queue)
  BY Parts
<1>2. PICK dead, sent : /\ dead = {p \in DOMAIN heap[r] : adj[<<r, s>>] # "UP" \/ ~heap[r][p].live}
                        /\ sent = Without(queue[<<r, s>>], dead)
  OBVIOUS
<1>3. PICK js : js = IF sent = << >> THEN Tail(jobs) ELSE Post(Tail(jobs), Pkts)
  OBVIOUS
<1>4. /\ jobs # << >> /\ Head(jobs) = Xmit(r, s)
      /\ stack' = Reverse(Packed(r, s, sent)) \o stack
      /\ \/ ShutdownNow(r, js)
         \/ /\ heap' = [heap EXCEPT ![r] = DerefAll(heap[r], queue[<<r, s>>])]
            /\ queue' = [queue EXCEPT ![<<r, s>>] = << >>]
            /\ pending' = [pending EXCEPT ![r] = pending[r] - Len(queue[<<r, s>>])]
            /\ jobs' = js
            /\ UNCHANGED <<life, enabled, adj, self, seqNo, recon, broken>>
  BY <1>2, <1>3 DEF Transmit, Packed
<1>5. /\ queue[<<r, s>>] \in Seq(Addr)
      /\ \A k \in DOMAIN queue[<<r, s>>] : queue[<<r, s>>][k] \in DOMAIN heap[r]
  <2>1. queue[<<r, s>>] \in Seq(Addr)
    BY <1>1, IntfPair DEF Queues
  <2>2. \A k \in DOMAIN Context(r).queue[<<r, s>>] :
          Context(r).queue[<<r, s>>][k] \in DOMAIN Context(r).heap
    BY <1>1, Referred
  <2> QED BY <2>1, <2>2 DEF Context
<1>6. sent \in Seq(Addr) /\ \A k \in 1..Len(sent) : sent[k] \in DOMAIN heap[r]
  <2>1. /\ sent \in Seq(Addr)
        /\ \A x : x \in ToSet(sent) <=> x \in ToSet(queue[<<r, s>>]) /\ x \notin dead
    <3>1. PICK u : u = queue[<<r, s>>]
      OBVIOUS
    <3>2. u \in Seq(Addr) /\ sent = Without(u, dead)
      BY <1>2, <1>5, <3>1
    <3>3. /\ Without(u, dead) \in Seq(Addr)
          /\ \A x : x \in ToSet(Without(u, dead)) <=> x \in ToSet(u) /\ x \notin dead
      BY <3>2, WithoutElements
    <3> QED BY <3>1, <3>2, <3>3
  <2>2. \A k \in 1..Len(sent) : sent[k] \in ToSet(queue[<<r, s>>])
    BY <2>1, Elements
  <2>3. \A x \in ToSet(queue[<<r, s>>]) : \E k \in DOMAIN queue[<<r, s>>] : queue[<<r, s>>][k] = x
    BY <1>5, Elements
  <2> QED BY <1>5, <2>1, <2>2, <2>3
<1>7. /\ stack' \in Seq(Packets) /\ Len(stack') = Len(sent) + Len(stack)
      /\ Len(sent) \in Nat /\ Len(stack) \in Nat
  <2>1. PICK t : t = Reverse(Packed(r, s, sent)) \o stack
    OBVIOUS
  <2>2. /\ t \in Seq(Packets) /\ Len(t) = Len(sent) + Len(stack)
        /\ Len(sent) \in Nat /\ Len(stack) \in Nat
    <3>1. Pushed(t, r, s, sent)
      BY <1>6, <2>1 DEF Pushed
    <3> QED BY <1>6, <3>1, SentStack
  <2> QED BY <1>4, <2>1, <2>2
<1>8. /\ Tail(jobs) \in Seq(Tasks) /\ Calm(Tail(jobs), jobs)
      /\ \A j \in ToSet(jobs) : j # Xmit(r, s) => j \in ToSet(Tail(jobs))
  BY <1>1, <1>4, TailKeeps
<1>9. /\ js \in Seq(Tasks) /\ ToSet(Tail(jobs)) \subseteq ToSet(js)
      /\ Once(js, Pkts)
      /\ Pkts \in ToSet(js) => Pkts \in ToSet(jobs) \/ sent # << >>
  <2>1. Once(Tail(jobs), Pkts) /\ (Pkts \in ToSet(Tail(jobs)) => Pkts \in ToSet(jobs))
    BY <1>8 DEF Calm, Carrier
  <2>2. CASE sent = << >>
    BY <1>3, <1>8, <2>1, <2>2
  <2>3. CASE sent # << >>
    <3>1. js = Post(Tail(jobs), Pkts) /\ Pkts \in Tasks
      BY <1>3, <2>3, TaskTypes
    <3> QED BY <1>8, <2>1, <2>3, <3>1, PostElements
  <2> QED BY <2>2, <2>3
<1>10. Pkts \in ToSet(js) => stack' # << >>
  <2>1. sent # << >> => Len(sent) # 0
    BY <1>6, Elements
  <2>2. stack # << >> => Len(stack) # 0
    BY <1>1, Elements DEF TypeInv
  <2>3. stack' = << >> => Len(stack') = 0
    BY <1>7, Elements
  <2>4. Pkts \in ToSet(js) => Len(sent) # 0 \/ Len(stack) # 0
    BY <1>9, <2>1, <2>2 DEF Carrier
  <2> QED BY <1>7, <2>3, <2>4
<1>11. \A q \in Routers : Gen(q) \in ToSet(jobs) => Gen(q) \in ToSet(js)
  <2>1. \A q \in Routers : Gen(q) # Xmit(r, s)
    BY TasksDiffer
  <2> QED BY <1>8, <1>9, <2>1
<1>12. CASE ShutdownNow(r, js)
  <2>1. RInv' /\ Calm(jobs', js)
    BY <1>7, <1>9, <1>11, <1>12, ShutdownNowSafe
  <2>2. jobs' \in Seq(Tasks)
    BY <2>1 DEF RInv, Local, Ctx, Context
  <2> QED BY <1>9, <1>10, <2>1, <2>2 DEF Calm, Carrier
<1>13. CASE /\ heap' = [heap EXCEPT ![r] = DerefAll(heap[r], queue[<<r, s>>])]
            /\ queue' = [queue EXCEPT ![<<r, s>>] = << >>]
            /\ pending' = [pending EXCEPT ![r] = pending[r] - Len(queue[<<r, s>>])]
            /\ jobs' = js
            /\ UNCHANGED <<life, enabled, adj, self, seqNo, recon, broken>>
  <2>1. PICK n : n = pending[r] - Len(queue[<<r, s>>])
    OBVIOUS
  <2>2. Rest2
    BY <1>1, <1>7, <1>13 DEF Rest2, TypeInv
  <2>3. RInv'
    BY <1>9, <1>11, <1>13, <2>1, <2>2, DrainedStep
  <2> QED BY <1>9, <1>10, <1>13, <2>3 DEF Carrier
<1> QED BY <1>4, <1>12, <1>13

------------------------------------------------------------------------------
(* A new LSP takes the place of the one installed *)

\* f is h with an object for the LSP x at p instead of the installed one, which
\* its maker refers to and the database does not.
Replaced(f, h, x, p) ==
  /\ p \in Addr /\ p \notin DOMAIN h /\ p \in DOMAIN f /\ SameLsp(f[p], x)
  /\ \A k \in DOMAIN f : k # p => k \in DOMAIN h /\ SameLsp(f[k], h[k])
  /\ \A k \in Installed(f) : k # p => k \in Installed(h) /\ h[k].own # x.own

Apart(f, p) == f[p].db = FALSE

LEMMA NewEvictSound ==
  ASSUME FloodingAssumption, NEW h, NEW m, Sound(h, m), NEW x, LspData(x), NEW p, p = Address(h, x),
         NEW m2, More(m2, m, p, 1), NEW f, f = Evict(New(h, x), Lookup(h, x.own))
  PROVE  Sound(f, m2) /\ Replaced(f, h, x, p) /\ Apart(f, p)
<1>0. PICK g, o : g = New(h, x) /\ o = Lookup(h, x.own)
  OBVIOUS
<1>1a. Sound(g, m2) /\ Made(g, h, x, p)
  BY <1>0, NewSound
<1>1. /\ p \in Addr /\ p \notin DOMAIN h /\ p # NULL
      /\ Sound(g, m2) /\ DOMAIN g = DOMAIN h \cup {p}
      /\ \A k \in DOMAIN h : g[k] = h[k]
      /\ SameLsp(g[p], x) /\ g[p].db = FALSE /\ Installed(g) = Installed(h)
  BY <1>1a DEF Made
<1>2. /\ o = NULL => \A k \in Installed(h) : h[k].own # x.own
      /\ o # NULL => /\ o \in Installed(h)
                     /\ \A k \in Installed(h) : h[k].own = x.own => k = o
  BY <1>0, LookupIs
<1>3. /\ Sound(Evict(g, o), m2) /\ Of(Evict(g, o), g)
      /\ o # NULL => Installed(Evict(g, o)) = Installed(g) \ {o}
      /\ o = NULL => Evict(g, o) = g
  BY <1>1, <1>2, EvictSound
<1>4. f = Evict(g, o)
  BY <1>0
<1>5. p \in DOMAIN f
  <2>1. m2[p] # 0
    <3>1. m[p] \in Nat /\ m2[p] = m[p] + 1
      BY <1>1 DEF Sound, More
    <3> QED BY <3>1
  <2> QED BY <1>1, <1>3, <1>4, <2>1 DEF Sound, Backed
<1>6. SameLsp(f[p], x)
  BY <1>1, <1>3, <1>4, <1>5 DEF Of, SameLsp
<1>7. ASSUME NEW k \in DOMAIN f, k # p PROVE k \in DOMAIN h /\ SameLsp(f[k], h[k])
  <2>1. k \in DOMAIN g /\ SameLsp(f[k], g[k])
    BY <1>3, <1>4 DEF Of
  <2> QED BY <1>1, <1>7, <2>1
<1>8. ASSUME NEW k \in Installed(f) PROVE k \in Installed(h) /\ h[k].own # x.own
  BY <1>1, <1>2, <1>3, <1>4
<1>9. f[p].db = FALSE
  <2>1. p \notin Installed(f)
    BY <1>1, <1>8 DEF Installed
  <2>2. f[p].db \in BOOLEAN
    BY <1>3, <1>4, <1>5, LspFields DEF Sound, Shape
  <2> QED BY <1>5, <2>1, <2>2 DEF Installed
<1> QED BY <1>1, <1>3, <1>4, <1>5, <1>6, <1>7, <1>8, <1>9 DEF Replaced, Apart

LEMMA ReplaceSound ==
  ASSUME FloodingAssumption, NEW h, NEW m, Sound(h, m), NEW x, LspData(x), NEW p, p = Address(h, x),
         NEW m2, More(m2, m, p, 1), NEW f, f = Replace(h, x)
  PROVE  Sound(f, m2) /\ Replaced(f, h, x, p)
<1>1. PICK g : g = Evict(New(h, x), Lookup(h, x.own))
  OBVIOUS
<1>2a. Sound(g, m2) /\ Replaced(g, h, x, p) /\ Apart(g, p)
  BY <1>1, NewEvictSound
<1>2. Sound(g, m2) /\ Replaced(g, h, x, p) /\ g[p].db = FALSE
  BY <1>2a DEF Apart
<1>3. p \in DOMAIN g /\ \A k \in Installed(g) : g[k].own # g[p].own
  <2>1. \A k \in Installed(g) : k # p /\ k \in DOMAIN g
    BY <1>2 DEF Installed
  <2> QED BY <1>2, <2>1 DEF Replaced, SameLsp
<1>5. f = Install(g, p)
  BY <1>1 DEF Replace
<1>4a. Sound(f, m2) /\ Put(f, g, p)
  BY <1>2, <1>3, <1>5, InstallSound
<1>4. /\ Sound(f, m2) /\ DOMAIN f = DOMAIN g
      /\ \A k \in DOMAIN g : SameLsp(f[k], g[k])
      /\ Installed(f) = Installed(g) \cup {p}
  BY <1>4a DEF Put
<1>6. \A k \in DOMAIN f : k # p => k \in DOMAIN h /\ SameLsp(f[k], h[k])
  BY <1>2, <1>4 DEF Replaced, SameLsp
<1>7. SameLsp(f[p], x)
  BY <1>2, <1>3, <1>4, <1>5 DEF Replaced, SameLsp
<1>8. \A k \in Installed(f) : k # p => k \in Installed(h) /\ h[k].own # x.own
  BY <1>2, <1>4 DEF Replaced
<1> QED BY <1>2, <1>3, <1>4, <1>5, <1>6, <1>7, <1>8 DEF Replaced

LEMMA RefsMore ==
  ASSUME FloodingAssumption, NEW q, Queues(q), NEW r \in Routers, NEW s, NEW p \in Addr
  PROVE  /\ More(Refs(r, q, s, p), Refs(r, q, s, NULL), p, 1)
         /\ More(Refs(r, q, p, NULL), Refs(r, q, NULL, NULL), p, 1)
         /\ Refs(r, q, s, NULL) \in [Addr -> Nat] /\ Refs(r, q, NULL, NULL) \in [Addr -> Nat]
<1>1. NULL \notin Addr
  BY DEF FloodingAssumption, Addr
<1>2. ASSUME NEW t, NEW e
      PROVE  /\ Refs(r, q, t, e) \in [Addr -> Nat]
             /\ \A a \in Addr : Refs(r, q, t, e)[a]
                  = (IF t = a THEN 1 ELSE 0) + (IF e = a THEN 1 ELSE 0) + Cardinality(Waiting(q, r, a))
  BY RefsAre
<1>3. \A a : Cardinality(Waiting(q, r, a)) \in Nat
  BY RefsAre
<1>4. ASSUME NEW a \in Addr
      PROVE  /\ Refs(r, q, s, p)[a] = Refs(r, q, s, NULL)[a] + (IF a = p THEN 1 ELSE 0)
             /\ Refs(r, q, p, NULL)[a] = Refs(r, q, NULL, NULL)[a] + (IF a = p THEN 1 ELSE 0)
  <2>1. PICK w : w = Cardinality(Waiting(q, r, a)) /\ w \in Nat
    BY <1>3
  <2>2. /\ Refs(r, q, s, p)[a] = (IF s = a THEN 1 ELSE 0) + (IF p = a THEN 1 ELSE 0) + w
        /\ Refs(r, q, s, NULL)[a] = (IF s = a THEN 1 ELSE 0) + (IF NULL = a THEN 1 ELSE 0) + w
        /\ Refs(r, q, p, NULL)[a] = (IF p = a THEN 1 ELSE 0) + (IF NULL = a THEN 1 ELSE 0) + w
        /\ Refs(r, q, NULL, NULL)[a] = (IF NULL = a THEN 1 ELSE 0) + (IF NULL = a THEN 1 ELSE 0) + w
    BY <1>2, <2>1
  <2>3. NULL # a
    BY <1>1
  <2> QED BY ONLY <2>1, <2>2, <2>3
<1> QED BY <1>2, <1>4 DEF More

\* The reference of the handler to p is given up at the end.
LEMMA LetGoSound ==
  ASSUME FloodingAssumption, NEW r \in Routers, NEW c, NEW s, NEW p \in Addr, Ctx(c, r, s, p),
         NEW h, h = Deref(c.heap, p)
  PROVE  /\ Sound(h, Refs(r, c.queue, s, NULL)) /\ Of(h, c.heap)
         /\ Installed(h) = Installed(c.heap)
<1>1. Sound(c.heap, Refs(r, c.queue, s, p)) /\ Queues(c.queue)
  BY DEF Ctx
<1>2. PICK m, m2 : m = Refs(r, c.queue, s, p) /\ m2 = Refs(r, c.queue, s, NULL)
  OBVIOUS
<1>3. More(m, m2, p, 1) /\ m2 \in [Addr -> Nat]
  BY <1>1, <1>2, RefsMore
<1>4. m[p] # 0 /\ \A a \in Addr : m[a] = m2[a] + (IF a = p THEN 1 ELSE 0)
  BY <1>3 DEF More
<1> QED BY <1>1, <1>2, <1>3, <1>4, DerefSound

\* The objects of h2 are some of f.
Some(h2, f) == /\ DOMAIN h2 \subseteq DOMAIN f /\ \A k \in DOMAIN h2 : SameLsp(h2[k], f[k])
               /\ Installed(h2) \subseteq Installed(f)

\* The LSP x at p may be the own one of router r, and the jobs js2 what follows.
Fits(r, x, p, h2, s, s2, R) ==
  /\ s2 = s \/ (s2 = p /\ x.own = r /\ (x.tlv => R # "off"))
  /\ s2 # NULL => s2 \in DOMAIN h2
Follows(r, s, s2, js, js2) == s2 = s => (Gen(r) \in ToSet(js) => Gen(r) \in ToSet(js2))
Counts(r, x, n, n2) == n \in Nat /\ n2 \in Nat /\ n <= n2 /\ (x.own = r => x.seq <= n2)

\* What a router tells after an LSP x is installed at p and, as s2 says, may be
\* its own one.
LEMMA ToldNew ==
  ASSUME FloodingAssumption, NEW r, NEW h, Shape(h), NEW js, NEW L, NEW s, NEW n, NEW R,
         Told(h, js, r, L, s, n, R), s # NULL => s \in DOMAIN h,
         NEW x, LspData(x), NEW p, NEW f, Replaced(f, h, x, p), NEW h2, Some(h2, f),
         NEW s2, Fits(r, x, p, h2, s, s2, R), NEW n2, Counts(r, x, n, n2),
         NEW js2, Follows(r, s, s2, js, js2)
  PROVE  Told(h2, js2, r, L, s2, n2, R)
<1> USE DEF Some, Fits, Follows, Counts
<1>1. ASSUME NEW k \in DOMAIN h2, k # p PROVE k \in DOMAIN h /\ SameLsp(h2[k], h[k])
  BY <1>1 DEF Replaced, SameLsp
<1>2. p \in DOMAIN h2 => SameLsp(h2[p], x)
  BY DEF Replaced, SameLsp
<1>3. ASSUME NEW k \in Installed(h2), k # p
      PROVE  k \in Installed(h) /\ k \in DOMAIN h2 /\ SameLsp(h2[k], h[k])
  BY <1>1, <1>3 DEF Replaced, Installed
<1>4. \A k \in Installed(h2) : k \in DOMAIN h2
  BY DEF Installed
<1>5. s2 # NULL => h2[s2].own = r /\ (L = "on" => (h2[s2].tlv => R # "off" \/ Gen(r) \in ToSet(js2)))
  <2>1. CASE s2 = s
    <3>1. s2 # NULL => s2 \in DOMAIN h /\ s2 # p
      BY <2>1 DEF Replaced
    <3> QED BY <1>1, <2>1, <3>1 DEF Told, SameLsp
  <2>2. CASE s2 = p /\ x.own = r /\ (x.tlv => R # "off")
    BY <1>2, <2>2 DEF SameLsp
  <2> QED BY <2>1, <2>2
<1>6. ASSUME NEW k \in Installed(h2), h2[k].own = r PROVE h2[k].seq <= n2
  <2>1. CASE k = p
    BY <1>2, <1>4, <1>6, <2>1 DEF SameLsp
  <2>2. CASE k # p
    <3>1. h[k].own = r /\ h2[k].seq = h[k].seq /\ k \in Installed(h) /\ k \in DOMAIN h
      BY <1>1, <1>3, <1>4, <1>6, <2>2 DEF SameLsp
    <3>2. h[k].seq \in Nat /\ h[k].seq <= n
      BY <3>1, LspFields DEF Told, Shape
    <3> QED BY <3>1, <3>2
  <2> QED BY <2>1, <2>2
<1> QED BY <1>5, <1>6 DEF Told

LEMMA ForgetSound ==
  ASSUME FloodingAssumption, NEW q, Queues(q), NEW r \in Routers, NEW s \in Addr \cup {NULL}, NEW h,
         Sound(h, Refs(r, q, s, NULL)), NEW h1, h1 = Forget(h, s)
  PROVE  Sound(h1, Refs(r, q, NULL, NULL)) /\ Of(h1, h) /\ Installed(h1) = Installed(h)
<1>1. CASE s = NULL
  BY <1>1, OfItself DEF Forget
<1>2. CASE s # NULL
  <2>1. s \in Addr
    BY <1>2
  <2>2. PICK m, m2 : m = Refs(r, q, s, NULL) /\ m2 = Refs(r, q, NULL, NULL)
    OBVIOUS
  <2>3. More(m, m2, s, 1) /\ m2 \in [Addr -> Nat]
    BY <2>1, <2>2, RefsMore
  <2>4. m[s] # 0 /\ \A a \in Addr : m[a] = m2[a] + (IF a = s THEN 1 ELSE 0)
    BY <2>1, <2>3 DEF More
  <2>5. s \in DOMAIN h
    BY <2>1, <2>2, <2>4 DEF Sound, Backed
  <2>6. PICK g : g = [h EXCEPT ![s].live = FALSE]
    OBVIOUS
  <2>7. DOMAIN g = DOMAIN h /\ g[s] = [h[s] EXCEPT !.live = FALSE] /\ \A k \in DOMAIN h : k # s => g[k] = h[k]
    BY <2>5, <2>6
  <2>8. \A k \in DOMAIN h : g[k] \in Lsps /\ SameLsp(g[k], h[k]) /\ g[k].ref = h[k].ref /\ g[k].db = h[k].db
    <3>1. \A k \in DOMAIN h : h[k] \in Lsps
      BY DEF Sound, Shape
    <3>2. PICK x, y : x = h[s] /\ y = g[s]
      OBVIOUS
    <3>3. x \in Lsps /\ y = [x EXCEPT !.live = FALSE]
      BY <2>5, <2>7, <3>1, <3>2
    <3>4. y \in Lsps /\ SameLsp(y, x) /\ y.ref = x.ref /\ y.db = x.db
      BY <3>3, LiveOff
    <3> QED BY <2>7, <3>1, <3>2, <3>4, SameItself
  <2>9. Sound(g, m)
    <3>1. Shape(g)
      BY <2>7, <2>8 DEF Sound, Shape
    <3>2. Counted(g, m)
      BY <2>2, <2>7, <2>8 DEF Sound, Counted
    <3>3. Backed(g, m) /\ DbOnce(g)
      BY <2>2, <2>7, <2>8 DEF Sound, Backed, DbOnce, SameLsp
    <3> QED BY <2>2, <3>1, <3>2, <3>3 DEF Sound
  <2>10. Installed(g) = Installed(h)
    BY <2>7, <2>8 DEF Installed
  <2>11. h1 = Deref(g, s)
    BY <1>2, <2>6 DEF Forget
  <2>12. Sound(h1, m2) /\ Of(h1, g) /\ Installed(h1) = Installed(g)
    BY <2>1, <2>3, <2>4, <2>9, <2>11, DerefSound
  <2>13. Of(h1, h)
    BY <2>7, <2>8, <2>12 DEF Of, SameLsp
  <2> QED BY <2>2, <2>10, <2>12, <2>13
<1> QED BY <1>1, <1>2

\* Context d is c with the jobs js.
WithJobs(d, c, js) == d.heap = c.heap /\ d.queue = c.queue /\ d.pending = c.pending /\ d.jobs = js

LEMMA FloodPeersAre == \A r, from : FloodPeers(r, from) \in SUBSET Peers(r)
BY DEF FloodPeers

\* What Generate makes of the context of its router: it installs the LSP x at p
\* in the heap h, floods it and may schedule SPF.
Generated(r, h, x, p, c, d) ==
  /\ c.heap = Replace(h, x) /\ c.queue = queue /\ c.pending = pending[r] /\ c.jobs = Tail(jobs)
  /\ LET e == Enqueue(c, r, FloodPeers(r, NULL), p)
     IN \E b : WithJobs(d, e, SpfIf(b, r, e.jobs))

LEMMA GeneratedIs ==
  ASSUME NEW r \in Routers, Generate(r)
  PROVE  \E h, x, p, c, d :
           /\ h = Forget(heap[r], self[r]) /\ x = OwnLsp(r) /\ p = Address(h, x)
           /\ Generated(r, h, x, p, c, d) /\ self' = [self EXCEPT ![r] = p] /\ Commit(r, d)
<1>1. PICK h, x, p, old : h = Forget(heap[r], self[r]) /\ x = OwnLsp(r) /\ p = Address(h, x) /\ old = Lookup(h, r)
  OBVIOUS
<1>2. PICK c : c = [Context(r) EXCEPT !.heap = Replace(h, x), !.jobs = Tail(jobs)]
  OBVIOUS
<1>3. PICK e : e = Flood(c, r, p, NULL)
  OBVIOUS
<1>4. PICK d : d = [e EXCEPT !.jobs = SpfIf(old = NULL /\ ~Purging(r), r, e.jobs)]
  OBVIOUS
<1>5. self' = [self EXCEPT ![r] = p] /\ Commit(r, d)
  BY <1>1, <1>2, <1>3, <1>4 DEF Generate, Context
<1>6. c.heap = Replace(h, x) /\ c.queue = queue /\ c.pending = pending[r] /\ c.jobs = Tail(jobs)
  BY <1>2 DEF Context
<1>7. WithJobs(d, e, SpfIf(old = NULL /\ ~Purging(r), r, e.jobs))
  <2>1. /\ e = [heap |-> e.heap, queue |-> e.queue, pending |-> e.pending, jobs |-> e.jobs]
    BY <1>3 DEF Flood, Enqueue
  <2> QED BY <1>4, <2>1 DEF WithJobs
<1>8. Generated(r, h, x, p, c, d)
  BY <1>3, <1>6, <1>7 DEF Generated, Flood
<1> QED BY <1>1, <1>5, <1>8

LEMMA OwnLspIs ==
  ASSUME RInv, NEW r \in Routers, NEW x, x = OwnLsp(r)
  PROVE  LspData(x) /\ x.own = r /\ x.seq = seqNo[r] + 1 /\ (x.tlv => recon[r] # "off")
<1>1. seqNo[r] + 1 \in Nat
  BY Parts DEF Typed
<1>2. PICK A, t, b : A = (IF Purging(r) THEN {} ELSE UpPeers(r)) /\ t = (~Purging(r) /\ recon[r] # "off")
                     /\ b = Purging(r)
  OBVIOUS
<1>3. A \in SUBSET Routers
  BY <1>2 DEF UpPeers, Peers
<1>4. t \in BOOLEAN /\ b \in BOOLEAN /\ (t => recon[r] # "off")
  BY <1>2 DEF Purging
<1>5. x = [own |-> r, seq |-> seqNo[r] + 1, adjs |-> A, tlv |-> t, purge |-> b]
  BY <1>2 DEF OwnLsp
<1> QED BY <1>1, <1>3, <1>4, <1>5 DEF LspData

LEMMA GenerateSafe ==
  ASSUME FloodingAssumption, RInv, NEW r \in Routers, Generate(r)
  PROVE  RInv' /\ Calm(jobs', jobs)
<1>1. /\ TypeInv /\ Ctx(Context(r), r, self[r], NULL) /\ Queues(queue) /\ jobs \in Seq(Tasks)
      /\ Told(heap[r], jobs, r, life[r], self[r], seqNo[r], recon[r])
      /\ Typed(life[r], self[r], seqNo[r], recon[r])
      /\ Sound(heap[r], Refs(r, queue, self[r], NULL)) /\ pending[r] \in Nat
  BY Parts
<1>2. PICK h, x, p, c, d :
        /\ h = Forget(heap[r], self[r]) /\ x = OwnLsp(r) /\ p = Address(h, x)
        /\ Generated(r, h, x, p, c, d) /\ self' = [self EXCEPT ![r] = p] /\ Commit(r, d)
  BY GeneratedIs
<1>3. /\ c.heap = Replace(h, x) /\ c.queue = queue /\ c.pending = pending[r] /\ c.jobs = Tail(jobs)
  BY <1>2 DEF Generated
<1>4. PICK e, b : e = Enqueue(c, r, FloodPeers(r, NULL), p) /\ WithJobs(d, e, SpfIf(b, r, e.jobs))
  BY <1>2 DEF Generated
<1>5. LspData(x) /\ x.own = r /\ x.seq = seqNo[r] + 1 /\ (x.tlv => recon[r] # "off")
  BY <1>2, OwnLspIs
<1>6. Sound(h, Refs(r, queue, NULL, NULL)) /\ Of(h, heap[r]) /\ Installed(h) = Installed(heap[r])
  <2>1. self[r] \in Addr \cup {NULL}
    BY <1>1 DEF Typed
  <2> QED BY <1>1, <1>2, <2>1, ForgetSound
<1>7. p \in Addr
  BY <1>2, <1>5, <1>6, AddressFresh DEF LspData, Sound
<1>8. PICK m, m2 : m = Refs(r, queue, NULL, NULL) /\ m2 = Refs(r, queue, p, NULL)
  OBVIOUS
<1>9. Sound(c.heap, m2) /\ Replaced(c.heap, h, x, p)
  <2>1. More(m2, m, p, 1)
    BY <1>1, <1>7, <1>8, RefsMore
  <2> QED BY <1>2, <1>3, <1>5, <1>6, <1>8, <2>1, ReplaceSound
<1>10. Tail(jobs) \in Seq(Tasks) /\ Calm(Tail(jobs), jobs) /\ jobs # << >> /\ Head(jobs) = Gen(r)
       /\ \A j \in ToSet(jobs) : j # Gen(r) => j \in ToSet(Tail(jobs))
  BY <1>1, TailKeeps DEF Generate
<1>11. Ctx(c, r, p, NULL)
  BY <1>1, <1>3, <1>8, <1>9, <1>10 DEF Ctx, Context
<1>12. p \in DOMAIN c.heap
  BY <1>9 DEF Replaced
<1>13. Ctx(e, r, p, NULL) /\ Grown(e, c, r)
  BY <1>4, <1>11, <1>12, FloodPeersAre, EnqueueSound
<1>14. /\ d.jobs \in Seq(Tasks) /\ ToSet(e.jobs) \subseteq ToSet(d.jobs) /\ Calm(d.jobs, e.jobs)
       /\ d.heap = e.heap /\ d.queue = e.queue /\ d.pending = e.pending
  <2>1. e.jobs \in Seq(Tasks)
    BY <1>13 DEF Ctx
  <2> QED BY <1>4, <2>1, JobsGrow DEF WithJobs
<1>15. Ctx(d, r, p, NULL)
  BY <1>13, <1>14, CtxMoved DEF Ctx
<1>16. /\ \A j \in ToSet(jobs) : j # Gen(r) => j \in ToSet(d.jobs)
       /\ Calm(d.jobs, jobs)
  BY <1>3, <1>10, <1>13, <1>14, CalmSteps DEF Grown
<1>17. Keeps(d, Context(r), r)
  <2>1. \A i \in Intfs : i[1] # r => d.queue[i] = queue[i]
    BY <1>3, <1>13, <1>14 DEF Grown
  <2>2. \A q \in Routers \ {r} : Gen(q) # Gen(r)
    BY TasksDiffer
  <2> QED BY <1>16, <2>1, <2>2 DEF Keeps, Context
<1>18. PICK L, n, R : L = life[r] /\ n = seqNo[r] + 1 /\ R = recon[r]
  OBVIOUS
<1>19. Told(d.heap, d.jobs, r, L, p, n, R)
  <2>1. Told(h, jobs, r, L, NULL, seqNo[r], R)
    BY <1>1, <1>6, <1>18, ToldKept DEF Told, Of, SameLsp, Installed
  <2>2. DOMAIN d.heap = DOMAIN c.heap /\ Some(d.heap, c.heap)
    BY <1>13, <1>14 DEF Grown, Some
  <2>3. p # NULL
    BY <1>2, <1>5, <1>6, AddressFresh DEF LspData, Sound
  <2>4. Shape(h) /\ seqNo[r] \in Nat /\ n \in Nat /\ seqNo[r] <= n
    BY <1>1, <1>6, <1>18 DEF Sound, Typed
  <2>5. Counts(r, x, seqNo[r], n)
    BY <1>5, <1>18, <2>4 DEF Counts
  <2>6. Fits(r, x, p, d.heap, NULL, p, R)
    BY <1>5, <1>12, <1>18, <2>2 DEF Fits
  <2>7. Follows(r, NULL, p, jobs, d.jobs)
    BY <2>3 DEF Follows
  <2> QED BY <1>5, <1>9, <2>1, <2>2, <2>4, <2>5, <2>6, <2>7, ToldNew
<1>20. Typed(L, p, n, R)
  BY <1>1, <1>7, <1>18 DEF Typed
<1>21. Changed(r, d, L, p, n, R)
  BY <1>1, <1>2, <1>18, Parts DEF Changed, Generate
<1>22. Rest2
  BY <1>1 DEF Rest2, Generate, TypeInv
<1>23. RInv'
  BY <1>15, <1>17, <1>19, <1>20, <1>21, <1>22, Moves
<1> QED BY <1>2, <1>16, <1>23 DEF Commit

------------------------------------------------------------------------------
(* Reception *)

\* Router r gets the LSP x from v, and c is the context its handler begins with.
Got(r, v, x, c) ==
  /\ r = To /\ v = Via /\ x = Msg /\ c = Rest
  /\ r \in Routers /\ v \in Peers(r) /\ LspData(x) /\ Ctx(c, r, self[r], NULL)
  /\ c.heap = heap[r] /\ c.queue = queue /\ c.pending = pending[r]
  /\ \A j \in ToSet(jobs) : j # Pkts => j \in ToSet(c.jobs)
  /\ \A js : Calm(js, c.jobs) => Once(js, Pkts) /\ (Pkts \in ToSet(js) => stack' # << >>)
  /\ stack' \in Seq(Packets)

LEMMA ArrivalIs ==
  ASSUME FloodingAssumption, RInv, Carrier, Arrival
  PROVE  \E r, v, x, c : Got(r, v, x, c)
<1>1. PICK js, st : js = jobs /\ st = stack
  OBVIOUS
<1>2. /\ js \in Seq(Tasks) /\ Once(js, Pkts) /\ (Pkts \in ToSet(js) => st # << >>)
      /\ st \in Seq(Packets) /\ js # << >> /\ Head(js) = Pkts /\ stack' = Tail(st)
  BY <1>1 DEF RInv, TypeInv, Carrier, Arrival
<1>3. Pkts \in ToSet(js) /\ st # << >>
  BY <1>2, TailElements
<1>4. Head(st) \in Packets /\ Tail(st) \in Seq(Packets) /\ Len(Tail(st)) = Len(st) - 1
  BY <1>2, <1>3, TailElements
<1>5. Len(st) \in Nat /\ Len(st) # 0
  BY <1>2, <1>3, Elements
<1>6. PICK i, x : i = Head(st).to /\ x = Head(st).lsp
  OBVIOUS
<1>7. i \in Intfs /\ x \in [own : Routers, seq : Nat, adjs : SUBSET Routers, tlv : BOOLEAN, purge : BOOLEAN]
  BY <1>4, <1>6 DEF Packets
<1>8. LspData(x)
  BY <1>7 DEF LspData
<1>9. PICK r, v : r = i[1] /\ v = i[2]
  OBVIOUS
<1>10. r \in Routers /\ v \in Peers(r)
  BY <1>7, <1>9, IntfPair
<1>11. r = To /\ v = Via /\ x = Msg
  BY <1>1, <1>6, <1>9 DEF To, Via, Msg
<1>12. PICK c : c = Rest
  OBVIOUS
<1>13. PICK t : t = IF Len(st) = 1 THEN Tail(js) ELSE js
  OBVIOUS
<1>14. c.heap = heap[r] /\ c.queue = queue /\ c.pending = pending[r] /\ c.jobs = t
  <2>1. c = [Context(r) EXCEPT !.jobs = t]
    BY <1>1, <1>11, <1>12, <1>13 DEF Rest, Context
  <2> QED BY <2>1 DEF Context
<1>15. t \in Seq(Tasks) /\ \A j \in ToSet(js) : j # Pkts => j \in ToSet(t)
  BY <1>2, <1>13, TailKeeps
<1>16. ASSUME NEW u, Calm(u, t) PROVE Once(u, Pkts) /\ (Pkts \in ToSet(u) => stack' # << >>)
  <2>1. CASE Len(st) = 1
    <3>1. t = Tail(js) /\ Once(t, Pkts) /\ Pkts \notin ToSet(t)
      BY <1>2, <1>13, <2>1, OnceTail
    <3> QED BY <1>16, <3>1 DEF Calm
  <2>2. CASE Len(st) # 1
    <3>1. Len(Tail(st)) # 0
      BY <1>4, <1>5, <2>2
    <3>2. stack' # << >>
      BY <1>2, <1>4, <3>1, Elements
    <3> QED BY <1>2, <1>13, <1>16, <2>2, <3>2 DEF Calm
  <2> QED BY <2>1, <2>2
<1>17. Ctx(c, r, self[r], NULL)
  <2>1. Ctx(Context(r), r, self[r], NULL)
    BY <1>10, Parts
  <2> QED BY <1>14, <1>15, <2>1 DEF Ctx, Context
<1>18. stack' \in Seq(Packets)
  BY <1>2, <1>4
<1>19. Got(r, v, x, c)
  BY <1>1, <1>8, <1>10, <1>11, <1>12, <1>14, <1>15, <1>16, <1>17, <1>18 DEF Got
<1> QED BY <1>19

\* From context c to d the handler adds jobs and serves the queues of r.
Onward(d, c, r) ==
  /\ ToSet(c.jobs) \subseteq ToSet(d.jobs) /\ Calm(d.jobs, c.jobs)
  /\ \A i \in Intfs : i[1] # r => d.queue[i] = c.queue[i]

LEMMA OnwardSteps ==
  /\ \A c, d, r : Grown(d, c, r) => Onward(d, c, r)
  /\ \A b, c, d, r : Onward(c, b, r) /\ Onward(d, c, r) => Onward(d, b, r)
  /\ \A c, r : Onward(c, c, r)
BY CalmSteps DEF Grown, Onward

\* The end of a handler that leaves router r with context d.
LEMMA ReceivedSafe ==
  ASSUME FloodingAssumption, RInv, Arrival, NEW r, NEW v, NEW x, NEW c, Got(r, v, x, c),
         NEW d, Ctx(d, r, self[r], NULL), Onward(d, c, r), Commit(r, d),
         NEW n \in Nat, seqNo' = [seqNo EXCEPT ![r] = n], UNCHANGED self,
         broken' \in {"no", "assert", "null"},
         Told(d.heap, d.jobs, r, life[r], self[r], n, recon[r])
  PROVE  RInv' /\ Carrier'
<1>1. r \in Routers
  BY DEF Got
<1>2. /\ TypeInv /\ Typed(life[r], self[r], seqNo[r], recon[r])
      /\ life = [life EXCEPT ![r] = life[r]] /\ self = [self EXCEPT ![r] = self[r]]
      /\ recon = [recon EXCEPT ![r] = recon[r]]
  BY <1>1, Parts
<1>3. PICK L, s, R : L = life[r] /\ s = self[r] /\ R = recon[r]
  OBVIOUS
<1>4. Typed(L, s, n, R)
  BY <1>2, <1>3 DEF Typed
<1>5. Changed(r, d, L, s, n, R)
  BY <1>2, <1>3 DEF Changed, Arrival
<1>6. Rest2
  BY <1>2 DEF Rest2, Got, Arrival, TypeInv
<1>7. Keeps(d, Context(r), r)
  <2>1. \A i \in Intfs : i[1] # r => d.queue[i] = queue[i]
    BY DEF Got, Onward
  <2>2. \A j \in ToSet(jobs) : j # Pkts => j \in ToSet(d.jobs)
    BY DEF Got, Onward
  <2> QED BY <2>1, <2>2, TasksDiffer DEF Keeps, Context
<1>8. RInv'
  BY <1>1, <1>3, <1>4, <1>5, <1>6, <1>7, Moves
<1>9. jobs' \in Seq(Tasks) /\ jobs' = d.jobs
  BY DEF Ctx, Commit
<1> QED BY <1>8, <1>9 DEF Got, Onward, Carrier

\* What router r told before still holds of a heap whose objects are the same.
LEMMA StillTold ==
  ASSUME FloodingAssumption, RInv, NEW r, NEW v, NEW x, NEW c, Got(r, v, x, c), NEW d, Onward(d, c, r),
         Some(d.heap, heap[r]), self[r] # NULL => self[r] \in DOMAIN d.heap,
         NEW n, \A k \in Installed(d.heap) : d.heap[k].own = r => d.heap[k].seq <= n
  PROVE  Told(d.heap, d.jobs, r, life[r], self[r], n, recon[r])
<1>1. r \in Routers /\ \A j \in ToSet(jobs) : j # Pkts => j \in ToSet(d.jobs)
  BY DEF Got, Onward
<1>2. Gen(r) \in ToSet(jobs) => Gen(r) \in ToSet(d.jobs)
  BY <1>1, TasksDiffer
<1>3. Told(heap[r], jobs, r, life[r], self[r], seqNo[r], recon[r])
  BY <1>1, Parts
<1>4. Of(d.heap, heap[r]) /\ \A p \in Installed(d.heap) : p \in Installed(heap[r])
  BY DEF Some, Of
<1>5. PICK h, h2, js2, L, s, R :
        /\ h = heap[r] /\ h2 = d.heap /\ js2 = d.jobs
        /\ L = life[r] /\ s = self[r] /\ R = recon[r]
  OBVIOUS
<1>6. Told(h2, js2, r, L, s, n, R)
  BY <1>2, <1>3, <1>4, <1>5, ToldKept
<1> QED BY <1>5, <1>6

LEMMA ReceiveNothingSafe ==
  ASSUME FloodingAssumption, RInv, Carrier, ReceiveNothing
  PROVE  RInv' /\ Carrier'
<1>1. Arrival
  BY DEF ReceiveNothing
<1>2. PICK r, v, x, c : Got(r, v, x, c)
  BY <1>1, ArrivalIs
<1>3. r \in Routers /\ r = To /\ c = Rest /\ c.heap = heap[r] /\ Ctx(c, r, self[r], NULL)
  BY <1>2 DEF Got
<1>4. /\ Told(heap[r], jobs, r, life[r], self[r], seqNo[r], recon[r]) /\ TypeInv
      /\ Typed(life[r], self[r], seqNo[r], recon[r])
      /\ seqNo = [seqNo EXCEPT ![r] = seqNo[r]]
  BY <1>3, Parts
<1>5. Onward(c, c, r)
  BY OnwardSteps
<1>6. Some(c.heap, heap[r])
  BY <1>3, SameItself DEF Some
<1>7. self[r] # NULL => self[r] \in DOMAIN c.heap
  BY <1>3, SelfExists
<1>8. PICK n : n = seqNo[r]
  OBVIOUS
<1>9. \A k \in Installed(c.heap) : c.heap[k].own = r => c.heap[k].seq <= n
  BY <1>3, <1>4, <1>8 DEF Told
<1>10. Told(c.heap, c.jobs, r, life[r], self[r], n, recon[r])
  BY <1>2, <1>5, <1>6, <1>7, <1>9, StillTold
<1>11. Commit(r, c) /\ n \in Nat /\ seqNo' = [seqNo EXCEPT ![r] = n] /\ UNCHANGED self
       /\ broken' \in {"no", "assert", "null"}
  BY <1>3, <1>4, <1>8 DEF ReceiveNothing, Typed, TypeInv
<1> QED BY <1>1, <1>2, <1>3, <1>5, <1>10, <1>11, ReceivedSafe

LEMMA ReceiveOwnSafe ==
  ASSUME FloodingAssumption, RInv, Carrier, ReceiveOwn
  PROVE  RInv' /\ Carrier'
<1>1. Arrival
  BY DEF ReceiveOwn
<1>2. PICK r, v, x, c : Got(r, v, x, c)
  BY <1>1, ArrivalIs
<1>3. /\ r \in Routers /\ r = To /\ x = Msg /\ c = Rest /\ c.heap = heap[r]
      /\ Ctx(c, r, self[r], NULL) /\ LspData(x)
  BY <1>2 DEF Got
<1>4. PICK old : old = Lookup(heap[r], r)
  OBVIOUS
<1>5. /\ x.own = r /\ (old # NULL => x.seq > heap[r][old].seq)
      /\ seqNo' = [seqNo EXCEPT ![r] = x.seq] /\ UNCHANGED <<self, broken>>
      /\ \E b : Commit(r, [c EXCEPT !.jobs = SpfIf(b, r, Generation(r, c.jobs))])
  BY <1>3, <1>4 DEF ReceiveOwn, Fresh, Newer, Old, OldSeq
<1>6. PICK b : Commit(r, [c EXCEPT !.jobs = SpfIf(b, r, Generation(r, c.jobs))])
  BY <1>5
<1>7. PICK js, d : js = SpfIf(b, r, Generation(r, c.jobs)) /\ d = [c EXCEPT !.jobs = js]
  OBVIOUS
<1>8. c = [heap |-> c.heap, queue |-> c.queue, pending |-> c.pending, jobs |-> c.jobs]
  BY <1>3 DEF Rest, Context
<1>9. WithJobs(d, c, js) /\ Commit(r, d)
  BY <1>6, <1>7, <1>8 DEF WithJobs
<1>10. js \in Seq(Tasks) /\ ToSet(c.jobs) \subseteq ToSet(js) /\ Calm(js, c.jobs)
  <2>1. c.jobs \in Seq(Tasks)
    BY <1>3 DEF Ctx
  <2>2. PICK u : u = Generation(r, c.jobs)
    OBVIOUS
  <2>3. u \in Seq(Tasks) /\ ToSet(c.jobs) \subseteq ToSet(u) /\ Calm(u, c.jobs)
    BY <1>3, <2>1, <2>2, JobsGrow
  <2>4. js \in Seq(Tasks) /\ ToSet(u) \subseteq ToSet(js) /\ Calm(js, u)
    BY <1>3, <1>7, <2>2, <2>3, JobsGrow
  <2> QED BY <2>3, <2>4, CalmSteps
<1>11. Onward(d, c, r) /\ Ctx(d, r, self[r], NULL)
  BY <1>3, <1>9, <1>10, CtxMoved DEF WithJobs, Onward, Ctx
<1>12. Some(d.heap, heap[r]) /\ (self[r] # NULL => self[r] \in DOMAIN d.heap)
  BY <1>3, <1>9, SameItself, SelfExists DEF Some, WithJobs
<1>13. PICK n : n = x.seq
  OBVIOUS
<1>14. \A k \in Installed(d.heap) : d.heap[k].own = r => d.heap[k].seq <= n
  <2>1. Sound(heap[r], Refs(r, queue, self[r], NULL))
    BY <1>3, Parts
  <2>2. \A k \in Installed(heap[r]) : heap[r][k].own = r => k = old /\ old # NULL
    BY <1>4, <2>1, LookupIs
  <2>3. \A k \in Installed(heap[r]) : heap[r][k].seq \in Nat
    BY <2>1, LspFields DEF Sound, Shape, Installed
  <2>4. x.seq \in Nat
    BY <1>3 DEF LspData
  <2>5. \A k \in Installed(heap[r]) : heap[r][k].own = r => heap[r][k].seq <= n
    BY <1>5, <1>13, <2>2, <2>3, <2>4
  <2> QED BY <1>3, <1>9, <2>5 DEF WithJobs
<1>15. Told(d.heap, d.jobs, r, life[r], self[r], n, recon[r])
  BY <1>2, <1>11, <1>12, <1>14, StillTold
<1>16. n \in Nat /\ seqNo' = [seqNo EXCEPT ![r] = n] /\ UNCHANGED self
       /\ broken' \in {"no", "assert", "null"}
  BY <1>3, <1>5, <1>13 DEF LspData, RInv, TypeInv
<1> QED BY <1>1, <1>2, <1>9, <1>11, <1>15, <1>16, ReceivedSafe

LEMMA ReceiveOlderSafe ==
  ASSUME FloodingAssumption, RInv, Carrier, ReceiveOlder
  PROVE  RInv' /\ Carrier'
<1>1. Arrival
  BY DEF ReceiveOlder
<1>2. PICK r, v, x, c : Got(r, v, x, c)
  BY <1>1, ArrivalIs
<1>3. /\ r \in Routers /\ v \in Peers(r) /\ r = To /\ v = Via /\ x = Msg /\ c = Rest
      /\ c.heap = heap[r] /\ Ctx(c, r, self[r], NULL)
  BY <1>2 DEF Got
<1>4. PICK old : old = Lookup(heap[r], x.own)
  OBVIOUS
<1>5. /\ old # NULL
      /\ Commit(r, Enqueue(c, r, FloodPeers(r, NULL), old)) \/ Commit(r, Enqueue(c, r, {v}, old))
      /\ UNCHANGED <<self, seqNo, broken>>
  BY <1>3, <1>4 DEF ReceiveOlder, Older, Fresh, Old, Flood
<1>6. PICK S \in SUBSET Peers(r) : Commit(r, Enqueue(c, r, S, old))
  BY <1>3, <1>5, FloodPeersAre
<1>7. PICK d : d = Enqueue(c, r, S, old)
  OBVIOUS
<1>8. /\ Told(heap[r], jobs, r, life[r], self[r], seqNo[r], recon[r]) /\ TypeInv
      /\ Typed(life[r], self[r], seqNo[r], recon[r])
      /\ Sound(heap[r], Refs(r, queue, self[r], NULL)) /\ seqNo = [seqNo EXCEPT ![r] = seqNo[r]]
  BY <1>3, Parts
<1>9. old \in DOMAIN c.heap
  BY <1>3, <1>4, <1>5, <1>8, LookupIs
<1>10. Ctx(d, r, self[r], NULL) /\ Grown(d, c, r)
  BY <1>3, <1>7, <1>9, EnqueueSound
<1>11. Onward(d, c, r)
  BY <1>10, OnwardSteps
<1>12. Some(d.heap, heap[r]) /\ (self[r] # NULL => self[r] \in DOMAIN d.heap)
  BY <1>3, <1>10, SelfExists DEF Some, Grown
<1>13. PICK n : n = seqNo[r]
  OBVIOUS
<1>14. \A k \in Installed(d.heap) : d.heap[k].own = r => d.heap[k].seq <= n
  BY <1>8, <1>12, <1>13 DEF Told, Some, SameLsp, Installed
<1>15. Told(d.heap, d.jobs, r, life[r], self[r], n, recon[r])
  BY <1>2, <1>11, <1>12, <1>14, StillTold
<1>16. n \in Nat /\ seqNo' = [seqNo EXCEPT ![r] = n] /\ UNCHANGED self
       /\ broken' \in {"no", "assert", "null"} /\ Commit(r, d)
  BY <1>5, <1>6, <1>7, <1>8, <1>13 DEF Typed, TypeInv
<1> QED BY <1>1, <1>2, <1>10, <1>11, <1>15, <1>16, ReceivedSafe

\* The handler made the heap f of context c1, with the LSP x at p, floods x and
\* lets it go.
HandsOn(r, v, c, c1, f, p, d) ==
  /\ c1.heap = f /\ c1.queue = c.queue /\ c1.pending = c.pending /\ c1.jobs = c.jobs
  /\ LET e == Enqueue(c1, r, FloodPeers(r, v), p)
     IN /\ d.heap = Deref(e.heap, p) /\ d.queue = e.queue /\ d.pending = e.pending
        /\ \E b : d.jobs = SpfIf(b, r, e.jobs)

LEMMA HandedOn ==
  ASSUME FloodingAssumption, RInv, NEW r, NEW v, NEW x, NEW c, Got(r, v, x, c),
         x.own # r, NEW p, p \in Addr, NEW c1, NEW f, NEW d, HandsOn(r, v, c, c1, f, p, d),
         Sound(f, Refs(r, queue, self[r], p)), Replaced(f, heap[r], x, p)
  PROVE  /\ Ctx(d, r, self[r], NULL) /\ Onward(d, c, r)
         /\ self[r] # NULL => self[r] \in DOMAIN d.heap
         /\ Told(d.heap, d.jobs, r, life[r], self[r], seqNo[r], recon[r])
<1>1. /\ r \in Routers /\ v \in Peers(r) /\ LspData(x) /\ Ctx(c, r, self[r], NULL)
      /\ c.heap = heap[r] /\ c.queue = queue /\ c.pending = pending[r]
      /\ \A j \in ToSet(jobs) : j # Pkts => j \in ToSet(c.jobs)
  BY DEF Got
<1>2. /\ Told(heap[r], jobs, r, life[r], self[r], seqNo[r], recon[r])
      /\ Typed(life[r], self[r], seqNo[r], recon[r])
      /\ Sound(heap[r], Refs(r, queue, self[r], NULL))
  BY <1>1, Parts
<1>3. PICK e, b : /\ e = Enqueue(c1, r, FloodPeers(r, v), p)
                  /\ d.heap = Deref(e.heap, p) /\ d.queue = e.queue /\ d.pending = e.pending
                  /\ d.jobs = SpfIf(b, r, e.jobs)
  BY DEF HandsOn
<1>4. c1.heap = f /\ c1.queue = c.queue /\ c1.pending = c.pending /\ c1.jobs = c.jobs
  BY DEF HandsOn
<1>5. Ctx(c1, r, self[r], p)
  BY <1>1, <1>4 DEF Ctx
<1>6. p \in DOMAIN c1.heap
  BY <1>4 DEF Replaced
<1>7. Ctx(e, r, self[r], p) /\ Grown(e, c1, r)
  BY <1>1, <1>3, <1>5, <1>6, FloodPeersAre, EnqueueSound
<1>8. PICK h : h = Deref(e.heap, p)
  OBVIOUS
<1>9. Sound(h, Refs(r, e.queue, self[r], NULL)) /\ Of(h, e.heap) /\ Installed(h) = Installed(e.heap)
  BY <1>1, <1>7, <1>8, LetGoSound
<1>10. d.jobs \in Seq(Tasks) /\ ToSet(e.jobs) \subseteq ToSet(d.jobs) /\ Calm(d.jobs, e.jobs)
  <2>1. e.jobs \in Seq(Tasks)
    BY <1>7 DEF Ctx
  <2> QED BY <1>1, <1>3, <2>1, JobsGrow
<1>11. Ctx(d, r, self[r], NULL)
  BY <1>3, <1>7, <1>8, <1>9, <1>10 DEF Ctx
<1>12. Onward(d, c, r)
  BY <1>3, <1>4, <1>7, <1>10, CalmSteps DEF Grown, Onward
<1>13. self[r] # NULL => self[r] \in DOMAIN d.heap
  BY <1>1, <1>2, <1>11, Referred DEF Typed
<1>14. PICK h0, h2, js2, L, s, R, n :
         /\ h0 = heap[r] /\ h2 = d.heap /\ js2 = d.jobs /\ n = seqNo[r]
         /\ L = life[r] /\ s = self[r] /\ R = recon[r]
  OBVIOUS
<1>15. Some(h2, f)
  BY <1>3, <1>4, <1>7, <1>8, <1>9, <1>14 DEF Some, Grown, Of, SameLsp
<1>16. Fits(r, x, p, h2, s, s, R)
  BY <1>13, <1>14 DEF Fits
<1>17. Counts(r, x, n, n)
  BY <1>2, <1>14 DEF Counts, Typed
<1>18. Follows(r, s, s, jobs, js2)
  <2>1. \A j \in ToSet(jobs) : j # Pkts => j \in ToSet(js2)
    BY <1>1, <1>12, <1>14 DEF Onward
  <2> QED BY <1>14, <2>1, TasksDiffer DEF Follows
<1>19. Shape(h0) /\ Replaced(f, h0, x, p) /\ Told(h0, jobs, r, L, s, n, R)
  BY <1>2, <1>14 DEF Sound
<1>20. s # NULL => s \in DOMAIN h0
  BY <1>1, <1>14, SelfExists
<1>21. Told(h2, js2, r, L, s, n, R)
  BY <1>1, <1>15, <1>16, <1>17, <1>18, <1>19, <1>20, ToldNew
<1> QED BY <1>11, <1>12, <1>13, <1>14, <1>21

\* A new LSP is stored.
LEMMA StoreSound ==
  ASSUME FloodingAssumption, RInv, NEW r, NEW v, NEW x, NEW c, Got(r, v, x, c),
         x.own # r, NEW d, d = Store
  PROVE  /\ Ctx(d, r, self[r], NULL) /\ Onward(d, c, r)
         /\ self[r] # NULL => self[r] \in DOMAIN d.heap
         /\ Told(d.heap, d.jobs, r, life[r], self[r], seqNo[r], recon[r])
<1>1. /\ r \in Routers /\ r = To /\ v = Via /\ x = Msg /\ c = Rest /\ LspData(x)
      /\ c.heap = heap[r] /\ c.queue = queue /\ c.pending = pending[r]
      /\ \A j \in ToSet(jobs) : j # Pkts => j \in ToSet(c.jobs)
  BY DEF Got
<1>2. /\ Sound(heap[r], Refs(r, queue, self[r], NULL)) /\ Queues(queue)
      /\ Told(heap[r], jobs, r, life[r], self[r], seqNo[r], recon[r])
  BY <1>1, Parts
<1>3. PICK h, p, f : h = heap[r] /\ p = Address(h, x) /\ f = Replace(h, x)
  OBVIOUS
<1>4. p \in Addr
  BY <1>1, <1>2, <1>3, AddressFresh DEF LspData, Sound
<1>5. Sound(f, Refs(r, queue, self[r], p)) /\ Replaced(f, h, x, p)
  <2>1. PICK m, m2 : m = Refs(r, queue, self[r], NULL) /\ m2 = Refs(r, queue, self[r], p)
    OBVIOUS
  <2>2. More(m2, m, p, 1) /\ Sound(h, m)
    BY <1>1, <1>2, <1>3, <1>4, <2>1, RefsMore
  <2> QED BY <1>1, <1>3, <2>1, <2>2, ReplaceSound
<1>6. c = [heap |-> c.heap, queue |-> c.queue, pending |-> c.pending, jobs |-> c.jobs]
  BY <1>1 DEF Rest, Context
<1>7. PICK c1, e : c1 = [c EXCEPT !.heap = f] /\ e = Flood(c1, r, p, v)
  OBVIOUS
<1>8. e = [heap |-> e.heap, queue |-> e.queue, pending |-> e.pending, jobs |-> e.jobs]
  BY <1>7 DEF Flood, Enqueue
<1>9. d = [e EXCEPT !.heap = Deref(e.heap, p), !.jobs = SpfIf(Differs, r, e.jobs)]
  BY <1>1, <1>3, <1>7 DEF Store
<1>10. /\ d.heap = Deref(e.heap, p) /\ d.queue = e.queue /\ d.pending = e.pending
       /\ d.jobs = SpfIf(Differs, r, e.jobs)
  BY <1>8, <1>9
<1>11. c1.heap = f /\ c1.queue = c.queue /\ c1.pending = c.pending /\ c1.jobs = c.jobs
  BY <1>6, <1>7
<1>12. HandsOn(r, v, c, c1, f, p, d)
  BY <1>7, <1>10, <1>11 DEF HandsOn, Flood
<1> QED BY <1>3, <1>4, <1>5, <1>12, HandedOn

LEMMA ReceiveNewSafe ==
  ASSUME FloodingAssumption, RInv, Carrier, ReceiveNew
  PROVE  RInv' /\ Carrier'
<1>1. Arrival
  BY DEF ReceiveNew
<1>2. PICK r, v, x, c : Got(r, v, x, c)
  BY <1>1, ArrivalIs
<1>3. r \in Routers /\ r = To /\ x = Msg
  BY <1>2 DEF Got
<1>4. PICK d, n : d = Store /\ n = seqNo[r]
  OBVIOUS
<1>5. life[r] # "off" /\ x.own # r /\ Commit(r, d) /\ UNCHANGED <<self, seqNo, broken>>
  BY <1>3, <1>4 DEF ReceiveNew, Accepted
<1>6. /\ Ctx(d, r, self[r], NULL) /\ Onward(d, c, r)
      /\ Told(d.heap, d.jobs, r, life[r], self[r], n, recon[r])
  BY <1>2, <1>4, <1>5, StoreSound
<1>7. n \in Nat /\ seqNo' = [seqNo EXCEPT ![r] = n] /\ broken' \in {"no", "assert", "null"}
  BY <1>3, <1>4, <1>5, Parts DEF Typed, TypeInv
<1> QED BY <1>1, <1>2, <1>5, <1>6, <1>7, ReceivedSafe

LEMMA ReceivePurgeSafe ==
  ASSUME FloodingAssumption, RInv, Carrier, ReceivePurge
  PROVE  RInv' /\ Carrier'
<1>1. Arrival
  BY DEF ReceivePurge
<1>2. PICK r, v, x, c : Got(r, v, x, c)
  BY <1>1, ArrivalIs
<1>3. /\ r \in Routers /\ r = To /\ v = Via /\ x = Msg /\ c = Rest /\ LspData(x)
      /\ c.heap = heap[r] /\ c.queue = queue /\ c.pending = pending[r]
      /\ Ctx(c, r, self[r], NULL)
  BY <1>2 DEF Got
<1>4. /\ Sound(heap[r], Refs(r, queue, self[r], NULL)) /\ Queues(queue) /\ TypeInv
      /\ Typed(life[r], self[r], seqNo[r], recon[r])
      /\ seqNo = [seqNo EXCEPT ![r] = seqNo[r]]
  BY <1>3, Parts
<1>5. PICK h, p, f : h = heap[r] /\ p = Address(h, x) /\ f = Evict(New(h, x), Lookup(h, x.own))
  OBVIOUS
<1>6. p \in Addr
  BY <1>3, <1>4, <1>5, AddressFresh DEF LspData, Sound
<1>7. Sound(f, Refs(r, queue, self[r], p)) /\ Replaced(f, h, x, p)
  <2>1. PICK m, m2 : m = Refs(r, queue, self[r], NULL) /\ m2 = Refs(r, queue, self[r], p)
    OBVIOUS
  <2>2. More(m2, m, p, 1) /\ Sound(h, m)
    BY <1>3, <1>4, <1>5, <1>6, <2>1, RefsMore
  <2> QED BY <1>3, <1>5, <2>1, <2>2, NewEvictSound
<1>8. c = [heap |-> c.heap, queue |-> c.queue, pending |-> c.pending, jobs |-> c.jobs]
  BY <1>3 DEF Rest, Context
<1>9. PICK c1, e : c1 = [c EXCEPT !.heap = f] /\ e = Flood(c1, r, p, v)
  OBVIOUS
<1>10. e = [heap |-> e.heap, queue |-> e.queue, pending |-> e.pending, jobs |-> e.jobs]
  BY <1>9 DEF Flood, Enqueue
<1>11. PICK d : d = [e EXCEPT !.heap = Deref(e.heap, p), !.jobs = Post(e.jobs, Spf(r))]
  OBVIOUS
<1>12. /\ Commit(r, d) /\ x.own # r /\ life[r] # "off" /\ UNCHANGED <<self, seqNo, broken>>
  BY <1>3, <1>5, <1>9, <1>11 DEF ReceivePurge, Accepted, Old
<1>13. /\ d.heap = Deref(e.heap, p) /\ d.queue = e.queue /\ d.pending = e.pending
       /\ d.jobs = Post(e.jobs, Spf(r)) /\ d.jobs = SpfIf(TRUE, r, e.jobs)
  BY <1>10, <1>11 DEF SpfIf
<1>14. c1.heap = f /\ c1.queue = c.queue /\ c1.pending = c.pending /\ c1.jobs = c.jobs
  BY <1>8, <1>9
<1>15. HandsOn(r, v, c, c1, f, p, d)
  BY <1>9, <1>13, <1>14 DEF HandsOn, Flood
<1>16. PICK n : n = seqNo[r]
  OBVIOUS
<1>17. /\ Ctx(d, r, self[r], NULL) /\ Onward(d, c, r)
       /\ Told(d.heap, d.jobs, r, life[r], self[r], n, recon[r])
  BY <1>2, <1>5, <1>6, <1>7, <1>12, <1>15, <1>16, HandedOn
<1>18. n \in Nat /\ seqNo' = [seqNo EXCEPT ![r] = n] /\ broken' \in {"no", "assert", "null"}
  BY <1>4, <1>12, <1>16 DEF Typed, TypeInv
<1> QED BY <1>1, <1>2, <1>12, <1>17, <1>18, ReceivedSafe

\* The sequence number k is written into the object at s.
Bumped(g, h, s, k) ==
  /\ DOMAIN g = DOMAIN h /\ Installed(g) = Installed(h) /\ g[s].seq = k
  /\ \A p \in DOMAIN h : /\ g[p].own = h[p].own /\ g[p].adjs = h[p].adjs /\ g[p].tlv = h[p].tlv
                         /\ p # s => g[p].seq = h[p].seq

LEMMA BumpSound ==
  ASSUME NEW h, NEW m, Sound(h, m), NEW s \in DOMAIN h, NEW k \in Nat, NEW g,
         g = [h EXCEPT ![s].seq = k]
  PROVE  Sound(g, m) /\ Bumped(g, h, s, k)
<1>1. \A p \in DOMAIN h : h[p] \in Lsps
  BY DEF Sound, Shape
<1>2. DOMAIN g = DOMAIN h /\ g[s] = [h[s] EXCEPT !.seq = k] /\ \A p \in DOMAIN h : p # s => g[p] = h[p]
  OBVIOUS
<1>3. PICK x, y : x = h[s] /\ y = g[s]
  OBVIOUS
<1>4. /\ y \in Lsps /\ y.own = x.own /\ y.seq = k /\ y.adjs = x.adjs /\ y.tlv = x.tlv
      /\ y.purge = x.purge /\ y.ref = x.ref /\ y.live = x.live /\ y.db = x.db
  BY <1>1, <1>2, <1>3, LspUpdates
<1>5. \A p \in DOMAIN h : /\ g[p] \in Lsps /\ g[p].own = h[p].own /\ g[p].adjs = h[p].adjs
                          /\ g[p].tlv = h[p].tlv /\ g[p].ref = h[p].ref /\ g[p].db = h[p].db
  BY <1>1, <1>2, <1>3, <1>4
<1>6. Shape(g)
  BY <1>2, <1>5 DEF Sound, Shape
<1>7. Counted(g, m)
  BY <1>2, <1>5 DEF Sound, Counted
<1>8. Backed(g, m) /\ DbOnce(g)
  BY <1>2, <1>5 DEF Sound, Backed, DbOnce
<1>9. Installed(g) = Installed(h)
  BY <1>2, <1>5 DEF Installed
<1> QED BY <1>2, <1>3, <1>4, <1>5, <1>6, <1>7, <1>8, <1>9 DEF Sound, Bumped

\* A router whose own object gets the next sequence number tells the same.
LEMMA ToldBumped ==
  ASSUME NEW r, NEW h, Shape(h), NEW js, NEW L, NEW s, NEW n \in Nat, NEW R, s # NULL,
         s \in DOMAIN h, Told(h, js, r, L, s, n, R), NEW g, Bumped(g, h, s, n + 1),
         NEW h2, Some(h2, g), s \in DOMAIN h2,
         NEW js2, Gen(r) \in ToSet(js) => Gen(r) \in ToSet(js2)
  PROVE  Told(h2, js2, r, L, s, n + 1, R)
<1>1. ASSUME NEW k \in DOMAIN h2
      PROVE  /\ k \in DOMAIN h /\ h2[k].own = h[k].own /\ h2[k].adjs = h[k].adjs /\ h2[k].tlv = h[k].tlv
             /\ h2[k].seq = IF k = s THEN n + 1 ELSE h[k].seq
  BY <1>1 DEF Some, Bumped, SameLsp
<1>2. \A k \in Installed(h2) : k \in DOMAIN h2 /\ k \in Installed(h)
  BY DEF Some, Bumped, Installed
<1>3. ASSUME NEW k \in Installed(h2), h2[k].own = r PROVE h2[k].seq <= n + 1
  <2>1. h[k].seq \in Nat /\ h[k].seq <= n
    BY <1>1, <1>2, <1>3, LspFields DEF Told, Shape
  <2> QED BY <1>1, <1>2, <1>3, <2>1
<1> QED BY <1>1, <1>2, <1>3 DEF Told

LEMMA ReceiveDemandSafe ==
  ASSUME FloodingAssumption, RInv, Carrier, ReceiveDemand
  PROVE  RInv' /\ Carrier'
<1>1. Arrival
  BY DEF ReceiveDemand
<1>2. PICK r, v, x, c : Got(r, v, x, c)
  BY <1>1, ArrivalIs
<1>3. r \in Routers /\ r = To /\ x = Msg
  BY <1>2 DEF Got
<1>4. /\ TypeInv /\ Typed(life[r], self[r], seqNo[r], recon[r])
      /\ seqNo = [seqNo EXCEPT ![r] = seqNo[r]]
  BY <1>3, Parts
<1>5. PICK d : d = Store
  OBVIOUS
<1>6. life[r] # "off" /\ x.own # r /\ UNCHANGED self /\ broken' \in {"no", "assert", "null"}
  BY <1>3, <1>4 DEF ReceiveDemand, Accepted, TypeInv
<1>7. /\ Ctx(d, r, self[r], NULL) /\ Onward(d, c, r)
      /\ self[r] # NULL => self[r] \in DOMAIN d.heap
      /\ Told(d.heap, d.jobs, r, life[r], self[r], seqNo[r], recon[r])
  BY <1>2, <1>5, <1>6, StoreSound
<1>8. d = [heap |-> d.heap, queue |-> d.queue, pending |-> d.pending, jobs |-> d.jobs]
  <2>1. PICK e, p, b : /\ e = Flood([Rest EXCEPT !.heap = Replace(Rest.heap, Msg)], To, p, Via)
                       /\ d = [e EXCEPT !.heap = Deref(e.heap, p), !.jobs = SpfIf(b, To, e.jobs)]
    BY <1>5 DEF Store
  <2>2. e = [heap |-> e.heap, queue |-> e.queue, pending |-> e.pending, jobs |-> e.jobs]
    BY <2>1 DEF Flood, Enqueue
  <2> QED BY <2>1, <2>2
<1>9. CASE self[r] # NULL /\ heap[r][self[r]].live
  <2>1. PICK s, n, k : s = self[r] /\ n = seqNo[r] /\ k = seqNo[r] + 1
    OBVIOUS
  <2>2. PICK c1, e : c1 = [d EXCEPT !.heap[s].seq = k] /\ e = Enqueue(c1, r, FloodPeers(r, NULL), s)
    OBVIOUS
  <2>3. seqNo' = [seqNo EXCEPT ![r] = k] /\ Commit(r, e)
    BY <1>3, <1>5, <1>9, <2>1, <2>2 DEF ReceiveDemand, Flood
  <2>4. PICK g : g = [d.heap EXCEPT ![s].seq = k]
    OBVIOUS
  <2>5. c1.heap = g /\ c1.queue = d.queue /\ c1.pending = d.pending /\ c1.jobs = d.jobs
    BY <1>8, <2>2, <2>4
  <2>6. n \in Nat /\ k \in Nat /\ k = n + 1 /\ s # NULL /\ s \in DOMAIN d.heap
    BY <1>4, <1>7, <1>9, <2>1 DEF Typed
  <2>7. PICK h, m : h = d.heap /\ m = Refs(r, d.queue, s, NULL)
    OBVIOUS
  <2>8. Sound(h, m)
    BY <1>7, <2>1, <2>7 DEF Ctx
  <2>9. Sound(g, m) /\ Bumped(g, h, s, k)
    BY <2>4, <2>6, <2>7, <2>8, BumpSound
  <2>10. Ctx(c1, r, s, NULL)
    BY <1>7, <2>1, <2>5, <2>7, <2>9 DEF Ctx
  <2>11. s \in DOMAIN c1.heap
    BY <2>5, <2>6, <2>7, <2>9 DEF Bumped
  <2>12. Ctx(e, r, s, NULL) /\ Grown(e, c1, r)
    BY <1>3, <2>2, <2>10, <2>11, FloodPeersAre, EnqueueSound
  <2>13. Onward(e, c, r)
    BY <1>7, <2>5, <2>12, CalmSteps DEF Grown, Onward
  <2>14. PICK h2, js, js2, L, R : /\ h2 = e.heap /\ js = d.jobs /\ js2 = e.jobs
                                        /\ L = life[r] /\ R = recon[r]
    OBVIOUS
  <2>15. Some(h2, g) /\ s \in DOMAIN h2
    BY <2>5, <2>11, <2>12, <2>14 DEF Some, Grown
  <2>16. ToSet(js) \subseteq ToSet(js2)
    BY <2>5, <2>12, <2>14 DEF Grown
  <2>17. Told(h, js, r, L, s, n, R) /\ Shape(h)
    BY <1>7, <2>1, <2>7, <2>8, <2>14 DEF Sound
  <2>18. Bumped(g, h, s, n + 1)
    BY <2>6, <2>9
  <2>19. Told(h2, js2, r, L, s, n + 1, R)
    BY <2>6, <2>7, <2>15, <2>16, <2>17, <2>18, ToldBumped
  <2>20. Told(e.heap, e.jobs, r, life[r], self[r], k, recon[r])
    BY <2>1, <2>6, <2>14, <2>19
  <2> QED BY <1>1, <1>2, <1>6, <2>1, <2>3, <2>6, <2>12, <2>13, <2>20, ReceivedSafe
<1>10. CASE ~(self[r] # NULL /\ heap[r][self[r]].live)
  <2>1. PICK e : e = [d EXCEPT !.jobs = Generation(r, d.jobs)]
    OBVIOUS
  <2>2. Commit(r, e) /\ UNCHANGED seqNo
    BY <1>3, <1>5, <1>10, <2>1 DEF ReceiveDemand
  <2>3. e.heap = d.heap /\ e.queue = d.queue /\ e.pending = d.pending /\ e.jobs = Generation(r, d.jobs)
    BY <1>8, <2>1
  <2>4. e.jobs \in Seq(Tasks) /\ ToSet(d.jobs) \subseteq ToSet(e.jobs) /\ Calm(e.jobs, d.jobs)
    BY <1>3, <1>7, <2>3, JobsGrow DEF Ctx
  <2>5. Ctx(e, r, self[r], NULL) /\ Onward(e, c, r)
    BY <1>3, <1>7, <2>3, <2>4, CtxMoved, CalmSteps DEF Ctx, Onward
  <2>6. PICK n : n = seqNo[r]
    OBVIOUS
  <2>7. Told(e.heap, e.jobs, r, life[r], self[r], n, recon[r])
    BY <1>7, <2>3, <2>4, <2>6 DEF Told
  <2>8. n \in Nat /\ seqNo' = [seqNo EXCEPT ![r] = n]
    BY <1>4, <2>2, <2>6 DEF Typed
  <2> QED BY <1>1, <1>2, <1>6, <2>2, <2>5, <2>7, <2>8, ReceivedSafe
<1> QED BY <1>9, <1>10

LEMMA ReceiveSafe ==
  ASSUME FloodingAssumption, RInv, Carrier, Receive
  PROVE  RInv' /\ Carrier'
BY ReceiveNothingSafe, ReceiveOwnSafe, ReceiveOlderSafe, ReceiveNewSafe, ReceiveDemandSafe,
   ReceivePurgeSafe DEF Receive

------------------------------------------------------------------------------
(* The theorems *)

IInv == RInv /\ Carrier

LEMMA InitSafe ==
  ASSUME FloodingAssumption, Init
  PROVE  IInv
<1>1. \A S : << >> \in Seq(S) /\ ToSet(<< >>) = {} /\ Len(<< >>) = 0
  <2>1. \A S : << >> \in Seq(S)
    OBVIOUS
  <2> QED BY <2>1, Elements
<1>2. Carrier
  BY <1>1 DEF Carrier, Once, Init
<1>3. Queues(queue)
  BY <1>1 DEF Init, Queues
<1>4. TypeInv
  BY <1>1 DEF Init, TypeInv
<1>5. ASSUME NEW r \in Routers PROVE Local(r)
  <2>1. heap[r] = << >> /\ self[r] = NULL /\ pending[r] = 0 /\ jobs = << >>
    BY DEF Init
  <2>2. DOMAIN << >> = {}
    BY <1>1, Elements
  <2>3. queue = [i \in Intfs |-> IF i[1] = r THEN << >> ELSE queue[i]]
    BY DEF Init
  <2>4. Cardinality(Places(queue, r)) = 0 /\ \A a : Cardinality(Waiting(queue, r, a)) = 0
    BY <1>3, <2>3, EmptiedWaiting
  <2>5. PICK h, m : h = heap[r] /\ m = Refs(r, queue, self[r], NULL)
    OBVIOUS
  <2>6. m \in [Addr -> Nat] /\ \A a \in Addr : m[a] = 0
    <3>1. m \in [Addr -> Nat] /\ \A a \in Addr : m[a] =
            (IF self[r] = a THEN 1 ELSE 0) + (IF NULL = a THEN 1 ELSE 0) + Cardinality(Waiting(queue, r, a))
      BY <1>3, <2>5, RefsAre
    <3>2. NULL \notin Addr
      BY DEF FloodingAssumption, Addr
    <3> QED BY <2>1, <2>4, <3>1, <3>2
  <2>7. DOMAIN h = {} /\ IsFiniteSet(DOMAIN h)
    BY <2>1, <2>2, <2>5, FS_EmptySet
  <2>8. Sound(h, m)
    BY <2>6, <2>7 DEF Sound, Shape, Counted, Backed, DbOnce
  <2>9. Ctx(Context(r), r, self[r], NULL)
    BY <1>1, <1>3, <2>1, <2>4, <2>5, <2>8 DEF Ctx, Context
  <2>10. Installed(h) = {}
    BY <2>7 DEF Installed
  <2>11. Told(h, jobs, r, life[r], self[r], seqNo[r], recon[r])
    BY <2>1, <2>10 DEF Told
  <2> QED BY <2>5, <2>9, <2>11 DEF Local
<1> QED BY <1>2, <1>4, <1>5 DEF IInv, RInv

LEMMA CarrierKept ==
  ASSUME RInv', NEW r \in Routers, Calm(jobs', jobs), stack' = stack, Carrier
  PROVE  Carrier'
<1>1. jobs' \in Seq(Tasks)
  BY DEF RInv, Local, Ctx, Context
<1> QED BY <1>1 DEF Calm, Carrier

LEMMA NextSafe ==
  ASSUME FloodingAssumption, IInv, [Next]_vars
  PROVE  IInv'
<1>1. RInv /\ Carrier
  BY DEF IInv
<1>2. \A i \in Intfs : i[1] \in Routers /\ i[2] \in Peers(i[1])
  BY IntfPair
<1>3. CASE Receive
  BY <1>1, <1>3, ReceiveSafe DEF IInv
<1>4. ASSUME NEW r \in Routers, Generate(r) PROVE IInv'
  <2>1. stack' = stack
    BY <1>4 DEF Generate
  <2> QED BY <1>1, <1>4, <2>1, GenerateSafe, CarrierKept DEF IInv
<1>5. ASSUME NEW r \in Routers, RunSpf(r) PROVE IInv'
  <2>1. stack' = stack
    BY <1>5 DEF RunSpf
  <2> QED BY <1>1, <1>5, <2>1, RunSpfSafe, CarrierKept DEF IInv
<1>6. ASSUME NEW i \in Intfs, Transmit(i[1], i[2]) PROVE IInv'
  BY <1>1, <1>2, <1>6, TransmitSafe DEF IInv
<1>7. ASSUME NEW r \in Routers, ReconFlood(r) \/ Refresh(r) \/ EnableAll(r) PROVE IInv'
  <2>1. stack' = stack
    BY <1>7 DEF ReconFlood, Refresh, EnableAll
  <2> QED BY <1>1, <1>7, <2>1, QuietSafe, CarrierKept DEF IInv
<1>8. ASSUME NEW r \in Routers, ReconExit(r) PROVE IInv'
  <2>1. stack' = stack
    BY <1>8 DEF ReconExit
  <2> QED BY <1>1, <1>8, <2>1, ReconExitSafe, CarrierKept DEF IInv
<1>9. ASSUME NEW r \in Routers, NEW o \in Routers, Expire(r, o) PROVE IInv'
  <2>1. stack' = stack
    BY <1>9 DEF Expire
  <2> QED BY <1>1, <1>9, <2>1, ExpireSafe, CarrierKept DEF IInv
<1>10. ASSUME NEW i \in Intfs, AdjUp(i[1], i[2]) PROVE IInv'
  <2>1. stack' = stack
    BY <1>10 DEF AdjUp
  <2> QED BY <1>1, <1>2, <1>10, <2>1, AdjUpSafe, CarrierKept DEF IInv
<1>11. ASSUME NEW i \in Intfs, AdjDown(i[1], i[2]) PROVE IInv'
  <2>1. stack' = stack
    BY <1>11 DEF AdjDown
  <2> QED BY <1>1, <1>2, <1>11, <2>1, AdjDownSafe, CarrierKept DEF IInv
<1>12. ASSUME NEW i \in Intfs, AdjDelete(i[1], i[2]) PROVE IInv'
  <2>1. stack' = stack
    BY <1>12 DEF AdjDelete
  <2> QED BY <1>1, <1>2, <1>12, <2>1, QuietSafe, CarrierKept DEF IInv
<1>13. ASSUME NEW r \in Routers, Clear(r) PROVE IInv'
  <2>1. stack' = stack
    BY <1>13 DEF Clear
  <2> QED BY <1>1, <1>13, <2>1, ClearSafe, CarrierKept DEF IInv
<1>14. ASSUME NEW r \in Routers, Shutdown(r) PROVE IInv'
  <2>1. stack' = stack
    BY <1>14 DEF Shutdown
  <2> QED BY <1>1, <1>14, <2>1, ShutdownSafe, CarrierKept DEF IInv
<1>15. ASSUME NEW r \in Routers, Start(r) PROVE IInv'
  <2>1. stack' = stack
    BY <1>15 DEF Start
  <2> QED BY <1>1, <1>15, <2>1, StartSafe, CarrierKept DEF IInv
<1>16. ASSUME NEW i \in Intfs, DisableIntf(i[1], i[2]) PROVE IInv'
  <2>1. stack' = stack
    BY <1>16 DEF DisableIntf
  <2> QED BY <1>1, <1>2, <1>16, <2>1, DisableIntfSafe, CarrierKept DEF IInv
<1>17. CASE UNCHANGED vars
  BY <1>17 DEF IInv, RInv, Carrier, TypeInv, Local, Context, vars
<1>18. CASE Dispatch
  BY <1>3, <1>4, <1>5, <1>6, <1>18 DEF Dispatch
<1>19. CASE Timers
  BY <1>7, <1>8, <1>9, <1>19 DEF Timers
<1>20. CASE Hellos
  BY <1>10, <1>11, <1>12, <1>20 DEF Hellos
<1>21. CASE Commands
  BY <1>7, <1>13, <1>14, <1>15, <1>16, <1>21 DEF Commands
<1> QED BY <1>17, <1>18, <1>19, <1>20, <1>21 DEF Next

LEMMA IInvAlways == Spec => []IInv
<1>1. Init => IInv
  BY FloodingAssumption, InitSafe
<1>2. IInv /\ [Next]_vars => IInv'
  BY FloodingAssumption, NextSafe
<1> QED BY <1>1, <1>2, PTL DEF Spec

\* Every variable has its type: no LSP object, queue element or pointer to the
\* own LSP is one that isis_deref_isis_pkt has freed.
THEOREM TypeCorrect == Spec => []TypeOK
<1>1. ASSUME FloodingAssumption, IInv PROVE TypeOK
  <2>1. RInv /\ TypeInv
    BY <1>1 DEF IInv, RInv
  <2>2. ASSUME NEW r \in Routers
        PROVE  /\ \A p \in DOMAIN heap[r] : heap[r][p] \in Lsps
               /\ self[r] \in DOMAIN heap[r] \cup {NULL}
               /\ \A s \in Peers(r) : ToSet(queue[<<r, s>>]) \subseteq DOMAIN heap[r]
    <3>1. /\ Ctx(Context(r), r, self[r], NULL) /\ Queues(queue)
          /\ Sound(heap[r], Refs(r, queue, self[r], NULL))
      BY <2>1, Parts
    <3>2. \A s \in Peers(r) : \A k \in DOMAIN queue[<<r, s>>] : queue[<<r, s>>][k] \in DOMAIN heap[r]
      BY <1>1, <3>1, Referred DEF Context
    <3>3. \A s \in Peers(r) : ToSet(queue[<<r, s>>]) \subseteq DOMAIN heap[r]
      BY <3>2 DEF ToSet
    <3>4. self[r] \in DOMAIN heap[r] \cup {NULL}
      BY <1>1, <2>1, SelfExists
    <3> QED BY <3>1, <3>3, <3>4 DEF Sound, Shape
  <2> QED BY <2>1, <2>2 DEF TypeInv, TypeOK
<1> QED BY <1>1, IInvAlways, FloodingAssumption, PTL

\* Reference counts: an LSP object is counted by isis_ref_isis_pkt exactly once
\* for the database, for self_lsp_pkt and for every place in a transmit queue.
THEOREM RefCountsExact == Spec => []RefCountSound
<1>1. ASSUME FloodingAssumption, IInv PROVE RefCountSound
  <2>1. ASSUME NEW r \in Routers, NEW p \in DOMAIN heap[r] PROVE heap[r][p].ref = Held(r, p)
    <3>1. RInv
      BY <1>1 DEF IInv
    <3>2. PICK m : m = Refs(r, queue, self[r], NULL)
      OBVIOUS
    <3>3. Sound(heap[r], m) /\ Queues(queue)
      BY <3>1, <3>2, Parts
    <3>4. p \in Addr /\ heap[r][p].ref = m[p] + Bit(heap[r][p].db) /\ heap[r][p].db \in BOOLEAN
      BY <3>3, LspFields DEF Sound, Shape, Counted
    <3>5. /\ m[p] = (IF self[r] = p THEN 1 ELSE 0) + (IF NULL = p THEN 1 ELSE 0)
                     + Cardinality(Waiting(queue, r, p))
          /\ Cardinality(Waiting(queue, r, p)) \in Nat
      BY <1>1, <3>2, <3>3, <3>4, RefsAre
    <3>6. NULL # p
      BY <1>1, <3>4 DEF FloodingAssumption, Addr
    <3>7. PICK a, b, w : /\ a = (IF self[r] = p THEN 1 ELSE 0) /\ b = Bit(heap[r][p].db)
                         /\ w = Cardinality(Waiting(queue, r, p))
      OBVIOUS
    <3>8. a \in Nat /\ b \in Nat /\ w \in Nat
      BY <3>5, <3>7 DEF Bit
    <3>9. heap[r][p].ref = a + w + b
      BY <3>4, <3>5, <3>6, <3>7, <3>8
    <3>10. Held(r, p) = a + b + w
      BY <3>7 DEF Held, Bit
    <3> QED BY <3>8, <3>9, <3>10
  <2> QED BY <2>1 DEF RefCountSound
<1> QED BY <1>1, IInvAlways, FloodingAssumption, PTL

\* seq_no is never behind the own LSP in the database, whatever clear commands
\* and received LSPs have made of it: the assertion of isis_install_lsp holds.
THEOREM OwnSeqStaysSound == Spec => []OwnSeqSound
<1>1. ASSUME FloodingAssumption, IInv PROVE OwnSeqSound
  <2>1. ASSUME NEW r \in Routers, NEW p, p = Lookup(heap[r], r), p # NULL
        PROVE  heap[r][p].seq <= seqNo[r]
    <3>1. /\ Sound(heap[r], Refs(r, queue, self[r], NULL))
          /\ Told(heap[r], jobs, r, life[r], self[r], seqNo[r], recon[r])
      BY <1>1, Parts DEF IInv
    <3>2. p \in Installed(heap[r]) /\ heap[r][p].own = r
      BY <1>1, <2>1, <3>1, LookupIs
    <3> QED BY <3>1, <3>2 DEF Told
  <2> QED BY <2>1 DEF OwnSeqSound
<1> QED BY <1>1, IInvAlways, FloodingAssumption, PTL

\* Demands end: an LSP with the on-demand TLV is the own one of a running router
\* only until the job that isis_exit_reconciliation_phase schedules has run.
THEOREM DemandsEnd == Spec => []DemandEnds
<1>1. ASSUME FloodingAssumption, IInv PROVE DemandEnds
  <2>1. ASSUME NEW r \in Routers, life[r] = "on", self[r] # NULL, heap[r][self[r]].tlv
        PROVE  recon[r] # "off" \/ Listed(jobs, Gen(r))
    <3>1. /\ Told(heap[r], jobs, r, life[r], self[r], seqNo[r], recon[r])
          /\ jobs \in Seq(Tasks)
      BY <1>1, Parts DEF IInv
    <3> QED BY <2>1, <3>1, ListedIs DEF Told
  <2> QED BY <2>1 DEF DemandEnds
<1> QED BY <1>1, IInvAlways, FloodingAssumption, PTL

=============================================================================
