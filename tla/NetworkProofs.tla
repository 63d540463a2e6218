---------------------------- MODULE NetworkProofs ----------------------------
(***************************************************************************)
(* Floods keep their promises: DDCP on any network, for any number of      *)
(* queries, commands and losses; two learning switches with any hosts and  *)
(* VLANs, for any number of frames and commands.                           *)
(***************************************************************************)
EXTENDS Services, ListLemmas

------------------------------------------------------------------------------
(* DDCP.  A router has noted what it answered and flooded on; a query on its *)
(* way has been noted by the router that sent it, so that when no query is   *)
(* left every router linked to one that knows the latest query knows it too. *)

CapQuery == [from : Routers, seq : Nat]
CapCopy  == [at : QueryPorts, q : CapQuery]
CapReply == [to : Routers, by : Routers, seq : Nat, size : {1, 2}]

CapTypes ==
  /\ enabled \subseteq QueryPorts
  /\ seen = [r \in Routers |-> seen[r]]
  /\ \A r \in Routers : /\ DOMAIN seen[r] \subseteq Routers
                        /\ \A o \in DOMAIN seen[r] : seen[r][o] \in Nat
  /\ wire \in Seq(CapCopy) /\ mail \subseteq CapReply
  /\ replies \in [Routers -> Seq(CapReply)] /\ handled \in [Routers -> Seq(CapQuery)]
  /\ size \in [Routers -> {1, 2}]
  /\ commands \in Nat /\ losses \in Nat

\* Router r has noted query seq of o, or a later one.
CapNoted(r, o, seq) == Capture!Knows(r, o) /\ seq <= seen[r][o]

\* It knows the latest query of o.
CapLatest(r, o) == Capture!Knows(r, o) /\ seen[r][o] = seen[o][o]

CapSeen ==
  /\ \A r \in Routers : \A o \in DOMAIN seen[r] : CapNoted(o, o, seen[r][o])
  /\ \A x \in ToSet(wire) : CapNoted(QueryOwner[QueryPeer[x.at]], x.q.from, x.q.seq)

CapHandled ==
  \A r \in Routers : \A j, k \in DOMAIN handled[r] :
    /\ handled[r][k].from # r /\ CapNoted(r, handled[r][k].from, handled[r][k].seq)
    /\ j < k /\ handled[r][j].from = handled[r][k].from => handled[r][j].seq < handled[r][k].seq

CapFlooded ==
  commands = 0 =>
    \A o \in Routers \ timed, p \in enabled :
      Capture!Knows(o, o) /\ QueryPeer[p] \in enabled /\ CapLatest(QueryOwner[p], o) =>
        \/ CapLatest(QueryOwner[QueryPeer[p]], o)
        \/ [at |-> QueryPeer[p], q |-> [from |-> o, seq |-> seen[o][o]]] \in ToSet(wire)

CapStored ==
  /\ \A m \in mail : CapNoted(m.to, m.to, m.seq)
  /\ \A o \in Routers : \A j, k \in DOMAIN replies[o] :
       /\ j # k => replies[o][j].by # replies[o][k].by
       /\ replies[o][k].to = o /\ CapNoted(o, o, replies[o][k].seq)

\* Query q that router b answered has its reply on its way or stored.
CapAnswered(b, q) ==
  \/ \E m \in mail : m.to = q.from /\ m.by = b /\ m.seq = q.seq
  \/ \E k \in DOMAIN replies[q.from] : replies[q.from][k].by = b /\ q.seq <= replies[q.from][k].seq
CapKept ==
  losses = 0 /\ died = "no" => \A b \in Routers : \A q \in ToSet(handled[b]) : CapAnswered(b, q)

CapSizes ==
  commands = 0 =>
    /\ died # "badFree" /\ \A r \in Routers : size[r] = 1
    /\ \A m \in mail : m.size = 1
    /\ \A o \in Routers : \A m \in ToSet(replies[o]) : m.size = 1

CapInv == /\ CapTypes /\ died # "assert"
          /\ CapSeen /\ CapHandled /\ CapFlooded /\ CapStored /\ CapKept /\ CapSizes

------------------------------------------------------------------------------
(* Noting a query, and flooding it *)

LEMMA CapListed ==
  ASSUME NEW S, IsFiniteSet(S)
  PROVE  /\ Capture!SetToSeq(S) \in Seq(S)
         /\ \A x \in S : \E k \in DOMAIN Capture!SetToSeq(S) : Capture!SetToSeq(S)[k] = x
  <1>1. Capture!SetToSeq(S) = SetToSeq(S)
    BY DEF Capture!SetToSeq, SetToSeq, Capture!IsInjective, IsInjective, Capture!Cardinality, Cardinality
  <1> QED BY <1>1, ListedElements DEF ToSet

\* What is on the wire after a flood: what was, and a copy at the other end of
\* each enabled interface of r but one.
LEMMA CapFlood ==
  ASSUME CapTypes, NEW w \in Seq(CapCopy), NEW r \in Routers, NEW except, NEW q \in CapQuery
  PROVE  /\ Capture!Flood(w, r, except, q) \in Seq(CapCopy)
         /\ \A x : x \in ToSet(Capture!Flood(w, r, except, q)) <=>
              \/ x \in ToSet(w)
              \/ \E p \in enabled : p # except /\ QueryOwner[p] = r /\ x = [at |-> QueryPeer[p], q |-> q]
  <1> DEFINE S == {p \in enabled \ {except} : QueryOwner[p] = r}
             outs == Capture!SetToSeq(S)
             c == [k \in DOMAIN outs |-> [at |-> QueryPeer[outs[k]], q |-> q]]
             f == c \o w
  <1>1. S \subseteq QueryPorts /\ IsFiniteSet(S)
    BY QueryAssumption, FS_Subset DEF CapTypes
  <1>2. outs \in Seq(S) /\ \A p \in S : \E k \in DOMAIN outs : outs[k] = p
    BY <1>1, CapListed
  <1>3. f = Capture!Flood(w, r, except, q)
    BY DEF Capture!Flood
  <1> HIDE DEF outs, S
  <1>4. Len(outs) \in Nat /\ DOMAIN outs = 1..Len(outs) /\ \A k \in 1..Len(outs) : outs[k] \in S
    BY <1>2, Elements
  <1>5. c \in Seq(CapCopy) /\ Len(c) = Len(outs) /\ \A k \in 1..Len(outs) : c[k] = [at |-> QueryPeer[outs[k]], q |-> q]
    BY <1>1, <1>4, QueryAssumption DEF CapCopy
  <1> HIDE DEF c
  <1>6. /\ f \in Seq(CapCopy) /\ Len(f) = Len(c) + Len(w)
        /\ \A k \in 1..(Len(c) + Len(w)) : f[k] = IF k <= Len(c) THEN c[k] ELSE w[k - Len(c)]
    BY <1>5, ConcatProperties
  <1>7. Len(w) \in Nat /\ \A x : x \in ToSet(w) <=> \E k \in 1..Len(w) : w[k] = x
    BY Elements
  <1> HIDE DEF f
  <1>8. \A x : x \in ToSet(f) <=> \E k \in 1..(Len(c) + Len(w)) : f[k] = x
    BY <1>6, Elements
  <1>9. ASSUME NEW x PROVE x \in ToSet(f) <=> x \in ToSet(w) \/ \E p \in S : x = [at |-> QueryPeer[p], q |-> q]
    <2>1. ASSUME NEW k \in 1..(Len(c) + Len(w)), f[k] = x
          PROVE  x \in ToSet(w) \/ \E p \in S : x = [at |-> QueryPeer[p], q |-> q]
      <3>1. CASE k <= Len(c)
        <4>1. k \in 1..Len(outs) /\ f[k] = c[k]
          BY <1>4, <1>5, <1>6, <1>7, <3>1
        <4> QED BY <1>4, <1>5, <2>1, <4>1
      <3>2. CASE ~(k <= Len(c))
        <4>1. k - Len(c) \in 1..Len(w) /\ f[k] = w[k - Len(c)]
          BY <1>4, <1>5, <1>6, <1>7, <3>2
        <4> QED BY <1>7, <2>1, <4>1
      <3> QED BY <3>1, <3>2
    <2>2. ASSUME x \in ToSet(w) PROVE x \in ToSet(f)
      <3>1. PICK k \in 1..Len(w) : w[k] = x
        BY <1>7, <2>2
      <3>2. /\ k + Len(c) \in 1..(Len(c) + Len(w)) /\ ~(k + Len(c) <= Len(c))
            /\ (k + Len(c)) - Len(c) = k
        BY <1>4, <1>5, <1>7
      <3>3. f[k + Len(c)] = w[k]
        BY <1>6, <3>2
      <3> QED BY <1>8, <3>1, <3>2, <3>3
    <2>3. ASSUME NEW p \in S, x = [at |-> QueryPeer[p], q |-> q] PROVE x \in ToSet(f)
      <3>1. PICK k \in 1..Len(outs) : outs[k] = p
        BY <1>2, <1>4
      <3>2. k \in 1..(Len(c) + Len(w)) /\ k <= Len(c)
        BY <1>4, <1>5, <1>7
      <3> QED BY <1>5, <1>6, <1>8, <2>3, <3>1, <3>2
    <2> QED BY <1>8, <2>1, <2>2, <2>3
  <1>10. \A p : p \in S <=> p \in enabled /\ p # except /\ QueryOwner[p] = r
    BY DEF S
  <1> QED BY <1>3, <1>6, <1>9, <1>10

\* Router r notes query seq of o.
LEMMA CapNote ==
  ASSUME CapTypes, NEW r \in Routers, NEW o \in Routers, NEW seq \in Nat, Capture!Note(r, o, seq)
  PROVE  /\ seen' = [x \in Routers |-> seen'[x]]
         /\ \A x \in Routers : DOMAIN seen'[x] = IF x = r THEN DOMAIN seen[x] \cup {o} ELSE DOMAIN seen[x]
         /\ \A x \in Routers, y \in Routers :
              seen'[x][y] = IF x = r /\ y = o THEN seq
                            ELSE IF y \in DOMAIN seen[x] THEN seen[x][y] ELSE seen'[x][y]
         /\ \A x \in Routers : /\ DOMAIN seen'[x] \subseteq Routers
                               /\ \A y \in DOMAIN seen'[x] : seen'[x][y] \in Nat
  <1>1. seen' = [seen EXCEPT ![r] = [x \in DOMAIN seen[r] \cup {o} |-> IF x = o THEN seq ELSE seen[r][x]]]
    BY DEF Capture!Note
  <1>2. seen'[r] = [x \in DOMAIN seen[r] \cup {o} |-> IF x = o THEN seq ELSE seen[r][x]]
    BY <1>1 DEF CapTypes
  <1>3. \A x \in Routers : x # r => seen'[x] = seen[x]
    BY <1>1 DEF CapTypes
  <1>4. seen' = [x \in Routers |-> seen'[x]]
    BY <1>1 DEF CapTypes
  <1>5. \A x \in Routers : DOMAIN seen'[x] = IF x = r THEN DOMAIN seen[x] \cup {o} ELSE DOMAIN seen[x]
    BY <1>2, <1>3
  <1>6. \A x \in Routers, y \in Routers :
          seen'[x][y] = IF x = r /\ y = o THEN seq
                        ELSE IF y \in DOMAIN seen[x] THEN seen[x][y] ELSE seen'[x][y]
    BY <1>2, <1>3
  <1>7. \A x \in Routers : /\ DOMAIN seen'[x] \subseteq Routers
                           /\ \A y \in DOMAIN seen'[x] : seen'[x][y] \in Nat
    <2> TAKE x \in Routers
    <2>1. DOMAIN seen[x] \subseteq Routers /\ \A y \in DOMAIN seen[x] : seen[x][y] \in Nat
      BY DEF CapTypes
    <2>2. DOMAIN seen'[x] \subseteq Routers
      BY <1>5, <2>1
    <2>3. \A y \in DOMAIN seen'[x] : seen'[x][y] \in Nat
      BY <1>5, <1>6, <2>1, <2>2
    <2> QED BY <2>2, <2>3
  <1> QED BY <1>4, <1>5, <1>6, <1>7

\* ... later than what it knew: nothing noted is forgotten.
LEMMA CapMonotone ==
  ASSUME CapTypes, NEW r \in Routers, NEW o \in Routers, NEW seq \in Nat, Capture!Note(r, o, seq),
         Capture!Knows(r, o) => seen[r][o] < seq
  PROVE  /\ \A x, y \in Routers : \A n \in Nat : CapNoted(x, y, n) => CapNoted(x, y, n)'
         /\ CapNoted(r, o, seq)'
  <1>1. /\ \A x \in Routers : DOMAIN seen'[x] = IF x = r THEN DOMAIN seen[x] \cup {o} ELSE DOMAIN seen[x]
        /\ \A x \in Routers, y \in Routers :
              seen'[x][y] = IF x = r /\ y = o THEN seq
                            ELSE IF y \in DOMAIN seen[x] THEN seen[x][y] ELSE seen'[x][y]
    BY CapNote
  <1>2. \A x \in Routers : \A y \in DOMAIN seen[x] : seen[x][y] \in Nat
    BY DEF CapTypes
  <1>3. ASSUME NEW x \in Routers, NEW y \in Routers, NEW n \in Nat, CapNoted(x, y, n)
        PROVE  CapNoted(x, y, n)'
    <2>1. y \in DOMAIN seen[x] /\ n <= seen[x][y] /\ seen[x][y] \in Nat
      BY <1>2, <1>3 DEF CapNoted, Capture!Knows
    <2>2. y \in DOMAIN seen'[x] /\ n <= seen'[x][y]
      <3>1. CASE x = r /\ y = o
        BY <1>1, <2>1, <3>1 DEF Capture!Knows
      <3>2. CASE ~(x = r /\ y = o)
        BY <1>1, <2>1, <3>2
      <3> QED BY <3>1, <3>2
    <2> QED BY <2>2 DEF CapNoted, Capture!Knows
  <1>4. CapNoted(r, o, seq)'
    <2>1. o \in DOMAIN seen'[r] /\ seen'[r][o] = seq
      BY <1>1
    <2> QED BY <2>1 DEF CapNoted, Capture!Knows
  <1> QED BY <1>3, <1>4

LEMMA CapTyped ==
  ASSUME CapTypes, NEW r \in Routers
  PROVE  /\ DOMAIN seen[r] \subseteq Routers /\ \A o \in DOMAIN seen[r] : o \in Routers /\ seen[r][o] \in Nat
         /\ DOMAIN replies[r] = 1..Len(replies[r]) /\ Len(replies[r]) \in Nat
         /\ \A k \in DOMAIN replies[r] : replies[r][k] \in CapReply
         /\ DOMAIN handled[r] = 1..Len(handled[r]) /\ Len(handled[r]) \in Nat
         /\ \A k \in DOMAIN handled[r] : handled[r][k] \in CapQuery /\ handled[r][k] \in ToSet(handled[r])
         /\ \A q \in ToSet(handled[r]) : q \in CapQuery
  <1>1. replies[r] \in Seq(CapReply) /\ handled[r] \in Seq(CapQuery)
    BY DEF CapTypes
  <1>2. /\ DOMAIN replies[r] = 1..Len(replies[r]) /\ Len(replies[r]) \in Nat
        /\ \A k \in DOMAIN replies[r] : replies[r][k] \in CapReply
    BY <1>1, Elements
  <1>3. /\ DOMAIN handled[r] = 1..Len(handled[r]) /\ Len(handled[r]) \in Nat
        /\ \A k \in DOMAIN handled[r] : handled[r][k] \in CapQuery /\ handled[r][k] \in ToSet(handled[r])
        /\ \A q \in ToSet(handled[r]) : q \in CapQuery
    BY <1>1, Elements
  <1>4. DOMAIN seen[r] \subseteq Routers /\ \A o \in DOMAIN seen[r] : o \in Routers /\ seen[r][o] \in Nat
    BY DEF CapTypes
  <1> QED BY <1>2, <1>3, <1>4

LEMMA CapWire ==
  ASSUME CapTypes, NEW x \in ToSet(wire)
  PROVE  /\ x.at \in QueryPorts /\ x.q \in CapQuery /\ x.q.from \in Routers /\ x.q.seq \in Nat
         /\ QueryOwner[x.at] \in Routers /\ QueryPeer[x.at] \in QueryPorts
         /\ QueryOwner[QueryPeer[x.at]] \in Routers
  <1>1. x \in CapCopy
    BY Elements DEF CapTypes
  <1> QED BY <1>1, QueryAssumption DEF CapCopy, CapQuery

\* What is noted stays so, and what speaks of nothing else with it.
LEMMA CapHandledKept ==
  ASSUME CapTypes, CapHandled, UNCHANGED handled,
         \A x, y \in Routers : \A n \in Nat : CapNoted(x, y, n) => CapNoted(x, y, n)'
  PROVE  CapHandled'
  <1>1. \A r \in Routers : \A k \in DOMAIN handled[r] :
          CapNoted(r, handled[r][k].from, handled[r][k].seq)'
    BY CapTyped DEF CapHandled, CapQuery
  <1> QED BY <1>1 DEF CapHandled

LEMMA CapStoredKept ==
  ASSUME CapTypes, CapStored, UNCHANGED <<mail, replies>>,
         \A x, y \in Routers : \A n \in Nat : CapNoted(x, y, n) => CapNoted(x, y, n)'
  PROVE  CapStored'
  <1>1. \A m \in mail : CapNoted(m.to, m.to, m.seq)'
    BY DEF CapStored, CapTypes, CapReply
  <1>2. \A o \in Routers : \A k \in DOMAIN replies[o] : CapNoted(o, o, replies[o][k].seq)'
    BY CapTyped DEF CapStored, CapReply
  <1> QED BY <1>1, <1>2 DEF CapStored

\* A router takes the number of its next query.
LEMMA CapSelf ==
  ASSUME CapInv, NEW r \in Routers, Capture!SelfQuery(r)
  PROVE  /\ Capture!NextSeq(r) \in Nat
         /\ Capture!Note(r, r, Capture!NextSeq(r))
         /\ Capture!Knows(r, r) => seen[r][r] < Capture!NextSeq(r)
  <1>1. Capture!Knows(r, r) => seen[r][r] \in Nat
    BY CapTyped DEF CapInv, Capture!Knows
  <1> QED BY <1>1 DEF Capture!NextSeq, Capture!SelfQuery

\* Only r knows a query that it has just numbered.
LEMMA CapOnlySelf ==
  ASSUME CapInv, NEW r \in Routers, Capture!SelfQuery(r)
  PROVE  /\ CapTypes /\ seen' = [x \in Routers |-> seen'[x]]
         /\ \A x \in Routers : /\ DOMAIN seen'[x] \subseteq Routers
                               /\ \A o \in DOMAIN seen'[x] : seen'[x][o] \in Nat
         /\ \A x \in Routers, o \in Routers : Capture!Knows(x, o) => Capture!Knows(x, o)'
         /\ \A x \in Routers, o \in Routers : o # r \/ x # r =>
              /\ Capture!Knows(x, o)' <=> Capture!Knows(x, o)
              /\ Capture!Knows(x, o) => seen'[x][o] = seen[x][o]
         /\ Capture!Knows(r, r)' /\ seen'[r][r] = Capture!NextSeq(r)
         /\ \A x \in Routers : CapLatest(x, r)' => x = r
         /\ \A x, y \in Routers : \A n \in Nat : CapNoted(x, y, n) => CapNoted(x, y, n)'
         /\ \A x \in Routers : \A o \in DOMAIN seen'[x] : CapNoted(o, o, seen[x][o])'
  <1>1. /\ CapTypes /\ Capture!NextSeq(r) \in Nat /\ Capture!Note(r, r, Capture!NextSeq(r))
        /\ Capture!Knows(r, r) => seen[r][r] < Capture!NextSeq(r)
    BY CapSelf DEF CapInv
  <1>2. /\ seen' = [x \in Routers |-> seen'[x]]
        /\ \A x \in Routers : DOMAIN seen'[x] = IF x = r THEN DOMAIN seen[x] \cup {r} ELSE DOMAIN seen[x]
        /\ \A x \in Routers, y \in Routers :
              seen'[x][y] = IF x = r /\ y = r THEN Capture!NextSeq(r)
                            ELSE IF y \in DOMAIN seen[x] THEN seen[x][y] ELSE seen'[x][y]
        /\ \A x \in Routers : /\ DOMAIN seen'[x] \subseteq Routers
                              /\ \A y \in DOMAIN seen'[x] : seen'[x][y] \in Nat
    BY <1>1, CapNote
  <1>3. \A x, y \in Routers : \A n \in Nat : CapNoted(x, y, n) => CapNoted(x, y, n)'
    BY <1>1, CapMonotone
  <1>4. /\ \A x \in Routers, o \in Routers : Capture!Knows(x, o) => Capture!Knows(x, o)'
        /\ \A x \in Routers, o \in Routers : o # r \/ x # r =>
             /\ Capture!Knows(x, o)' <=> Capture!Knows(x, o)
             /\ Capture!Knows(x, o) => seen'[x][o] = seen[x][o]
        /\ Capture!Knows(r, r)' /\ seen'[r][r] = Capture!NextSeq(r)
    BY <1>2 DEF Capture!Knows
  <1>5. \A x \in Routers : \A o \in DOMAIN seen[x] : CapNoted(o, o, seen[x][o])
    BY DEF CapInv, CapSeen
  <1>6. \A x \in Routers : CapLatest(x, r)' => x = r
    <2> SUFFICES ASSUME NEW x \in Routers, CapLatest(x, r)', x # r PROVE FALSE
      OBVIOUS
    <2>1. r \in DOMAIN seen[x] /\ seen[x][r] = Capture!NextSeq(r)
      BY <1>4 DEF CapLatest, Capture!Knows
    <2>2. CapNoted(r, r, seen[x][r])
      BY <1>5, <2>1
    <2>3. seen[r][r] \in Nat
      BY <1>1, <2>2, CapTyped DEF CapNoted, Capture!Knows
    <2> QED BY <1>1, <2>1, <2>2, <2>3 DEF CapNoted
  <1>7. ASSUME NEW x \in Routers, NEW o \in DOMAIN seen'[x] PROVE CapNoted(o, o, seen[x][o])'
    <2>1. o \in Routers /\ seen'[x][o] \in Nat
      BY <1>2
    <2>2. CASE x = r /\ o = r
      BY <1>4, <2>1, <2>2 DEF CapNoted
    <2>3. CASE o # r \/ x # r
      <3>1. o \in DOMAIN seen[x] /\ seen'[x][o] = seen[x][o]
        BY <1>4, <2>1, <2>3 DEF Capture!Knows
      <3>2. PICK n \in Nat : n = seen[x][o]
        BY <2>1, <3>1
      <3>3. CapNoted(o, o, n)'
        BY <1>3, <1>5, <2>1, <3>1, <3>2
      <3> QED BY <3>1, <3>2, <3>3 DEF CapNoted
    <2> QED BY <2>2, <2>3
  <1> QED BY <1>1, <1>2, <1>3, <1>4, <1>6, <1>7

LEMMA CapAskStep ==
  ASSUME CapInv, NEW r \in Routers, Capture!Ask(r), UNCHANGED timed
  PROVE  CapInv'
  <1> DEFINE q == [from |-> r, seq |-> Capture!NextSeq(r)]
  <1>1. /\ Capture!SelfQuery(r) /\ wire' = Capture!Flood(wire, r, "none", q)
        /\ UNCHANGED <<enabled, mail, replies, size, died, handled, commands, losses>>
    BY DEF Capture!Ask
  <1>2. Capture!NextSeq(r) \in Nat /\ q \in CapQuery /\ CapTypes
    BY <1>1, CapSelf DEF CapQuery, CapInv
  <1>3. /\ seen' = [x \in Routers |-> seen'[x]]
        /\ \A x \in Routers : /\ DOMAIN seen'[x] \subseteq Routers
                              /\ \A o \in DOMAIN seen'[x] : seen'[x][o] \in Nat
        /\ \A x \in Routers, o \in Routers : o # r \/ x # r =>
              /\ Capture!Knows(x, o)' <=> Capture!Knows(x, o)
              /\ Capture!Knows(x, o) => seen'[x][o] = seen[x][o]
        /\ Capture!Knows(r, r)' /\ seen'[r][r] = Capture!NextSeq(r)
        /\ \A x \in Routers : CapLatest(x, r)' => x = r
        /\ \A x, y \in Routers : \A n \in Nat : CapNoted(x, y, n) => CapNoted(x, y, n)'
        /\ \A x \in Routers : \A o \in DOMAIN seen'[x] : CapNoted(o, o, seen[x][o])'
    BY <1>1, CapOnlySelf
  <1>4. /\ wire' \in Seq(CapCopy)
        /\ \A x : x \in ToSet(wire)' <=>
             \/ x \in ToSet(wire)
             \/ \E p \in enabled : p # "none" /\ QueryOwner[p] = r /\ x = [at |-> QueryPeer[p], q |-> q]
    <2> HIDE DEF q
    <2>1. wire \in Seq(CapCopy)
      BY <1>2 DEF CapTypes
    <2>2. /\ Capture!Flood(wire, r, "none", q) \in Seq(CapCopy)
          /\ \A x : x \in ToSet(Capture!Flood(wire, r, "none", q)) <=>
               \/ x \in ToSet(wire)
               \/ \E p \in enabled : p # "none" /\ QueryOwner[p] = r /\ x = [at |-> QueryPeer[p], q |-> q]
      BY <1>2, <2>1, CapFlood
    <2> QED BY <1>1, <2>2 DEF ToSet
  <1>5. CapTypes'
    BY <1>1, <1>2, <1>3, <1>4 DEF CapTypes
  <1>6. CapSeen'
    <2>1. ASSUME NEW x \in ToSet(wire)' PROVE CapNoted(QueryOwner[QueryPeer[x.at]], x.q.from, x.q.seq)'
      <3>1. CASE x \in ToSet(wire)
        <4>1. CapNoted(QueryOwner[QueryPeer[x.at]], x.q.from, x.q.seq)
          BY <3>1 DEF CapInv, CapSeen
        <4> QED BY <1>2, <1>3, <3>1, <4>1, CapWire
      <3>2. CASE x \notin ToSet(wire)
        <4>1. PICK p \in enabled : QueryOwner[p] = r /\ x = [at |-> QueryPeer[p], q |-> q]
          BY <1>4, <3>2
        <4>2. QueryPeer[x.at] = p
          BY <1>2, <4>1, QueryAssumption DEF CapTypes
        <4>3. /\ x.q.from = r /\ x.q.seq = seen'[r][r] /\ x.q.seq \in Nat
              /\ QueryOwner[QueryPeer[x.at]] = r
          BY <1>2, <1>3, <4>1, <4>2
        <4> QED BY <1>3, <4>3 DEF CapNoted
      <3> QED BY <3>1, <3>2
    <2> QED BY <1>3, <2>1 DEF CapSeen
  <1>7. CapHandled' /\ CapStored'
    BY <1>1, <1>2, <1>3, CapHandledKept, CapStoredKept DEF CapInv
  <1>8. CapFlooded'
    <2> SUFFICES ASSUME commands = 0, NEW o \in Routers \ timed, NEW p \in enabled,
                        Capture!Knows(o, o)', QueryPeer[p] \in enabled, CapLatest(QueryOwner[p], o)'
                 PROVE  \/ CapLatest(QueryOwner[QueryPeer[p]], o)'
                        \/ [at |-> QueryPeer[p], q |-> [from |-> o, seq |-> seen'[o][o]]] \in ToSet(wire)'
      BY <1>1 DEF CapFlooded
    <2>1. /\ p \in QueryPorts /\ p # "none" /\ QueryOwner[p] \in Routers
          /\ QueryOwner[QueryPeer[p]] \in Routers
      BY <1>2, QueryAssumption DEF CapTypes
    <2>2. CASE o = r
      <3>1. QueryOwner[p] = r
        BY <1>3, <2>1, <2>2
      <3>2. seen'[o][o] = Capture!NextSeq(r)
        BY <1>3, <2>2
      <3> QED BY <1>4, <2>1, <2>2, <3>1, <3>2
    <2>3. CASE o # r
      <3>1. Capture!Knows(o, o) /\ seen'[o][o] = seen[o][o] /\ CapLatest(QueryOwner[p], o)
        BY <1>3, <2>1, <2>3 DEF CapLatest
      <3>2. \/ CapLatest(QueryOwner[QueryPeer[p]], o)
            \/ [at |-> QueryPeer[p], q |-> [from |-> o, seq |-> seen[o][o]]] \in ToSet(wire)
        BY <3>1 DEF CapInv, CapFlooded
      <3>3. CapLatest(QueryOwner[QueryPeer[p]], o) => CapLatest(QueryOwner[QueryPeer[p]], o)'
        BY <1>3, <2>1, <2>3, <3>1 DEF CapLatest
      <3> QED BY <1>4, <3>1, <3>2, <3>3
    <2> QED BY <2>2, <2>3
  <1>9. CapKept' /\ CapSizes' /\ died' # "assert"
    BY <1>1 DEF CapInv, CapKept, CapSizes, CapAnswered
  <1> QED BY <1>5, <1>6, <1>7, <1>8, <1>9 DEF CapInv

LEMMA CapPeriodicStep ==
  ASSUME CapInv, NEW r \in Routers, Capture!QueryPeriodic(r)
  PROVE  CapInv'
  <1>1. /\ Capture!SelfQuery(r) /\ timed' = timed \cup {r}
        /\ UNCHANGED <<enabled, wire, mail, replies, size, died, handled, commands, losses>>
    BY DEF Capture!QueryPeriodic
  <1>2. /\ CapTypes /\ seen' = [x \in Routers |-> seen'[x]]
        /\ \A x \in Routers : /\ DOMAIN seen'[x] \subseteq Routers
                              /\ \A o \in DOMAIN seen'[x] : seen'[x][o] \in Nat
        /\ \A x \in Routers, o \in Routers : o # r \/ x # r =>
              /\ Capture!Knows(x, o)' <=> Capture!Knows(x, o)
              /\ Capture!Knows(x, o) => seen'[x][o] = seen[x][o]
        /\ \A x, y \in Routers : \A n \in Nat : CapNoted(x, y, n) => CapNoted(x, y, n)'
        /\ \A x \in Routers : \A o \in DOMAIN seen'[x] : CapNoted(o, o, seen[x][o])'
    BY <1>1, CapOnlySelf
  <1>3. CapTypes'
    BY <1>1, <1>2 DEF CapTypes
  <1>4. CapSeen'
    <2>1. ASSUME NEW x \in ToSet(wire) PROVE CapNoted(QueryOwner[QueryPeer[x.at]], x.q.from, x.q.seq)'
      <3>1. CapNoted(QueryOwner[QueryPeer[x.at]], x.q.from, x.q.seq)
        BY DEF CapInv, CapSeen
      <3> QED BY <1>2, <3>1, CapWire
    <2>2. ToSet(wire)' = ToSet(wire)
      BY <1>1 DEF ToSet
    <2> QED BY <1>2, <2>1, <2>2 DEF CapSeen
  <1>5. CapHandled' /\ CapStored'
    BY <1>1, <1>2, CapHandledKept, CapStoredKept DEF CapInv
  <1>6. CapFlooded'
    <2> SUFFICES ASSUME commands = 0, NEW o \in Routers \ timed', NEW p \in enabled,
                        Capture!Knows(o, o)', QueryPeer[p] \in enabled, CapLatest(QueryOwner[p], o)'
                 PROVE  \/ CapLatest(QueryOwner[QueryPeer[p]], o)'
                        \/ [at |-> QueryPeer[p], q |-> [from |-> o, seq |-> seen'[o][o]]] \in ToSet(wire)'
      BY <1>1 DEF CapFlooded
    <2>1. /\ QueryOwner[p] \in Routers /\ QueryOwner[QueryPeer[p]] \in Routers /\ o # r
          /\ o \in Routers \ timed
      BY <1>1, <1>2, QueryAssumption DEF CapTypes
    <2>2. Capture!Knows(o, o) /\ seen'[o][o] = seen[o][o] /\ CapLatest(QueryOwner[p], o)
      BY <1>2, <2>1 DEF CapLatest
    <2>3. \/ CapLatest(QueryOwner[QueryPeer[p]], o)
          \/ [at |-> QueryPeer[p], q |-> [from |-> o, seq |-> seen[o][o]]] \in ToSet(wire)
      BY <2>1, <2>2 DEF CapInv, CapFlooded
    <2>4. CapLatest(QueryOwner[QueryPeer[p]], o) => CapLatest(QueryOwner[QueryPeer[p]], o)'
      BY <1>2, <2>1, <2>2 DEF CapLatest
    <2>5. ToSet(wire)' = ToSet(wire)
      BY <1>1 DEF ToSet
    <2> QED BY <2>2, <2>3, <2>4, <2>5
  <1>7. CapKept' /\ CapSizes' /\ died' # "assert"
    BY <1>1 DEF CapInv, CapKept, CapSizes, CapAnswered
  <1> QED BY <1>3, <1>4, <1>5, <1>6, <1>7 DEF CapInv

------------------------------------------------------------------------------
(* Receiving a query *)

LEMMA CapHead ==
  ASSUME CapTypes, wire # << >>
  PROVE  /\ Head(wire) \in ToSet(wire) /\ Tail(wire) \in Seq(CapCopy)
         /\ \A x \in ToSet(Tail(wire)) : x \in ToSet(wire)
         /\ \A x \in ToSet(wire) : x = Head(wire) \/ x \in ToSet(Tail(wire))
  <1>1. wire \in Seq(CapCopy)
    BY DEF CapTypes
  <1> QED BY <1>1, TailElements

\* A copy that is dropped tells its router nothing new.
LEMMA CapDropStep ==
  ASSUME CapInv, wire # << >>, NEW x, x = Head(wire), wire' = Tail(wire),
         UNCHANGED <<enabled, seen, timed, mail, replies, size, died, handled, commands, losses>>,
         x.at \notin enabled \/ ~Capture!Fresh(QueryOwner[x.at], x.q)
  PROVE  CapInv'
  <1>1. /\ x \in ToSet(wire) /\ Tail(wire) \in Seq(CapCopy)
        /\ \A y \in ToSet(Tail(wire)) : y \in ToSet(wire)
        /\ \A y \in ToSet(wire) : y = x \/ y \in ToSet(Tail(wire))
    BY CapHead DEF CapInv
  <1>2. ToSet(wire)' = ToSet(Tail(wire))
    BY DEF ToSet
  <1>3. CapTypes'
    BY <1>1 DEF CapInv, CapTypes
  <1>4. CapSeen'
    BY <1>1, <1>2 DEF CapInv, CapSeen, CapNoted, Capture!Knows
  <1>5. CapHandled' /\ CapStored' /\ CapKept' /\ CapSizes' /\ died' # "assert"
    BY DEF CapInv, CapHandled, CapStored, CapKept, CapSizes, CapAnswered, CapNoted, Capture!Knows
  <1>6. CapFlooded'
    <2> SUFFICES ASSUME commands = 0, NEW o \in Routers \ timed, NEW p \in enabled,
                        Capture!Knows(o, o), QueryPeer[p] \in enabled, CapLatest(QueryOwner[p], o)
                 PROVE  \/ CapLatest(QueryOwner[QueryPeer[p]], o)
                        \/ [at |-> QueryPeer[p], q |-> [from |-> o, seq |-> seen[o][o]]] \in ToSet(Tail(wire))
      BY <1>2 DEF CapFlooded, CapLatest, Capture!Knows
    <2> DEFINE y == [at |-> QueryPeer[p], q |-> [from |-> o, seq |-> seen[o][o]]]
    <2>1. CapLatest(QueryOwner[QueryPeer[p]], o) \/ y \in ToSet(wire)
      BY DEF CapInv, CapFlooded
    <2>2. CASE y = x
      <3>1. x.at = QueryPeer[p] /\ x.q.from = o /\ x.q.seq = seen[o][o]
        BY <2>2
      <3> DEFINE r == QueryOwner[QueryPeer[p]]
      <3>2. r \in Routers
        BY QueryAssumption DEF CapInv, CapTypes
      <3> HIDE DEF r
      <3>3. QueryOwner[x.at] = r
        BY <3>1 DEF r
      <3>4. Capture!Knows(r, o) /\ ~(seen[r][o] < seen[o][o])
        BY <3>1, <3>3 DEF Capture!Fresh
      <3>5. CapNoted(o, o, seen[r][o])
        BY <3>2, <3>4 DEF CapInv, CapSeen, Capture!Knows
      <3>6. seen[r][o] \in Nat /\ seen[o][o] \in Nat
        BY <3>2, <3>4, CapTyped DEF CapInv, Capture!Knows
      <3>7. CapLatest(r, o)
        BY <3>4, <3>5, <3>6 DEF CapLatest, CapNoted
      <3> QED BY <3>7 DEF r
    <2> QED BY <1>1, <2>1, <2>2
  <1> QED BY <1>3, <1>4, <1>5, <1>6 DEF CapInv

\* A copy whose query is new is noted, answered and flooded on.
LEMMA CapTakeStep ==
  ASSUME CapInv, wire # << >>, NEW p, NEW q, NEW r, NEW o, NEW n, NEW s,
         Head(wire) = [at |-> p, q |-> q], q = [from |-> o, seq |-> n],
         r = QueryOwner[p], s = QueryOwner[QueryPeer[p]], p \in enabled,
         Capture!Knows(r, o) => seen[r][o] < n,
         wire' = Capture!Flood(Tail(wire), r, p, q), Capture!Note(r, o, n),
         mail' = mail \cup {[to |-> o, by |-> r, seq |-> n, size |-> size[r]]},
         handled' = [handled EXCEPT ![r] = Append(handled[r], q)],
         UNCHANGED <<enabled, timed, replies, size, died, commands, losses>>
  PROVE  CapInv'
  <1>1. /\ Head(wire) \in ToSet(wire) /\ Tail(wire) \in Seq(CapCopy)
        /\ \A x \in ToSet(Tail(wire)) : x \in ToSet(wire)
        /\ \A x \in ToSet(wire) : x = Head(wire) \/ x \in ToSet(Tail(wire))
    BY CapHead DEF CapInv
  <1>2. /\ CapTypes /\ p \in QueryPorts /\ q \in CapQuery /\ o \in Routers /\ n \in Nat
        /\ r \in Routers /\ s \in Routers
    <2>1. CapTypes
      BY DEF CapInv
    <2> DEFINE x == Head(wire)
    <2>2. x.at = p /\ x.q = q /\ x.q.from = o /\ x.q.seq = n
      OBVIOUS
    <2> HIDE DEF x
    <2>3. /\ x.at \in QueryPorts /\ x.q \in CapQuery /\ x.q.from \in Routers /\ x.q.seq \in Nat
          /\ QueryOwner[x.at] \in Routers /\ QueryPeer[x.at] \in QueryPorts
          /\ QueryOwner[QueryPeer[x.at]] \in Routers
      BY <1>1, <2>1, CapWire DEF x
    <2> QED BY <2>1, <2>2, <2>3
  <1>4. CapNoted(s, o, n)
    <2> DEFINE x == Head(wire)
    <2>1. x.at = p /\ x.q.from = o /\ x.q.seq = n
      OBVIOUS
    <2>2. x \in ToSet(wire)
      BY <1>1
    <2> HIDE DEF x
    <2>3. CapNoted(QueryOwner[QueryPeer[x.at]], x.q.from, x.q.seq)
      BY <2>2 DEF CapInv, CapSeen
    <2> QED BY <2>1, <2>3
  <1>5. CapNoted(o, o, n) /\ CapNoted(o, o, seen[s][o])
    <2>1. o \in DOMAIN seen[s] /\ n <= seen[s][o] /\ seen[s][o] \in Nat
      BY <1>2, <1>4, CapTyped DEF CapNoted, Capture!Knows
    <2>2. CapNoted(o, o, seen[s][o])
      BY <1>2, <2>1 DEF CapInv, CapSeen
    <2>3. seen[o][o] \in Nat
      BY <1>2, <2>2, CapTyped DEF CapNoted, Capture!Knows
    <2> QED BY <1>2, <2>1, <2>2, <2>3 DEF CapNoted
  <1>6. Capture!Knows(r, o) => seen[r][o] < n
    OBVIOUS
  <1>7. o # r
    <2>1. Capture!Knows(o, o) => seen[o][o] \in Nat
      BY <1>2, CapTyped DEF Capture!Knows
    <2> QED BY <1>2, <1>5, <1>6, <2>1 DEF CapNoted
  <1>8. /\ \A x, y \in Routers : \A m \in Nat : CapNoted(x, y, m) => CapNoted(x, y, m)'
        /\ seen'[r][o] = n /\ o \in DOMAIN seen'[r]
        /\ seen' = [x \in Routers |-> seen'[x]]
        /\ \A x \in Routers : /\ DOMAIN seen'[x] \subseteq Routers
                              /\ \A y \in DOMAIN seen'[x] : seen'[x][y] \in Nat
        /\ \A x, y \in Routers : ~(x = r /\ y = o) =>
              /\ Capture!Knows(x, y)' <=> Capture!Knows(x, y)
              /\ Capture!Knows(x, y) => seen'[x][y] = seen[x][y]
    <2>1. \A x, y \in Routers : \A m \in Nat : CapNoted(x, y, m) => CapNoted(x, y, m)'
      BY <1>2, <1>6, CapMonotone
    <2>2. /\ seen' = [x \in Routers |-> seen'[x]]
          /\ \A x \in Routers : DOMAIN seen'[x] = IF x = r THEN DOMAIN seen[x] \cup {o} ELSE DOMAIN seen[x]
          /\ \A x \in Routers, y \in Routers :
               seen'[x][y] = IF x = r /\ y = o THEN n
                             ELSE IF y \in DOMAIN seen[x] THEN seen[x][y] ELSE seen'[x][y]
          /\ \A x \in Routers : /\ DOMAIN seen'[x] \subseteq Routers
                                /\ \A y \in DOMAIN seen'[x] : seen'[x][y] \in Nat
      BY <1>2, CapNote
    <2>3. seen'[r][o] = n /\ o \in DOMAIN seen'[r]
      BY <1>2, <2>2
    <2>4. \A x, y \in Routers : ~(x = r /\ y = o) =>
              /\ Capture!Knows(x, y)' <=> Capture!Knows(x, y)
              /\ Capture!Knows(x, y) => seen'[x][y] = seen[x][y]
      <3> TAKE x, y \in Routers
      <3> HAVE ~(x = r /\ y = o)
      <3>1. y \in DOMAIN seen'[x] <=> y \in DOMAIN seen[x]
        BY ONLY <2>2, ~(x = r /\ y = o), x \in Routers, y \in Routers
      <3>2. y \in DOMAIN seen[x] => seen'[x][y] = seen[x][y]
        BY ONLY <2>2, ~(x = r /\ y = o), x \in Routers, y \in Routers
      <3> QED BY <3>1, <3>2 DEF Capture!Knows
    <2> QED BY <2>1, <2>2, <2>3, <2>4
  <1>9. /\ wire' \in Seq(CapCopy)
        /\ \A x : x \in ToSet(wire)' <=>
             \/ x \in ToSet(Tail(wire))
             \/ \E e \in enabled : e # p /\ QueryOwner[e] = r /\ x = [at |-> QueryPeer[e], q |-> q]
    <2>1. /\ Capture!Flood(Tail(wire), r, p, q) \in Seq(CapCopy)
          /\ \A x : x \in ToSet(Capture!Flood(Tail(wire), r, p, q)) <=>
               \/ x \in ToSet(Tail(wire))
               \/ \E e \in enabled : e # p /\ QueryOwner[e] = r /\ x = [at |-> QueryPeer[e], q |-> q]
      <3>1. PICK w \in Seq(CapCopy) : w = Tail(wire)
        BY <1>1
      <3>2. CapTypes /\ r \in Routers /\ q \in CapQuery
        BY <1>2
      <3>3. /\ Capture!Flood(w, r, p, q) \in Seq(CapCopy)
            /\ \A x : x \in ToSet(Capture!Flood(w, r, p, q)) <=>
                 \/ x \in ToSet(w)
                 \/ \E e \in enabled : e # p /\ QueryOwner[e] = r /\ x = [at |-> QueryPeer[e], q |-> q]
        BY ONLY <3>2, CapFlood
      <3> QED BY ONLY <3>1, <3>3
    <2>2. ToSet(wire)' = ToSet(Capture!Flood(Tail(wire), r, p, q))
      BY DEF ToSet
    <2>3. wire' \in Seq(CapCopy)
      BY <2>1
    <2> QED BY ONLY <2>1, <2>2, <2>3
  <1> DEFINE new == [to |-> o, by |-> r, seq |-> n, size |-> size[r]]
  <1>10. new \in CapReply /\ mail' = mail \cup {new}
    BY <1>2 DEF CapReply, CapTypes
  <1>11. /\ handled' \in [Routers -> Seq(CapQuery)]
         /\ \A x \in Routers : x # r => handled'[x] = handled[x]
         /\ handled'[r] = Append(handled[r], q)
         /\ DOMAIN handled'[r] = 1..(Len(handled[r]) + 1) /\ handled'[r][Len(handled[r]) + 1] = q
         /\ \A k \in 1..Len(handled[r]) : handled'[r][k] = handled[r][k]
    <2>1. handled \in [Routers -> Seq(CapQuery)] /\ handled[r] \in Seq(CapQuery)
      BY <1>2 DEF CapTypes
    <2>2. /\ Append(handled[r], q) \in Seq(CapQuery) /\ Len(Append(handled[r], q)) = Len(handled[r]) + 1
          /\ \A k \in 1..Len(handled[r]) : Append(handled[r], q)[k] = handled[r][k]
          /\ Append(handled[r], q)[Len(handled[r]) + 1] = q
      BY <1>2, <2>1, AppendProperties
    <2>3. handled' = [handled EXCEPT ![r] = Append(handled[r], q)]
      OBVIOUS
    <2>4. handled'[r] = Append(handled[r], q)
      BY <1>2, <2>1, <2>3
    <2>5. DOMAIN Append(handled[r], q) = 1..(Len(handled[r]) + 1)
      BY <2>2, LenProperties
    <2> QED BY <1>2, <2>1, <2>2, <2>3, <2>4, <2>5
  <1>12. CapTypes'
    <2>1. mail' \subseteq CapReply
      BY <1>2, <1>10 DEF CapTypes
    <2> QED BY <1>2, <1>8, <1>9, <1>11, <2>1 DEF CapTypes
  <1>13. CapSeen'
    <2>1. ASSUME NEW x \in Routers, NEW y \in DOMAIN seen'[x] PROVE CapNoted(y, y, seen[x][y])'
      <3>1. y \in Routers
        BY <1>8
      <3>2. CASE x = r /\ y = o
        <4>1. CapNoted(o, o, n)'
          BY <1>2, <1>5, <1>8
        <4> QED BY <1>8, <3>2, <4>1 DEF CapNoted
      <3>3. CASE ~(x = r /\ y = o)
        <4>1. y \in DOMAIN seen[x] /\ seen'[x][y] = seen[x][y]
          BY <1>8, <3>1, <3>3 DEF Capture!Knows
        <4>2. PICK m \in Nat : m = seen[x][y]
          BY <1>2, <4>1, CapTyped
        <4>3. CapNoted(y, y, m)
          BY <4>1, <4>2 DEF CapInv, CapSeen
        <4>4. CapNoted(y, y, m)'
          BY <1>8, <3>1, <4>3
        <4> QED BY <4>1, <4>2, <4>4 DEF CapNoted
      <3> QED BY <3>2, <3>3
    <2>2. ASSUME NEW x \in ToSet(wire)' PROVE CapNoted(QueryOwner[QueryPeer[x.at]], x.q.from, x.q.seq)'
      <3>1. CASE x \in ToSet(Tail(wire))
        <4>1. x \in ToSet(wire) /\ CapNoted(QueryOwner[QueryPeer[x.at]], x.q.from, x.q.seq)
          BY <1>1, <3>1 DEF CapInv, CapSeen
        <4> QED BY <1>2, <1>8, <4>1, CapWire
      <3>2. CASE x \notin ToSet(Tail(wire))
        <4>1. PICK e \in enabled : QueryOwner[e] = r /\ x = [at |-> QueryPeer[e], q |-> q]
          BY <1>9, <3>2
        <4>2. QueryPeer[x.at] = e
          BY <1>2, <4>1, QueryAssumption DEF CapTypes
        <4>3. /\ x.q.from = o /\ x.q.seq = seen'[r][o] /\ x.q.seq \in Nat
              /\ QueryOwner[QueryPeer[x.at]] = r
          BY <1>2, <1>8, <4>1, <4>2
        <4> QED BY <1>8, <4>3 DEF CapNoted, Capture!Knows
      <3> QED BY <3>1, <3>2
    <2> QED BY <2>1, <2>2 DEF CapSeen
  <1>14. CapHandled'
    <2>1. ASSUME NEW x \in Routers, NEW k \in DOMAIN handled[x]
          PROVE  /\ handled[x][k].from # x /\ handled[x][k].from \in Routers /\ handled[x][k].seq \in Nat
                 /\ CapNoted(x, handled[x][k].from, handled[x][k].seq)
      BY <1>2, CapTyped DEF CapInv, CapHandled, CapQuery
    <2>2. ASSUME NEW x \in Routers, NEW k \in DOMAIN handled[x], x # r \/ k \in 1..Len(handled[r])
          PROVE  /\ handled'[x][k] = handled[x][k]
                 /\ CapNoted(x, handled[x][k].from, handled[x][k].seq)'
      <3>1. handled'[x][k] = handled[x][k]
        BY <1>11, <2>2
      <3>2. PICK f \in Routers, m \in Nat : f = handled[x][k].from /\ m = handled[x][k].seq
        BY <2>1
      <3>3. CapNoted(x, f, m)'
        BY <1>8, <2>1, <3>2
      <3> QED BY <3>1, <3>2, <3>3 DEF CapNoted
    <2>3. CapNoted(r, o, n)'
      BY <1>2, <1>8 DEF CapNoted, Capture!Knows
    <2>4. ASSUME NEW x \in Routers, NEW j \in DOMAIN handled'[x], NEW k \in DOMAIN handled'[x]
          PROVE  /\ handled'[x][k].from # x /\ CapNoted(x, handled[x][k].from, handled[x][k].seq)'
                 /\ j < k /\ handled'[x][j].from = handled'[x][k].from =>
                      handled'[x][j].seq < handled'[x][k].seq
      <3>1. Len(handled[r]) \in Nat /\ DOMAIN handled[r] = 1..Len(handled[r])
        BY <1>2, CapTyped
      <3>2. CASE x # r
        <4>1. handled'[x] = handled[x]
          BY <1>11, <3>2
        <4> QED BY <2>1, <2>2, <3>2, <4>1 DEF CapInv, CapHandled, CapNoted
      <3>3. CASE x = r /\ k = Len(handled[r]) + 1
        <4>1. handled'[x][k] = q
          BY <1>11, <3>3
        <4>2. CapNoted(x, handled[x][k].from, handled[x][k].seq)'
          BY <2>3, <3>3, <4>1 DEF CapNoted
        <4>3. ASSUME j < k, handled'[x][j].from = o PROVE handled'[x][j].seq < n
          <5>1. j \in 1..Len(handled[r]) /\ handled'[r][j] = handled[r][j]
            BY <1>11, <3>1, <3>3, <4>3
          <5>2. CapNoted(r, o, handled[r][j].seq) /\ handled[r][j].seq \in Nat
            BY <2>1, <3>1, <3>3, <4>3, <5>1
          <5>3. seen[r][o] \in Nat /\ seen[r][o] < n
            BY <1>2, <1>6, <5>2, CapTyped DEF CapNoted, Capture!Knows
          <5> QED BY <1>2, <3>3, <5>1, <5>2, <5>3 DEF CapNoted
        <4> QED BY <1>7, <3>3, <4>1, <4>2, <4>3
      <3>4. CASE x = r /\ k # Len(handled[r]) + 1
        <4>1. k \in 1..Len(handled[r]) /\ handled'[x][k] = handled[x][k]
          BY <1>11, <3>1, <3>4
        <4>2. CapNoted(x, handled[x][k].from, handled[x][k].seq)'
          BY <2>2, <3>1, <3>4, <4>1 DEF CapNoted
        <4>3. ASSUME j < k PROVE j \in 1..Len(handled[r]) /\ handled'[x][j] = handled[x][j]
          BY <1>11, <3>1, <3>4, <4>1, <4>3
        <4> QED BY <2>1, <3>1, <3>4, <4>1, <4>2, <4>3 DEF CapInv, CapHandled
      <3> QED BY <3>2, <3>3, <3>4
    <2> QED BY <2>4 DEF CapHandled
  <1>15. CapFlooded'
    <2> SUFFICES ASSUME commands = 0, NEW a \in Routers \ timed, NEW e \in enabled,
                        Capture!Knows(a, a)', QueryPeer[e] \in enabled, CapLatest(QueryOwner[e], a)'
                 PROVE  \/ CapLatest(QueryOwner[QueryPeer[e]], a)'
                        \/ [at |-> QueryPeer[e], q |-> [from |-> a, seq |-> seen'[a][a]]] \in ToSet(wire)'
      BY DEF CapFlooded
    <2>1. /\ QueryOwner[e] \in Routers /\ QueryOwner[QueryPeer[e]] \in Routers
          /\ e \in QueryPorts /\ QueryPeer[e] \in QueryPorts /\ QueryPeer[QueryPeer[e]] = e
      BY <1>2, QueryAssumption DEF CapTypes
    <2>2. Capture!Knows(a, a) /\ seen'[a][a] = seen[a][a]
      BY <1>7, <1>8
    <2> DEFINE y == [at |-> QueryPeer[e], q |-> [from |-> a, seq |-> seen[a][a]]]
               t == QueryOwner[QueryPeer[e]]
    <2>3. CapLatest(t, a) /\ ~(t = r /\ a = o) => CapLatest(t, a)'
      BY <1>8, <2>1, <2>2 DEF CapLatest
    <2>4. CASE ~(QueryOwner[e] = r /\ a = o)
      <3>1. CapLatest(QueryOwner[e], a)
        BY <1>8, <2>1, <2>2, <2>4 DEF CapLatest
      <3>2. CapLatest(t, a) \/ y \in ToSet(wire)
        BY <2>2, <3>1 DEF CapInv, CapFlooded
      <3>3. CASE t = r /\ a = o /\ CapLatest(t, a)
        <4>1. seen[r][o] < n /\ seen[r][o] = seen[o][o] /\ n <= seen[o][o] /\ seen[o][o] \in Nat
          BY <1>2, <1>5, <1>6, <3>3, CapTyped DEF CapLatest, CapNoted, Capture!Knows
        <4> QED BY <1>2, <4>1
      <3>4. CASE y = Head(wire)
        <4>1. p = QueryPeer[e] /\ a = o /\ n = seen[a][a]
          <5>1. y.at = QueryPeer[e] /\ y.q.from = a /\ y.q.seq = seen[a][a]
            OBVIOUS
          <5> QED BY <3>4, <5>1
        <4>2. t = r
          BY <4>1
        <4> QED BY <1>8, <2>2, <4>1, <4>2 DEF CapLatest, Capture!Knows
      <3>5. CASE y \in ToSet(Tail(wire))
        BY <1>9, <2>2, <3>5
      <3> QED BY <1>1, <2>3, <3>2, <3>3, <3>4, <3>5
    <2>5. CASE QueryOwner[e] = r /\ a = o
      <3>1. n = seen[o][o]
        BY <1>8, <2>2, <2>5 DEF CapLatest
      <3>2. CASE e # p
        <4>1. [at |-> QueryPeer[e], q |-> q] \in ToSet(wire)'
          BY <1>9, <2>5, <3>2
        <4>2. q = [from |-> a, seq |-> seen[a][a]]
          BY <2>5, <3>1
        <4> QED BY <2>2, <4>1, <4>2
      <3>3. CASE e = p
        <4>1. t = s
          BY <3>3
        <4>2. CASE s = r
          BY <1>8, <2>2, <2>5, <3>1, <4>1, <4>2 DEF CapLatest, Capture!Knows
        <4>3. CASE s # r
          <5>1. o \in DOMAIN seen[s] /\ n <= seen[s][o] /\ seen[s][o] <= seen[o][o]
            BY <1>4, <1>5 DEF CapNoted, Capture!Knows
          <5>2. seen[s][o] \in Nat
            BY <1>2, <5>1, CapTyped
          <5>3. CapLatest(s, o)
            BY <1>2, <3>1, <5>1, <5>2 DEF CapLatest, Capture!Knows
          <5> QED BY <2>3, <2>5, <4>1, <4>3, <5>3
        <4> QED BY <4>2, <4>3
      <3> QED BY <3>2, <3>3
    <2> QED BY <2>4, <2>5
  <1>16. CapStored'
    <2>1. CapNoted(o, o, n)'
      BY <1>2, <1>5, <1>8
    <2>2. \A m \in mail : CapNoted(m.to, m.to, m.seq)'
      BY <1>2, <1>8 DEF CapInv, CapStored, CapTypes, CapReply
    <2>3. \A m \in mail' : CapNoted(m.to, m.to, m.seq)'
      <3>1. new.to = o /\ new.seq = n
        OBVIOUS
      <3> QED BY <1>10, <2>1, <2>2, <3>1
    <2>4. \A a \in Routers : \A k \in DOMAIN replies[a] : CapNoted(a, a, replies[a][k].seq)'
      BY <1>2, <1>8, CapTyped DEF CapInv, CapStored, CapReply
    <2> QED BY <2>3, <2>4 DEF CapInv, CapStored
  <1>17. CapKept'
    <2> SUFFICES ASSUME losses = 0, died = "no", NEW b \in Routers, NEW z \in ToSet(handled[b])'
                 PROVE  CapAnswered(b, z)'
      BY DEF CapKept
    <2>1. CASE z \in ToSet(handled[b])
      <3>1. CapAnswered(b, z)
        BY <2>1 DEF CapInv, CapKept
      <3> QED BY <1>10, <3>1 DEF CapAnswered
    <2>2. CASE z \notin ToSet(handled[b])
      <3>1. b = r /\ z = q
        <4>1. PICK k \in DOMAIN handled'[b] : handled'[b][k] = z
          BY DEF ToSet
        <4>2. \A i \in DOMAIN handled[b] : handled[b][i] # z
          BY <2>2 DEF ToSet
        <4>3. DOMAIN handled[r] = 1..Len(handled[r]) /\ Len(handled[r]) \in Nat
          BY <1>2, CapTyped
        <4>4. b = r
          BY <1>11, <4>1, <4>2
        <4>5. k = Len(handled[r]) + 1
          BY <1>11, <4>1, <4>2, <4>3, <4>4
        <4> QED BY <1>11, <4>1, <4>4, <4>5
      <3>2. new \in mail' /\ new.to = o /\ new.by = r /\ new.seq = n
        BY <1>10
      <3> QED BY <3>1, <3>2 DEF CapAnswered
    <2> QED BY <2>1, <2>2
  <1>18. CapSizes' /\ died' # "assert"
    <2>1. size[r] = 1 => new.size = 1
      OBVIOUS
    <2> QED BY <1>2, <1>10, <2>1 DEF CapInv, CapSizes
  <1> QED BY <1>12, <1>13, <1>14, <1>15, <1>16, <1>17, <1>18 DEF CapInv

LEMMA CapRecvQueryStep ==
  ASSUME CapInv, Capture!RecvQuery
  PROVE  CapInv'
  <1> DEFINE x == Head(wire)
             p == x.at
             q == x.q
             r == QueryOwner[p]
  <1>1. wire # << >> /\ UNCHANGED <<enabled, timed, replies, size, queries, commands, losses>>
    BY DEF Capture!RecvQuery
  <1>2. x \in ToSet(wire)
    BY <1>1, CapHead DEF CapInv
  <1>3. ~(q.from = r /\ ~Capture!Knows(r, r))
    <2>1. /\ CapNoted(QueryOwner[QueryPeer[x.at]], x.q.from, x.q.seq)
          /\ QueryOwner[QueryPeer[x.at]] \in Routers
      BY <1>2, CapWire DEF CapInv, CapSeen
    <2>2. Capture!Knows(q.from, q.from)
      BY <2>1 DEF CapInv, CapSeen, CapNoted, Capture!Knows
    <2> QED BY <2>2
  <1>4. UNCHANGED died
    BY <1>3 DEF Capture!RecvQuery
  <1>5. CASE p \notin enabled \/ ~Capture!Fresh(r, q)
    <2>1. wire' = Tail(wire) /\ UNCHANGED <<seen, mail, handled>>
      BY <1>5 DEF Capture!RecvQuery
    <2> HIDE DEF x
    <2>2. x = Head(wire)
      BY DEF x
    <2> QED BY <1>1, <1>4, <1>5, <2>1, <2>2, CapDropStep
  <1>6. CASE p \in enabled /\ Capture!Fresh(r, q)
    <2>1. /\ wire' = Capture!Flood(Tail(wire), r, p, q) /\ Capture!Note(r, q.from, q.seq)
          /\ mail' = mail \cup {[to |-> q.from, by |-> r, seq |-> q.seq, size |-> size[r]]}
          /\ handled' = [handled EXCEPT ![r] = Append(handled[r], q)]
      BY <1>3, <1>6 DEF Capture!RecvQuery
    <2>2. x = [at |-> p, q |-> q] /\ q = [from |-> q.from, seq |-> q.seq]
      <3>1. x \in CapCopy
        BY <1>2, Elements DEF CapInv, CapTypes
      <3> QED BY <3>1 DEF CapCopy, CapQuery
    <2>3. Capture!Knows(r, q.from) => seen[r][q.from] < q.seq
      BY <1>6 DEF Capture!Fresh
    <2> HIDE DEF p, q, r
    <2>4. PICK o, n, s : o = q.from /\ n = q.seq /\ s = QueryOwner[QueryPeer[p]]
      OBVIOUS
    <2>5. /\ Head(wire) = [at |-> p, q |-> q] /\ q = [from |-> o, seq |-> n] /\ r = QueryOwner[p]
          /\ Capture!Knows(r, o) => seen[r][o] < n
          /\ wire' = Capture!Flood(Tail(wire), r, p, q) /\ Capture!Note(r, o, n)
          /\ mail' = mail \cup {[to |-> o, by |-> r, seq |-> n, size |-> size[r]]}
      BY <2>1, <2>2, <2>3, <2>4 DEF r
    <2> QED BY <1>1, <1>4, <1>6, <2>1, <2>4, <2>5, CapTakeStep
  <1> QED BY <1>5, <1>6

------------------------------------------------------------------------------
(* Replies *)

\* An element in front of a sequence.
LEMMA ConsPositions ==
  ASSUME NEW S, NEW s \in Seq(S), NEW e \in S
  PROVE  /\ <<e>> \o s \in Seq(S) /\ Len(s) \in Nat /\ DOMAIN s = 1..Len(s)
         /\ DOMAIN (<<e>> \o s) = 1..(Len(s) + 1)
         /\ (<<e>> \o s)[1] = e /\ \A k \in 1..Len(s) : (<<e>> \o s)[k + 1] = s[k]
  <1>1. <<e>> \in Seq(S) /\ Len(<<e>>) = 1 /\ <<e>>[1] = e
    OBVIOUS
  <1>2. Len(s) \in Nat /\ DOMAIN s = 1..Len(s)
    BY Elements
  <1>3. /\ <<e>> \o s \in Seq(S) /\ Len(<<e>> \o s) = 1 + Len(s)
        /\ \A k \in 1..(1 + Len(s)) : (<<e>> \o s)[k] = IF k <= 1 THEN <<e>>[k] ELSE s[k - 1]
    BY <1>1, ConcatProperties
  <1>4. \A k \in 1..Len(s) : (<<e>> \o s)[k + 1] = s[k]
    <2> TAKE k \in 1..Len(s)
    <2>1. k + 1 \in 1..(1 + Len(s)) /\ ~(k + 1 <= 1) /\ (k + 1) - 1 = k
      BY <1>2
    <2> QED BY <1>3, <2>1
  <1>5. DOMAIN (<<e>> \o s) = 1..(Len(s) + 1)
    BY <1>2, <1>3, Elements
  <1>6. (<<e>> \o s)[1] = e
    BY <1>1, <1>2, <1>3
  <1> QED BY <1>2, <1>3, <1>4, <1>5, <1>6

\* A lost reply leaves what is stored as it was.
LEMMA CapLoseStep ==
  ASSUME CapInv, NEW m \in mail, Capture!LoseReply(m)
  PROVE  CapInv'
  <1>1. /\ losses' = losses + 1 /\ mail' = mail \ {m}
        /\ UNCHANGED <<enabled, seen, timed, wire, replies, size, died, handled, commands>>
    BY DEF Capture!LoseReply
  <1>2. losses \in Nat /\ losses' \in Nat /\ losses' # 0
    BY <1>1 DEF CapInv, CapTypes
  <1>3. CapTypes'
    BY <1>1, <1>2 DEF CapInv, CapTypes
  <1>4. CapSeen' /\ CapHandled' /\ CapFlooded'
    BY <1>1 DEF CapInv, CapSeen, CapHandled, CapFlooded, CapNoted, CapLatest, Capture!Knows, ToSet
  <1>5. CapStored' /\ CapSizes' /\ CapKept' /\ died' # "assert"
    BY <1>1, <1>2 DEF CapInv, CapStored, CapSizes, CapKept, CapNoted, Capture!Knows
  <1> QED BY <1>3, <1>4, <1>5 DEF CapInv

\* What a reply leaves alone.
LEMMA CapOthersKept ==
  ASSUME CapInv, UNCHANGED <<enabled, seen, timed, wire, handled, commands>>
  PROVE  CapSeen' /\ CapHandled' /\ CapFlooded'
  BY DEF CapInv, CapSeen, CapHandled, CapFlooded, CapNoted, CapLatest, Capture!Knows, ToSet

\* The first reply of a router goes in front of the others.
LEMMA CapFirstStep ==
  ASSUME CapInv, NEW m \in mail, mail' = mail \ {m}, NEW o, o = m.to,
         replies' = [replies EXCEPT ![o] = <<m>> \o replies[o]],
         \A k \in DOMAIN replies[o] : replies[o][k].by # m.by,
         UNCHANGED <<enabled, seen, timed, wire, size, handled, commands, losses, died>>
  PROVE  CapInv'
  <1>1. /\ CapTypes /\ m \in CapReply /\ o \in Routers /\ m.seq \in Nat /\ CapNoted(o, o, m.seq)
        /\ replies \in [Routers -> Seq(CapReply)] /\ replies[o] \in Seq(CapReply)
    BY DEF CapInv, CapTypes, CapReply, CapStored
  <1> DEFINE s == replies[o]
             t == <<m>> \o replies[o]
  <1>2. /\ t \in Seq(CapReply) /\ Len(s) \in Nat /\ DOMAIN s = 1..Len(s) /\ DOMAIN t = 1..(Len(s) + 1)
        /\ t[1] = m /\ \A k \in 1..Len(s) : t[k + 1] = s[k]
    BY <1>1, ConsPositions
  <1> HIDE DEF s, t
  <1>3. /\ replies' \in [Routers -> Seq(CapReply)] /\ replies'[o] = t
        /\ \A x \in Routers : x # o => replies'[x] = replies[x]
    BY <1>1, <1>2 DEF t
  <1>4. \A k \in DOMAIN t : k = 1 \/ (k - 1 \in DOMAIN s /\ t[k] = s[k - 1])
    <2> TAKE k \in DOMAIN t
    <2>1. k # 1 => k - 1 \in 1..Len(s) /\ (k - 1) + 1 = k
      BY <1>2
    <2> QED BY <1>2, <2>1
  <1>5. CapTypes'
    BY <1>1, <1>3 DEF CapTypes
  <1>6. CapStored'
    <2>1. \A x \in mail' : CapNoted(x.to, x.to, x.seq)'
      BY DEF CapInv, CapStored, CapNoted, Capture!Knows
    <2>2. ASSUME NEW x \in Routers, NEW j \in DOMAIN replies'[x], NEW k \in DOMAIN replies'[x]
          PROVE  /\ j # k => replies'[x][j].by # replies'[x][k].by
                 /\ replies'[x][k].to = x /\ CapNoted(x, x, replies[x][k].seq)'
      <3>1. \A y \in Routers : \A i, l \in DOMAIN replies[y] :
              /\ i # l => replies[y][i].by # replies[y][l].by
              /\ replies[y][l].to = y /\ CapNoted(y, y, replies[y][l].seq)
        BY DEF CapInv, CapStored
      <3>2. CASE x # o
        <4>1. replies'[x] = replies[x]
          BY <1>3, <3>2
        <4>2. /\ j # k => replies[x][j].by # replies[x][k].by
              /\ replies[x][k].to = x /\ CapNoted(x, x, replies[x][k].seq)
          BY <3>1, <4>1
        <4>3. CapNoted(x, x, replies[x][k].seq)'
          BY <4>1, <4>2 DEF CapNoted, Capture!Knows
        <4> QED BY <4>1, <4>2, <4>3
      <3>3. CASE x = o
        <4>1. replies'[x] = t /\ j \in DOMAIN t /\ k \in DOMAIN t
          BY <1>3, <3>3
        <4>2. \A i \in DOMAIN s : s[i].by # m.by
          BY DEF s
        <4>3. \A i, l \in DOMAIN s :
                /\ i # l => s[i].by # s[l].by
                /\ s[l].to = o /\ CapNoted(o, o, s[l].seq)
          BY <1>1, <3>1 DEF s
        <4>4. j # k => t[j].by # t[k].by
          <5>1. CASE j = 1 \/ k = 1
            BY <1>2, <1>4, <4>1, <4>2, <5>1
          <5>2. CASE j # 1 /\ k # 1
            <6>1. j - 1 \in DOMAIN s /\ k - 1 \in DOMAIN s /\ t[j] = s[j - 1] /\ t[k] = s[k - 1]
              BY <1>4, <4>1, <5>2
            <6>2. j # k => j - 1 # k - 1
              BY <1>2, <4>1
            <6> QED BY <4>3, <6>1, <6>2
          <5> QED BY <5>1, <5>2
        <4>5. t[k].to = o /\ CapNoted(o, o, t[k].seq)
          <5>1. CASE k = 1
            <6>1. t[k] = m /\ m.to = o
              BY <1>2, <5>1
            <6> QED BY <1>1, <6>1
          <5>2. CASE k # 1
            <6>1. k - 1 \in DOMAIN s /\ t[k] = s[k - 1]
              BY <1>4, <4>1, <5>2
            <6> QED BY <4>3, <6>1
          <5> QED BY <5>1, <5>2
        <4>6. CapNoted(x, x, replies[x][k].seq)'
          BY <3>3, <4>1, <4>5 DEF CapNoted, Capture!Knows
        <4> QED BY <3>3, <4>1, <4>4, <4>5, <4>6
      <3> QED BY <3>2, <3>3
    <2> QED BY <2>1, <2>2 DEF CapStored
  <1>7. CapKept'
    <2> SUFFICES ASSUME losses = 0, died = "no", NEW b \in Routers, NEW q \in ToSet(handled[b])
                 PROVE  CapAnswered(b, q)'
      BY DEF CapKept, ToSet
    <2>1. CapAnswered(b, q) /\ q \in CapQuery /\ q.from \in Routers /\ q.seq \in Nat
      BY <1>1, CapTyped DEF CapInv, CapKept, CapQuery
    <2>2. CASE \E x \in mail : x # m /\ x.to = q.from /\ x.by = b /\ x.seq = q.seq
      BY <2>2 DEF CapAnswered
    <2>3. CASE m.to = q.from /\ m.by = b /\ m.seq = q.seq
      <3>1. 1 \in DOMAIN replies'[q.from] /\ replies'[q.from][1] = m
        BY <1>2, <1>3, <2>3
      <3>2. q.seq <= m.seq
        BY <2>1, <2>3
      <3> QED BY <2>3, <3>1, <3>2 DEF CapAnswered
    <2>4. CASE \E k \in DOMAIN replies[q.from] : replies[q.from][k].by = b /\ q.seq <= replies[q.from][k].seq
      <3>1. PICK k \in DOMAIN replies[q.from] : replies[q.from][k].by = b /\ q.seq <= replies[q.from][k].seq
        BY <2>4
      <3>2. CASE q.from # o
        BY <1>3, <2>1, <3>1, <3>2 DEF CapAnswered
      <3>3. CASE q.from = o
        <4>1. k \in 1..Len(s) /\ k + 1 \in DOMAIN t /\ t[k + 1] = s[k] /\ s[k] = replies[q.from][k]
          BY <1>2, <3>1, <3>3 DEF s
        <4> QED BY <1>3, <3>1, <3>3, <4>1 DEF CapAnswered
      <3> QED BY <3>2, <3>3
    <2> QED BY <2>1, <2>2, <2>3, <2>4 DEF CapAnswered
  <1>8. CapSizes'
    <2> SUFFICES ASSUME commands = 0 PROVE CapSizes'
      BY DEF CapSizes
    <2>1. /\ died # "badFree" /\ m.size = 1 /\ \A x \in Routers : \A f \in ToSet(replies[x]) : f.size = 1
          /\ (\A x \in Routers : size[x] = 1) /\ \A x \in mail : x.size = 1
      BY DEF CapInv, CapSizes
    <2>2. \A f \in ToSet(t) : f.size = 1
      <3>1. \A i \in DOMAIN s : s[i].size = 1
        BY <1>1, <2>1 DEF s, ToSet
      <3> QED BY <1>2, <1>4, <2>1, <3>1 DEF ToSet
    <2>3. \A x \in Routers : \A f \in ToSet(replies'[x]) : f.size = 1
      BY <1>3, <2>1, <2>2
    <2> QED BY <2>1, <2>3 DEF CapSizes, ToSet
  <1>9. CapSeen' /\ CapHandled' /\ CapFlooded' /\ died' # "assert"
    BY CapOthersKept DEF CapInv
  <1> QED BY <1>5, <1>6, <1>7, <1>8, <1>9 DEF CapInv

\* A reply that is no newer than the stored one is dropped; one of another
\* length ends the process.
LEMMA CapIgnoreStep ==
  ASSUME CapInv, NEW m \in mail, mail' = mail \ {m}, NEW o, o = m.to,
         NEW k \in DOMAIN replies[o], replies[o][k].by = m.by, UNCHANGED replies,
         UNCHANGED <<enabled, seen, timed, wire, size, handled, commands, losses>>,
         \/ died' = died /\ ~(replies[o][k].seq < m.seq)
         \/ died' = "badFree" /\ replies[o][k].size # m.size
  PROVE  CapInv'
  <1>1. CapTypes /\ m \in CapReply /\ o \in Routers /\ m.seq \in Nat
    BY DEF CapInv, CapTypes, CapReply
  <1>2. replies[o][k] \in CapReply /\ replies[o][k].seq \in Nat /\ replies[o][k] \in ToSet(replies[o])
    BY <1>1, CapTyped DEF CapReply, ToSet
  <1>3. CapTypes'
    BY <1>1 DEF CapTypes
  <1>4. CapStored'
    BY DEF CapInv, CapStored, CapNoted, Capture!Knows
  <1>5. CapKept'
    <2> SUFFICES ASSUME losses = 0, died' = "no", NEW b \in Routers, NEW q \in ToSet(handled[b])
                 PROVE  CapAnswered(b, q)'
      BY DEF CapKept, ToSet
    <2>1. died = "no" /\ ~(replies[o][k].seq < m.seq)
      OBVIOUS
    <2>2. CapAnswered(b, q) /\ q.seq \in Nat
      BY <1>1, <2>1, CapTyped DEF CapInv, CapKept, CapQuery
    <2>3. CASE m.to = q.from /\ m.by = b /\ m.seq = q.seq
      <3>1. q.seq <= replies[q.from][k].seq /\ k \in DOMAIN replies[q.from] /\ replies[q.from][k].by = b
        BY <1>1, <1>2, <2>1, <2>2, <2>3
      <3> QED BY <3>1 DEF CapAnswered
    <2>4. CASE ~(m.to = q.from /\ m.by = b /\ m.seq = q.seq)
      BY <2>2, <2>4 DEF CapAnswered
    <2> QED BY <2>3, <2>4
  <1>6. CapSizes'
    <2> SUFFICES ASSUME commands = 0 PROVE CapSizes'
      BY DEF CapSizes
    <2>1. CapSizes /\ replies[o][k].size = 1 /\ m.size = 1
      BY <1>1, <1>2 DEF CapInv, CapSizes
    <2>2. died' = died
      BY <2>1
    <2> QED BY <2>1, <2>2 DEF CapSizes, ToSet
  <1>7. CapSeen' /\ CapHandled' /\ CapFlooded' /\ died' # "assert"
    BY CapOthersKept DEF CapInv
  <1> QED BY <1>3, <1>4, <1>5, <1>6, <1>7 DEF CapInv

\* A newer reply takes the place of the stored one.
LEMMA CapReplaceStep ==
  ASSUME CapInv, NEW m \in mail, mail' = mail \ {m}, NEW o, o = m.to,
         NEW k \in DOMAIN replies[o], replies[o][k].by = m.by, replies[o][k].seq < m.seq,
         replies' = [replies EXCEPT ![o] = [replies[o] EXCEPT ![k] = m]],
         UNCHANGED <<enabled, seen, timed, wire, size, handled, commands, losses, died>>
  PROVE  CapInv'
  <1>1. /\ CapTypes /\ m \in CapReply /\ o \in Routers /\ m.seq \in Nat /\ CapNoted(o, o, m.seq)
        /\ replies \in [Routers -> Seq(CapReply)] /\ replies[o] \in Seq(CapReply)
    BY DEF CapInv, CapTypes, CapReply, CapStored
  <1> DEFINE s == replies[o]
             t == [replies[o] EXCEPT ![k] = m]
  <1>2. t \in Seq(CapReply) /\ DOMAIN t = DOMAIN s /\ t[k] = m /\ \A j \in DOMAIN s : j # k => t[j] = s[j]
    <2>1. t \in Seq(CapReply)
      BY <1>1, ExceptSeq, LenProperties
    <2> QED BY <2>1
  <1>3. k \in DOMAIN s /\ s[k].by = m.by /\ s[k].seq < m.seq /\ s[k].seq \in Nat
    BY <1>1, CapTyped DEF CapReply
  <1> HIDE DEF s, t
  <1>4. /\ replies' \in [Routers -> Seq(CapReply)] /\ replies'[o] = t
        /\ \A x \in Routers : x # o => replies'[x] = replies[x]
    BY <1>1, <1>2 DEF t
  <1>5. CapTypes'
    BY <1>1, <1>4 DEF CapTypes
  <1>6. \A j \in DOMAIN s : t[j].by = s[j].by
    BY <1>2, <1>3
  <1>7. CapStored'
    <2>1. \A x \in mail' : CapNoted(x.to, x.to, x.seq)'
      BY DEF CapInv, CapStored, CapNoted, Capture!Knows
    <2>2. ASSUME NEW x \in Routers, NEW j \in DOMAIN replies'[x], NEW l \in DOMAIN replies'[x]
          PROVE  /\ j # l => replies'[x][j].by # replies'[x][l].by
                 /\ replies'[x][l].to = x /\ CapNoted(x, x, replies[x][l].seq)'
      <3>1. \A y \in Routers : \A i, h \in DOMAIN replies[y] :
              /\ i # h => replies[y][i].by # replies[y][h].by
              /\ replies[y][h].to = y /\ CapNoted(y, y, replies[y][h].seq)
        BY DEF CapInv, CapStored
      <3>2. CASE x # o
        <4>1. replies'[x] = replies[x]
          BY <1>4, <3>2
        <4> QED BY <3>1, <4>1 DEF CapNoted, Capture!Knows
      <3>3. CASE x = o
        <4>1. replies'[x] = t /\ j \in DOMAIN s /\ l \in DOMAIN s
          BY <1>2, <1>4, <3>3
        <4>2. \A i, h \in DOMAIN s :
                /\ i # h => s[i].by # s[h].by
                /\ s[h].to = o /\ CapNoted(o, o, s[h].seq)
          BY <1>1, <3>1 DEF s
        <4>3. j # l => t[j].by # t[l].by
          BY <1>6, <4>1, <4>2
        <4>4. t[l].to = o /\ CapNoted(o, o, t[l].seq)
          <5>1. CASE l = k
            <6>1. t[l] = m /\ m.to = o
              BY <1>2, <5>1
            <6> QED BY <1>1, <6>1
          <5>2. CASE l # k
            <6>1. t[l] = s[l]
              BY <1>2, <4>1, <5>2
            <6> QED BY <4>1, <4>2, <6>1
          <5> QED BY <5>1, <5>2
        <4>5. CapNoted(x, x, replies[x][l].seq)'
          BY <3>3, <4>1, <4>4 DEF CapNoted, Capture!Knows
        <4> QED BY <3>3, <4>1, <4>3, <4>4, <4>5
      <3> QED BY <3>2, <3>3
    <2> QED BY <2>1, <2>2 DEF CapStored
  <1>8. CapKept'
    <2> SUFFICES ASSUME losses = 0, died = "no", NEW b \in Routers, NEW q \in ToSet(handled[b])
                 PROVE  CapAnswered(b, q)'
      BY DEF CapKept, ToSet
    <2>1. CapAnswered(b, q) /\ q.from \in Routers /\ q.seq \in Nat
      BY <1>1, CapTyped DEF CapInv, CapKept, CapQuery
    <2>2. CASE \E x \in mail : x # m /\ x.to = q.from /\ x.by = b /\ x.seq = q.seq
      BY <2>2 DEF CapAnswered
    <2>3. CASE q.from = o /\ m.by = b /\ q.seq <= m.seq
      <3>1. k \in DOMAIN replies'[q.from] /\ replies'[q.from][k] = m
        BY <1>2, <1>3, <1>4, <2>3
      <3> QED BY <2>3, <3>1 DEF CapAnswered
    <2>4. CASE \E j \in DOMAIN replies[q.from] : replies[q.from][j].by = b /\ q.seq <= replies[q.from][j].seq
      <3>1. PICK j \in DOMAIN replies[q.from] : replies[q.from][j].by = b /\ q.seq <= replies[q.from][j].seq
        BY <2>4
      <3>2. CASE q.from # o
        BY <1>4, <2>1, <3>1, <3>2 DEF CapAnswered
      <3>3. CASE q.from = o /\ j = k
        <4>1. m.by = b /\ q.seq <= m.seq
          BY <1>1, <1>3, <2>1, <3>1, <3>3 DEF s
        <4> QED BY <2>3, <3>3, <4>1
      <3>4. CASE q.from = o /\ j # k
        <4>1. j \in DOMAIN replies'[q.from] /\ replies'[q.from][j] = replies[q.from][j]
          BY <1>2, <1>4, <3>1, <3>4 DEF s
        <4> QED BY <3>1, <4>1 DEF CapAnswered
      <3> QED BY <3>2, <3>3, <3>4
    <2>5. \/ \E x \in mail : x # m /\ x.to = q.from /\ x.by = b /\ x.seq = q.seq
          \/ m.to = q.from /\ m.by = b /\ m.seq = q.seq
          \/ \E j \in DOMAIN replies[q.from] : replies[q.from][j].by = b /\ q.seq <= replies[q.from][j].seq
      BY <2>1 DEF CapAnswered
    <2>6. m.to = q.from /\ m.by = b /\ m.seq = q.seq => q.from = o /\ q.seq <= m.seq
      BY <2>1
    <2> QED BY <2>2, <2>3, <2>4, <2>5, <2>6
  <1>9. CapSizes'
    <2> SUFFICES ASSUME commands = 0 PROVE CapSizes'
      BY DEF CapSizes
    <2>1. /\ died # "badFree" /\ m.size = 1 /\ \A x \in Routers : \A f \in ToSet(replies[x]) : f.size = 1
          /\ (\A x \in Routers : size[x] = 1) /\ \A x \in mail : x.size = 1
      BY DEF CapInv, CapSizes
    <2>2. \A f \in ToSet(t) : f.size = 1
      <3>1. \A i \in DOMAIN s : s[i].size = 1
        BY <1>1, <2>1 DEF s, ToSet
      <3> QED BY <1>2, <2>1, <3>1 DEF ToSet
    <2>3. \A x \in Routers : \A f \in ToSet(replies'[x]) : f.size = 1
      BY <1>4, <2>1, <2>2
    <2> QED BY <2>1, <2>3 DEF CapSizes, ToSet
  <1>10. CapSeen' /\ CapHandled' /\ CapFlooded' /\ died' # "assert"
    BY CapOthersKept DEF CapInv
  <1> QED BY <1>5, <1>7, <1>8, <1>9, <1>10 DEF CapInv

\* The stored reply of a router is the only one.
LEMMA CapRecvReplyStep ==
  ASSUME CapInv, NEW m \in mail, Capture!RecvReply(m)
  PROVE  CapInv'
  <1> DEFINE o == m.to
             K == {k \in DOMAIN replies[o] : replies[o][k].by = m.by}
  <1>1. K = Capture!Stored(m.to, m)
    BY DEF Capture!Stored
  <1>2. mail' = mail \ {m} /\ UNCHANGED <<enabled, seen, timed, wire, size, handled, commands, losses>>
    BY DEF Capture!RecvReply
  <1>3. CapTypes /\ m \in CapReply /\ o \in Routers
    BY DEF CapInv, CapTypes, CapReply
  <1>4. CASE K = {}
    <2>1. replies' = [replies EXCEPT ![o] = <<m>> \o replies[o]] /\ UNCHANGED died
      BY <1>1, <1>4 DEF Capture!RecvReply
    <2>2. \A k \in DOMAIN replies[o] : replies[o][k].by # m.by
      BY <1>4
    <2> HIDE DEF o
    <2>3. o = m.to
      BY DEF o
    <2> QED BY <1>2, <2>1, <2>2, <2>3, CapFirstStep
  <1>5. CASE K # {}
    <2>1. PICK k \in K : TRUE
      BY <1>5
    <2>2. DOMAIN replies[o] \subseteq Nat
      BY <1>3, CapTyped
    <2>3. K = {k}
      <3>1. \A i, j \in DOMAIN replies[o] : i # j => replies[o][i].by # replies[o][j].by
        BY <1>3 DEF CapInv, CapStored
      <3> QED BY <2>1, <3>1
    <2>4. Capture!Min(K) = k
      BY <2>2, <2>3 DEF Capture!Min
    <2> HIDE DEF K
    <2>5. IF ~(replies[o][k].seq < m.seq) THEN UNCHANGED <<replies, died>>
          ELSE IF replies[o][k].size # m.size THEN died' = "badFree" /\ UNCHANGED replies
          ELSE replies' = [replies EXCEPT ![o][k] = m] /\ UNCHANGED died
      BY <1>1, <1>5, <2>4 DEF Capture!RecvReply, Capture!Older
    <2>6. k \in DOMAIN replies[o] /\ replies[o][k].by = m.by
      BY <2>1 DEF K
    <2> HIDE DEF o
    <2>7. o = m.to
      BY DEF o
    <2>8. CASE replies[o][k].seq < m.seq /\ replies[o][k].size = m.size
      <3>1. replies' = [replies EXCEPT ![o] = [replies[o] EXCEPT ![k] = m]] /\ UNCHANGED died
        BY <2>5, <2>8
      <3> QED BY <1>2, <2>6, <2>7, <2>8, <3>1, CapReplaceStep
    <2>9. CASE ~(replies[o][k].seq < m.seq /\ replies[o][k].size = m.size)
      <3>1. /\ UNCHANGED replies
            /\ \/ died' = died /\ ~(replies[o][k].seq < m.seq)
               \/ died' = "badFree" /\ replies[o][k].size # m.size
        BY <2>5, <2>9
      <3> QED BY <1>2, <2>6, <2>7, <3>1, CapIgnoreStep
    <2> QED BY <2>8, <2>9
  <1> QED BY <1>4, <1>5

------------------------------------------------------------------------------
(* Commands, and the result *)

LEMMA CapCommandStep ==
  ASSUME CapInv, \/ \E p \in Switched : Capture!Switch(p)
                 \/ \E r \in Readdressed : Capture!Readdress(r)
  PROVE  CapInv'
  <1>1. /\ commands' = commands + 1 /\ UNCHANGED <<seen, timed, wire, mail, replies, died, handled, losses>>
        /\ enabled' \subseteq QueryPorts /\ size' \in [Routers -> {1, 2}]
    <2>1. CASE \E p \in Switched : Capture!Switch(p)
      BY <2>1, QueryAssumption DEF CapInv, CapTypes, Capture!Switch, Capture!Commands
    <2>2. CASE \E r \in Readdressed : Capture!Readdress(r)
      <3>1. PICK r \in Readdressed : Capture!Readdress(r)
        BY <2>2
      <3>2. /\ commands' = commands + 1 /\ size' = [size EXCEPT ![r] = 3 - size[r]]
            /\ UNCHANGED <<seen, timed, wire, mail, replies, died, handled, losses, enabled>>
        BY <3>1 DEF Capture!Readdress, Capture!Commands
      <3>3. r \in Routers /\ size \in [Routers -> {1, 2}] /\ enabled \subseteq QueryPorts
        BY QueryAssumption DEF CapInv, CapTypes
      <3>4. 3 - size[r] \in {1, 2}
        BY <3>3
      <3>5. size' \in [Routers -> {1, 2}]
        BY <3>2, <3>3, <3>4
      <3> QED BY <3>2, <3>3, <3>5
    <2> QED BY <2>1, <2>2
  <1>2. commands' \in Nat /\ commands' # 0
    BY <1>1 DEF CapInv, CapTypes
  <1>3. CapTypes'
    BY <1>1, <1>2 DEF CapInv, CapTypes
  <1>4. CapSeen' /\ CapHandled' /\ CapFlooded'
    BY <1>1, <1>2 DEF CapInv, CapSeen, CapHandled, CapFlooded, CapNoted, Capture!Knows, ToSet
  <1>5. CapStored' /\ CapKept' /\ CapSizes' /\ died' # "assert"
    BY <1>1, <1>2 DEF CapInv, CapStored, CapKept, CapSizes, CapNoted, CapAnswered, Capture!Knows
  <1> QED BY <1>3, <1>4, <1>5 DEF CapInv

LEMMA CapInit == Capture!Init => CapInv
  <1> SUFFICES ASSUME Capture!Init PROVE CapInv
    OBVIOUS
  <1>1. CapTypes
    BY DEF Capture!Init, CapTypes
  <1>2. ToSet(wire) = {} /\ \A r \in Routers : DOMAIN seen[r] = {}
    BY DEF Capture!Init, ToSet
  <1>3. \A r \in Routers : /\ DOMAIN replies[r] = {} /\ ToSet(replies[r]) = {}
                            /\ DOMAIN handled[r] = {} /\ ToSet(handled[r]) = {}
    BY DEF Capture!Init, ToSet
  <1>4. CapSeen /\ CapHandled /\ CapFlooded
    BY <1>2, <1>3 DEF CapSeen, CapHandled, CapFlooded, Capture!Knows
  <1>5. CapStored /\ CapKept /\ CapSizes /\ died # "assert"
    BY <1>3 DEF Capture!Init, CapStored, CapKept, CapSizes
  <1> QED BY <1>1, <1>4, <1>5 DEF CapInv

\* Every step of the protocol keeps the invariant.
LEMMA CapStep ==
  ASSUME CapInv, [Capture!Next]_Capture!vars
  PROVE  CapInv'
  <1>1. ASSUME NEW r \in Askers, Capture!Query(r) \/ Capture!QueryPeriodic(r) \/ Capture!QueryTimer(r)
        PROVE  CapInv'
    <2>1. r \in Routers
      BY QueryAssumption
    <2>2. CASE Capture!QueryPeriodic(r)
      BY <2>1, <2>2, CapPeriodicStep
    <2>3. CASE Capture!Query(r) \/ Capture!QueryTimer(r)
      <3>1. Capture!Ask(r) /\ UNCHANGED timed
        BY <2>3 DEF Capture!Query, Capture!QueryTimer
      <3> QED BY <2>1, <3>1, CapAskStep
    <2> QED BY <1>1, <2>2, <2>3
  <1>2. CASE Capture!RecvQuery
    BY <1>2, CapRecvQueryStep
  <1>3. CASE \E m \in mail : Capture!RecvReply(m) \/ Capture!LoseReply(m)
    BY <1>3, CapRecvReplyStep, CapLoseStep
  <1>4. CASE \/ \E p \in Switched : Capture!Switch(p)
             \/ \E r \in Readdressed : Capture!Readdress(r)
    BY <1>4, CapCommandStep
  <1>5. CASE UNCHANGED Capture!vars
    <2>1. UNCHANGED <<enabled, seen, timed, wire, mail, replies, size, died, handled, queries,
                      commands, losses>>
      BY <1>5 DEF Capture!vars
    <2>2. CapSeen' /\ CapHandled' /\ CapFlooded'
      BY <2>1, CapOthersKept
    <2>3. CapTypes' /\ CapSizes' /\ died' # "assert"
      BY <2>1 DEF CapInv, CapTypes, CapSizes
    <2>4. CapStored'
      BY <2>1 DEF CapInv, CapStored, CapNoted, Capture!Knows
    <2>5. CapKept'
      BY <2>1 DEF CapInv, CapKept, CapAnswered
    <2> QED BY <2>2, <2>3, <2>4, <2>5 DEF CapInv
  <1> QED BY <1>1, <1>2, <1>3, <1>4, <1>5 DEF Capture!Next

\* When no query is on its way, the routers that know the latest query of o are
\* closed under the enabled links: they are all that these connect to o.
LEMMA CapReached ==
  ASSUME CapInv, wire = << >>, commands = 0, NEW o \in Routers \ timed, Capture!Knows(o, o),
         NEW r \in Capture!Connected(o)
  PROVE  Capture!Knows(r, o) /\ seen[r][o] = seen[o][o]
  <1> DEFINE S == {x \in Routers : CapLatest(x, o)}
  <1>1. ToSet(wire) = {}
    BY DEF ToSet
  <1>2. Capture!Closed(S)
    <2> SUFFICES ASSUME NEW p \in enabled, QueryPeer[p] \in enabled, QueryOwner[p] \in S
                 PROVE  QueryOwner[QueryPeer[p]] \in S
      BY DEF Capture!Closed
    <2>1. QueryOwner[QueryPeer[p]] \in Routers
      BY QueryAssumption DEF CapInv, CapTypes
    <2>2. CapLatest(QueryOwner[QueryPeer[p]], o)
      BY <1>1 DEF CapInv, CapFlooded
    <2> QED BY <2>1, <2>2
  <1>3. o \in S /\ S \in SUBSET Routers
    BY DEF CapLatest
  <1>4. r \in S
    <2> HIDE DEF S
    <2> QED BY <1>2, <1>3 DEF Capture!Connected
  <1> QED BY <1>4 DEF CapLatest

LEMMA CapSound ==
  ASSUME CapInv
  PROVE  Capture!DdcpSound
  <1>1. Capture!FloodSound
    <2>1. died # "assert"
      BY DEF CapInv
    <2>2. \A r \in Routers : \A j, k \in DOMAIN handled[r] :
            /\ handled[r][k].from # r
            /\ j < k /\ handled[r][j].from = handled[r][k].from => handled[r][j].seq < handled[r][k].seq
      BY DEF CapInv, CapHandled
    <2>3. wire = << >> /\ commands = 0 =>
            \A o \in Askers \ timed : Capture!Knows(o, o) =>
              \A r \in Capture!Connected(o) \ {o} : Capture!Knows(r, o) /\ seen[r][o] = seen[o][o]
      BY CapReached, QueryAssumption
    <2> QED BY <2>1, <2>2, <2>3 DEF Capture!FloodSound
  <1>2. Capture!RepliesSound
    <2>1. died = "badFree" => commands > 0
      BY DEF CapInv, CapSizes, CapTypes
    <2>2. ASSUME NEW o \in Routers, NEW j \in DOMAIN replies[o], NEW k \in DOMAIN replies[o]
          PROVE  /\ j # k => replies[o][j].by # replies[o][k].by
                 /\ Capture!Sent(o, replies[o][k].seq) /\ replies[o][k].to = o
      BY DEF CapInv, CapStored, CapNoted, Capture!Sent
    <2>3. ASSUME NEW o \in Routers, NEW k \in DOMAIN replies[o], losses = 0, died = "no",
                 NEW q \in ToSet(handled[replies[o][k].by]), q.from = o
          PROVE  \/ q.seq <= replies[o][k].seq
                 \/ \E m \in mail : m.to = o /\ m.by = replies[o][k].by /\ m.seq = q.seq
      <3>1. replies[o][k].by \in Routers
        BY CapTyped DEF CapInv, CapReply
      <3>2. CapAnswered(replies[o][k].by, q)
        BY <2>3, <3>1 DEF CapInv, CapKept
      <3>3. \A j \in DOMAIN replies[o] : replies[o][j].by = replies[o][k].by => j = k
        BY <2>2
      <3> QED BY <2>3, <3>2, <3>3 DEF CapAnswered
    <2>4. ASSUME NEW b \in Routers, NEW q \in Capture!Range(handled[b]) PROVE q \in ToSet(handled[b])
      BY DEF Capture!Range, ToSet
    <2>5. \A o \in Routers : \A k \in DOMAIN replies[o] : replies[o][k].by \in Routers
      BY CapTyped DEF CapInv, CapReply
    <2>6. ASSUME NEW o \in Routers, NEW k \in DOMAIN replies[o], losses = 0, died = "no",
                 NEW q \in Capture!Range(handled[replies[o][k].by]), q.from = o
          PROVE  \/ q.seq <= replies[o][k].seq
                 \/ \E m \in mail : m.to = o /\ m.by = replies[o][k].by /\ m.seq = q.seq
      <3>1. q \in ToSet(handled[replies[o][k].by])
        BY <2>4, <2>5
      <3> QED BY <2>3, <2>6, <3>1
    <2> QED BY ONLY <2>1, <2>2, <2>6 DEF Capture!RepliesSound
  <1> QED BY <1>1, <1>2 DEF Capture!DdcpSound
------------------------------------------------------------------------------
(* Switches.  A frame between switches carries the tag of the VLAN it came   *)
(* in by; and while hosts wait for each other, the copies of the one frame   *)
(* on its way are on different ports and hosts, each nearer to its end.      *)

BrFrame  == [id : Nat, src : Hosts, dst : Hosts \cup {Bridge!Bcast}, tag : Nat, vlan : Nat, by : Nat]
BrPacket == [to : Hosts \cup SwitchPorts, f : BrFrame]
BrGiven  == [f : BrFrame, at : Hosts]

BrTypes ==
  /\ mode \in [SwitchPorts -> {"access", "trunk", "unknown"}] /\ ip \subseteq SwitchPorts
  /\ vlans \in [SwitchPorts -> [1..Slots -> Nat]]
  /\ table = [s \in Switches |-> table[s]]
  /\ \A s \in Switches : /\ DOMAIN table[s] \subseteq Hosts
                         /\ \A x \in DOMAIN table[s] : table[s][x] \in SwitchPorts /\ At[table[s][x]] = s
  /\ wire \in Seq(BrPacket) /\ got \in Seq(BrGiven) /\ frames \in Nat

\* Layer-2 mode is never left, and bars addresses; VLANs follow the mode.
BrModes ==
  \A p \in SwitchPorts :
    /\ p \in ip => mode[p] = "unknown"
    /\ mode[p] = "access" => Bridge!Used(p) \subseteq {1}
    /\ mode[p] = "unknown" => Bridge!Used(p) = {}
    /\ Link[p] \in SwitchPorts => mode[p] = "trunk"

BrLearnt == \A s \in Switches : \A x \in DOMAIN table[s] : Bridge!L2(table[s][x])

BrCarried ==
  /\ \A x \in ToSet(wire) :
       /\ x.to \in Hosts /\ x.f.tag = 0 => x.f.by = x.f.vlan
       /\ x.to \in SwitchPorts /\ Link[x.to] \in SwitchPorts => x.f.vlan = x.f.tag
  /\ \A k \in DOMAIN got : got[k].f.by = got[k].f.vlan

\* The packets on their way are copies of the last frame, none of which its
\* source or a host that has it will get.
BrCopies ==
  /\ IsInjective(wire)
  /\ \A x, y \in ToSet(wire) :
       /\ x.f.src = y.f.src /\ x.f.dst = y.f.dst
       /\ x.to = y.to => x = y
  /\ \A x \in ToSet(wire) :
       /\ x.f.id = frames /\ x.f.src # x.f.dst
       /\ x.to \in Hosts => /\ x.to # x.f.src
                            /\ \A k \in DOMAIN got : got[k].f.id = frames => got[k].at # x.to

\* A switch that has the frame to come is the only one, and neither it nor its
\* hosts saw the frame; the switch it comes from has learnt the source and
\* does not expect the destination elsewhere.
BrToSwitch ==
  \A x \in ToSet(wire) : x.to \in SwitchPorts =>
    /\ x.to = Bridge!Toward(At[x.to], x.f.src)
    /\ \A y \in ToSet(wire) : y # x => y.to \in Hosts /\ At[Bridge!PortTo(y.to)] # At[x.to]
    /\ \A k \in DOMAIN got : got[k].f.id = frames => At[Bridge!PortTo(got[k].at)] # At[x.to]
    /\ Link[x.to] \in Hosts => /\ \A y \in ToSet(wire) : y = x
                               /\ \A k \in DOMAIN got : got[k].f.id # frames
    /\ Link[x.to] \in SwitchPorts =>
         /\ x.f.src \in DOMAIN table[At[Link[x.to]]]
         /\ x.f.dst \in DOMAIN table[At[Link[x.to]]] => At[Bridge!PortTo(x.f.dst)] = At[x.to]

BrTables ==
  \A s \in Switches : \A x \in DOMAIN table[s] :
    table[s][x] = Bridge!Toward(s, x) /\ x \in DOMAIN table[At[Bridge!PortTo(x)]]

BrGot ==
  \A j, k \in DOMAIN got :
    /\ got[k].f.id <= frames /\ got[k].at # got[k].f.src
    /\ j # k => <<got[j].f.id, got[j].at>> # <<got[k].f.id, got[k].at>>

BrIsolated == BrTypes /\ died = FALSE /\ BrModes /\ BrLearnt /\ BrCarried
BrInv == BrIsolated /\ (~raced => BrCopies /\ BrToSwitch /\ BrTables /\ BrGot)

------------------------------------------------------------------------------
(* The network of switches *)

\* A host is behind one port.
LEMMA BrPortTo ==
  ASSUME NEW h \in Hosts
  PROVE  /\ Bridge!PortTo(h) \in SwitchPorts /\ Link[Bridge!PortTo(h)] = h
         /\ At[Bridge!PortTo(h)] \in Switches
         /\ \A p \in SwitchPorts : Link[p] = h => p = Bridge!PortTo(h)
  <1>1. PICK p \in SwitchPorts : Link[p] = h /\ \A q \in SwitchPorts : Link[q] = h => q = p
    BY SwitchAssumption
  <1>2. Bridge!PortTo(h) = p
    BY <1>1 DEF Bridge!PortTo
  <1> QED BY <1>1, <1>2, SwitchAssumption

\* A frame to h leaves s by the port of h, or by the link to its switch.
LEMMA BrToward ==
  ASSUME NEW s \in Switches, NEW h \in Hosts
  PROVE  /\ Bridge!Toward(s, h) \in SwitchPorts /\ At[Bridge!Toward(s, h)] = s
         /\ At[Bridge!PortTo(h)] = s => Bridge!Toward(s, h) = Bridge!PortTo(h)
         /\ Link[Bridge!Toward(s, h)] \in Hosts =>
              Link[Bridge!Toward(s, h)] = h /\ At[Bridge!PortTo(h)] = s
         /\ Link[Bridge!Toward(s, h)] \in SwitchPorts =>
              /\ At[Bridge!PortTo(h)] # s
              /\ At[Link[Bridge!Toward(s, h)]] = At[Bridge!PortTo(h)]
         /\ \A q \in SwitchPorts : At[q] = s /\ Link[q] \in SwitchPorts /\ At[Bridge!PortTo(h)] # s =>
              q = Bridge!Toward(s, h)
  <1>1. /\ Bridge!PortTo(h) \in SwitchPorts /\ Link[Bridge!PortTo(h)] = h
        /\ At[Bridge!PortTo(h)] \in Switches
    BY BrPortTo
  <1> DEFINE t == At[Bridge!PortTo(h)]
  <1> HIDE DEF t
  <1>2. t \in Switches
    BY <1>1 DEF t
  <1>3. CASE t = s
    <2>1. Bridge!Toward(s, h) = Bridge!PortTo(h)
      BY <1>3 DEF Bridge!Toward, t
    <2> QED BY <1>1, <1>3, <2>1, SwitchAssumption DEF t
  <1>4. CASE t # s
    <2> DEFINE P(q) == q \in SwitchPorts /\ At[q] = s /\ Link[q] \in SwitchPorts /\ At[Link[q]] = t
    <2>1. PICK p : P(p)
      BY <1>2, <1>4, TwoSwitchAssumption
    <2>2. \A q \in SwitchPorts : At[q] = s /\ Link[q] \in SwitchPorts => q = p
      BY <2>1, TwoSwitchAssumption
    <2>3. Bridge!Toward(s, h) = p
      <3>1. Bridge!Toward(s, h) = CHOOSE q \in {x \in SwitchPorts : At[x] = s} :
                                    Link[q] \in {x \in SwitchPorts : At[x] = t}
        BY <1>4 DEF Bridge!Toward, Bridge!PortsOf, t
      <3>2. \A q : P(q) => q = p
        BY <2>2
      <3> QED BY <2>1, <3>1, <3>2
    <2> QED BY <1>4, <2>1, <2>2, <2>3, SwitchAssumption DEF t
  <1> QED BY <1>3, <1>4

LEMMA BrTyped ==
  ASSUME BrTypes
  PROVE  /\ \A x \in ToSet(wire) : /\ x \in BrPacket /\ x.f \in BrFrame /\ x.to \in Hosts \cup SwitchPorts
                                   /\ x.f.src \in Hosts /\ x.f.id \in Nat
         /\ DOMAIN got = 1..Len(got) /\ Len(got) \in Nat
         /\ \A k \in DOMAIN got : got[k] \in BrGiven /\ got[k].at \in Hosts /\ got[k].f.id \in Nat
  <1>1. wire \in Seq(BrPacket) /\ got \in Seq(BrGiven)
    BY DEF BrTypes
  <1>2. \A x \in ToSet(wire) : x \in BrPacket
    BY <1>1, Elements
  <1>3. DOMAIN got = 1..Len(got) /\ Len(got) \in Nat /\ \A k \in DOMAIN got : got[k] \in BrGiven
    BY <1>1, Elements
  <1> QED BY <1>2, <1>3 DEF BrPacket, BrFrame, BrGiven

\* What port q makes of frame g.
LEMMA BrSent ==
  ASSUME NEW q \in SwitchPorts, NEW g \in BrFrame, BrTypes
  PROVE  /\ \A y, z \in Bridge!Sent(q, g) : y = z
         /\ \A y \in Bridge!Sent(q, g) :
              /\ y \in BrPacket /\ y.to = Link[q] /\ y.f.id = g.id /\ y.f.src = g.src
              /\ y.f.dst = g.dst /\ y.f.vlan = g.vlan
              /\ mode[q] = "access" => y.f.by = g.tag
              /\ mode[q] = "trunk" => y.f = g /\ g.tag # 0
              /\ mode[q] \in {"access", "trunk"}
  <1>1. Link[q] \in Hosts \cup SwitchPorts /\ vlans[q] \in [1..Slots -> Nat] /\ 1 \in 1..Slots
    BY SwitchAssumption DEF BrTypes
  <1>2. Bridge!AccessVlan(q) \in Nat
    BY <1>1 DEF Bridge!AccessVlan
  <1>3. CASE mode[q] = "access" /\ Bridge!Same(q, g.tag)
    <2>1. Bridge!AccessVlan(q) = g.tag
      BY <1>3 DEF Bridge!Same
    <2> DEFINE a == [[g EXCEPT !.tag = 0] EXCEPT !.by = g.tag]
    <2>2. Bridge!Sent(q, g) = {[to |-> Link[q], f |-> a]}
      BY <1>3, <2>1 DEF Bridge!Sent, Bridge!Untagged
    <2>3. /\ a \in BrFrame /\ a.id = g.id /\ a.src = g.src /\ a.dst = g.dst
          /\ a.vlan = g.vlan /\ a.by = g.tag
      BY <1>2, <2>1 DEF BrFrame
    <2> HIDE DEF a
    <2> QED BY <1>1, <1>3, <2>2, <2>3 DEF BrPacket
  <1>4. CASE mode[q] = "trunk" /\ g.tag # 0 /\ Bridge!Enabled(q, g.tag)
    <2>1. Bridge!Sent(q, g) = {[to |-> Link[q], f |-> g]}
      BY <1>4 DEF Bridge!Sent
    <2> QED BY <1>1, <1>4, <2>1 DEF BrPacket
  <1>5. CASE /\ ~(mode[q] = "access" /\ Bridge!Same(q, g.tag))
             /\ ~(mode[q] = "trunk" /\ g.tag # 0 /\ Bridge!Enabled(q, g.tag))
    BY <1>5 DEF Bridge!Sent
  <1> QED BY <1>3, <1>4, <1>5

\* The copies that the ports of a set make of g go to different places.
LEMMA BrSentAll ==
  ASSUME NEW out \in SUBSET SwitchPorts, NEW g \in BrFrame, BrTypes, NEW C,
         C = UNION {Bridge!Sent(q, g) : q \in out}
  PROVE  /\ IsFiniteSet(C) /\ C \subseteq BrPacket
         /\ \A y, z \in C : y.to = z.to => y = z
         /\ \A y \in C : \E q \in out : y \in Bridge!Sent(q, g)
  <1>1. \A y \in C : \E q \in out : y \in Bridge!Sent(q, g)
    OBVIOUS
  <1>2. C \subseteq BrPacket
    BY <1>1, BrSent
  <1>3. ASSUME NEW y \in C, NEW z \in C, y.to = z.to PROVE y = z
    <2>1. PICK q \in out : y \in Bridge!Sent(q, g)
      BY <1>1
    <2>2. PICK r \in out : z \in Bridge!Sent(r, g)
      BY <1>1
    <2>3. Link[q] = Link[r]
      BY <1>3, <2>1, <2>2, BrSent
    <2>4. q = r
      <3>1. CASE Link[q] \in SwitchPorts
        BY <2>3, <3>1, SwitchAssumption
      <3>2. CASE Link[q] \in Hosts
        BY <2>3, <3>2, BrPortTo
      <3> QED BY <3>1, <3>2, SwitchAssumption
    <2> QED BY <2>1, <2>2, <2>4, BrSent
  <1>4. IsFiniteSet(C)
    <2> DEFINE D == {q \in out : Bridge!Sent(q, g) # {}}
               f == [q \in D |-> CHOOSE y \in Bridge!Sent(q, g) : TRUE]
    <2>1. IsFiniteSet(D)
      <3>1. D \in SUBSET SwitchPorts /\ IsFiniteSet(SwitchPorts)
        BY SwitchAssumption
      <3> QED BY <3>1, FS_Subset
    <2>2. \A q \in D : f[q] \in Bridge!Sent(q, g) /\ q \in out
      OBVIOUS
    <2>3. f \in [D -> C]
      BY <2>2
    <2>4. ASSUME NEW y \in C PROVE \E q \in D : f[q] = y
      <3>1. PICK q \in out : y \in Bridge!Sent(q, g)
        BY <1>1
      <3>2. q \in D
        BY <3>1
      <3>3. f[q] \in Bridge!Sent(q, g)
        BY <2>2, <3>2
      <3> HIDE DEF f, D
      <3> QED BY <3>1, <3>2, <3>3, BrSent
    <2> HIDE DEF f, D
    <2>5. f \in Surjection(D, C)
      BY <2>3, <2>4 DEF Surjection
    <2> QED BY <2>1, <2>5, FS_Surjection
  <1> QED BY <1>1, <1>2, <1>3, <1>4

------------------------------------------------------------------------------
(* Receiving a frame *)

\* Frame g, received on port p, left the switch of p by the ports out as the
\* copies C.
BrPassed(p, g, out, C) ==
  /\ Bridge!L2(p) /\ g \in BrFrame /\ g.vlan = g.tag
  /\ out \subseteq SwitchPorts /\ \A q \in out : At[q] = At[p] /\ Bridge!L2(q)
  /\ out = IF g.dst \in DOMAIN table'[At[p]] THEN {table'[At[p]][g.dst]}
           ELSE {q \in SwitchPorts : At[q] = At[p] /\ q # p /\ Bridge!L2(q)}
  /\ table' = [s \in Switches |-> table'[s]]
  /\ \A s \in Switches : s # At[p] => table'[s] = table[s]
  /\ DOMAIN table'[At[p]] = DOMAIN table[At[p]] \cup {g.src}
  /\ \A x \in DOMAIN table'[At[p]] : table'[At[p]][x] = IF x = g.src THEN p ELSE table[At[p]][x]
  /\ C \subseteq BrPacket /\ \A y, z \in C : y.to = z.to => y = z
  /\ \A y \in C : \E q \in out : y \in Bridge!Sent(q, g)
  /\ wire' \in Seq(BrPacket) /\ \A x : x \in ToSet(wire)' <=> x \in ToSet(Tail(wire)) \/ x \in C
  /\ IsInjective(Tail(wire)) /\ ToSet(Tail(wire)) \cap C = {} => IsInjective(wire)'
  /\ died' = FALSE

LEMMA BrHead ==
  ASSUME BrTypes, wire # << >>
  PROVE  /\ Head(wire) \in ToSet(wire) /\ Tail(wire) \in Seq(BrPacket)
         /\ \A x \in ToSet(Tail(wire)) : x \in ToSet(wire)
         /\ \A x \in ToSet(wire) : x = Head(wire) \/ x \in ToSet(Tail(wire))
         /\ IsInjective(wire) => IsInjective(Tail(wire)) /\ Head(wire) \notin ToSet(Tail(wire))
  <1>1. wire \in Seq(BrPacket)
    BY DEF BrTypes
  <1> QED BY <1>1, TailElements

LEMMA BrPass ==
  ASSUME BrIsolated, wire # << >>, NEW p \in SwitchPorts, NEW x \in ToSet(wire), x.to = p,
         Bridge!Switch(p, x.f)
  PROVE  \/ wire' = Tail(wire) /\ UNCHANGED <<table, died>>
         \/ \E g, out, C : /\ BrPassed(p, g, out, C) /\ g.id = x.f.id
                           /\ g.src = x.f.src /\ g.dst = x.f.dst
  <1> DEFINE f0 == x.f
             tagged == mode[p] = "access" /\ f0.tag = 0 /\ Bridge!AccessVlan(p) # 0
             f == IF tagged THEN [f0 EXCEPT !.tag = Bridge!AccessVlan(p)] ELSE f0
             g == IF Link[p] \in Hosts THEN [f EXCEPT !.vlan = f.tag] ELSE f
             s == At[p]
             new == [y \in DOMAIN table[s] \cup {g.src} |-> IF y = g.src THEN p ELSE table[s][y]]
             flood == {q \in SwitchPorts : At[q] = s /\ q # p /\ Bridge!L2(q)}
             out == IF g.dst # Bridge!Bcast /\ g.dst \in DOMAIN new THEN {new[g.dst]} ELSE flood
             C == UNION {Bridge!Sent(q, g) : q \in out}
             dropped == ~Bridge!Qualifies(p, f0) \/ p \in ip \/ ~Bridge!L2(p)
  <1>1. CASE dropped
    BY <1>1 DEF Bridge!Switch
  <1>2. CASE ~dropped
    <2>1. /\ table' = [table EXCEPT ![s] = new] /\ died' = (out \cap ip # {})
          /\ wire' = Bridge!SetToSeq(C) \o Tail(wire)
      <3>1. flood = Bridge!Outs(s, p)
        BY DEF Bridge!Outs, Bridge!PortsOf
      <3> HIDE DEF flood
      <3> QED BY <1>2, <3>1 DEF Bridge!Switch, Bridge!Tagged, Bridge!Learn, Bridge!Targets
    <2>2. /\ BrTypes /\ f0 \in BrFrame /\ s \in Switches /\ p \notin ip /\ Bridge!L2(p)
          /\ vlans[p] \in [1..Slots -> Nat] /\ 1 \in 1..Slots
      BY <1>2, BrTyped, SwitchAssumption DEF BrIsolated, BrTypes
    <2>3. Bridge!AccessVlan(p) \in Nat
      BY <2>2 DEF Bridge!AccessVlan
    <2>4. f \in BrFrame /\ f.id = f0.id /\ f.src = f0.src /\ f.dst = f0.dst /\ f.vlan = f0.vlan
      BY <2>2, <2>3 DEF BrFrame
    <2>5. g \in BrFrame /\ g.id = f0.id /\ g.src = f0.src /\ g.dst = f0.dst
      <3> HIDE DEF f
      <3> QED BY <2>4 DEF BrFrame
    <2>6. g.vlan = g.tag
      <3>1. CASE Link[p] \in Hosts
        <4> HIDE DEF f
        <4> QED BY <2>4, <3>1 DEF BrFrame
      <3>2. CASE Link[p] \notin Hosts
        <4>1. Link[p] \in SwitchPorts
          BY <3>2, SwitchAssumption
        <4>2. mode[p] = "trunk" /\ f0.vlan = f0.tag
          BY <4>1 DEF BrIsolated, BrModes, BrCarried
        <4> QED BY <3>2, <4>2
      <3> QED BY <3>1, <3>2
    <2> HIDE DEF g
    <2>7. g.src \in Hosts /\ Bridge!Bcast \notin Hosts
      BY <2>5, SwitchAssumption DEF BrFrame
    <2>8. DOMAIN new = DOMAIN table[s] \cup {g.src} /\ DOMAIN new \subseteq Hosts
      BY <2>2, <2>7 DEF BrTypes
    <2>9. \A y \in DOMAIN new : new[y] \in SwitchPorts /\ At[new[y]] = s /\ Bridge!L2(new[y])
      <3> TAKE y \in DOMAIN new
      <3>1. CASE y = g.src
        BY <2>2, <3>1
      <3>2. CASE y # g.src
        <4>1. y \in DOMAIN table[s] /\ new[y] = table[s][y]
          BY <3>2
        <4>2. table[s][y] \in SwitchPorts /\ At[table[s][y]] = s
          BY <2>2, <4>1 DEF BrTypes
        <4>3. Bridge!L2(table[s][y])
          BY <2>2, <4>1 DEF BrIsolated, BrLearnt
        <4> HIDE DEF new
        <4> QED BY <4>1, <4>2, <4>3
      <3> QED BY <3>1, <3>2
    <2>10. \A y \in DOMAIN new : new[y] = IF y = g.src THEN p ELSE table[s][y]
      OBVIOUS
    <2>11. table'[s] = new /\ table' = [a \in Switches |-> table'[a]]
           /\ \A a \in Switches : a # s => table'[a] = table[a]
      <3> HIDE DEF new
      <3> QED BY <2>1, <2>2 DEF BrTypes
    <2> HIDE DEF new
    <2>12. out = IF g.dst \in DOMAIN new THEN {new[g.dst]} ELSE flood
      BY <2>7, <2>8
    <2>13. out \subseteq SwitchPorts /\ \A q \in out : At[q] = s /\ Bridge!L2(q)
      BY <2>9, <2>12
    <2> HIDE DEF out
    <2>14. died' = FALSE
      <3>1. \A q \in out : q \notin ip
        <4> TAKE q \in out
        <4>1. mode[q] \in {"access", "trunk"}
          BY <2>13 DEF Bridge!L2
        <4> QED BY <2>13, <4>1 DEF BrIsolated, BrModes
      <3> QED BY <2>1, <3>1
    <2>15. /\ IsFiniteSet(C) /\ C \subseteq BrPacket
           /\ \A y, z \in C : y.to = z.to => y = z
           /\ \A y \in C : \E q \in out : y \in Bridge!Sent(q, g)
      BY <2>2, <2>5, <2>13, BrSentAll
    <2> HIDE DEF C
    <2>16. Bridge!SetToSeq(C) = SetToSeq(C)
      BY DEF Bridge!SetToSeq, SetToSeq, Bridge!IsInjective, IsInjective, Bridge!Cardinality, Cardinality
    <2>17. SetToSeq(C) \in Seq(C) /\ ToSet(SetToSeq(C)) = C /\ IsInjective(SetToSeq(C))
      BY <2>15, ListedElements
    <2>18. SetToSeq(C) \in Seq(BrPacket) /\ Tail(wire) \in Seq(BrPacket)
      BY <2>2, <2>15, <2>17, BrHead
    <2>19. /\ wire' \in Seq(BrPacket)
           /\ ToSet(wire)' = C \cup ToSet(Tail(wire))
           /\ IsInjective(Tail(wire)) /\ ToSet(Tail(wire)) \cap C = {} => IsInjective(wire)'
      <3>1. /\ SetToSeq(C) \o Tail(wire) \in Seq(BrPacket)
            /\ ToSet(SetToSeq(C) \o Tail(wire)) = ToSet(SetToSeq(C)) \cup ToSet(Tail(wire))
            /\ IsInjective(SetToSeq(C)) /\ IsInjective(Tail(wire))
               /\ ToSet(SetToSeq(C)) \cap ToSet(Tail(wire)) = {} => IsInjective(SetToSeq(C) \o Tail(wire))
        BY <2>18, ConcatElements
      <3>2. wire' = SetToSeq(C) \o Tail(wire)
        BY <2>1, <2>16
      <3>3. ToSet(wire)' = ToSet(SetToSeq(C) \o Tail(wire))
        BY <3>2 DEF ToSet
      <3>4. IsInjective(wire)' <=> IsInjective(SetToSeq(C) \o Tail(wire))
        BY <3>2 DEF IsInjective
      <3> QED BY <2>17, <3>1, <3>2, <3>3, <3>4
    <2>20. BrPassed(p, g, out, C)
      <3> HIDE DEF s
      <3>1. s = At[p]
        BY DEF s
      <3> QED BY <2>2, <2>5, <2>6, <2>8, <2>10, <2>11, <2>12, <2>13, <2>14, <2>15, <2>19, <3>1 DEF BrPassed, flood
    <2> QED BY <2>5, <2>20
  <1> QED BY <1>1, <1>2

------------------------------------------------------------------------------
(* VLANs stay apart *)

\* A frame is passed on with the tag of its VLAN, or out of it.
LEMMA BrPassCarried ==
  ASSUME BrIsolated, wire # << >>, NEW p \in SwitchPorts, NEW g, NEW out, NEW C,
         BrPassed(p, g, out, C), UNCHANGED got
  PROVE  BrCarried'
  <1>1. BrTypes /\ BrModes /\ BrCarried /\ \A x \in ToSet(Tail(wire)) : x \in ToSet(wire)
    BY BrHead DEF BrIsolated
  <1>2. ASSUME NEW x \in ToSet(wire)'
        PROVE  /\ x.to \in Hosts /\ x.f.tag = 0 => x.f.by = x.f.vlan
               /\ x.to \in SwitchPorts /\ Link[x.to] \in SwitchPorts => x.f.vlan = x.f.tag
    <2>1. CASE x \in ToSet(Tail(wire))
      BY <1>1, <2>1 DEF BrCarried
    <2>2. CASE x \in C
      <3>1. PICK q \in out : x \in Bridge!Sent(q, g)
        BY <2>2 DEF BrPassed
      <3>2. q \in SwitchPorts /\ g \in BrFrame /\ g.vlan = g.tag
        BY <3>1 DEF BrPassed
      <3>3. /\ x.to = Link[q] /\ x.f.vlan = g.vlan
            /\ mode[q] = "access" => x.f.by = g.tag
            /\ mode[q] = "trunk" => x.f = g /\ g.tag # 0
            /\ mode[q] \in {"access", "trunk"}
        BY <1>1, <3>1, <3>2, BrSent
      <3>4. Link[q] \in SwitchPorts => mode[q] = "trunk"
        BY <1>1, <3>2 DEF BrModes
      <3>5. x.to \in SwitchPorts => Link[q] \in SwitchPorts
        BY <3>3
      <3> QED BY <3>2, <3>3, <3>4, <3>5
    <2> QED BY <2>1, <2>2 DEF BrPassed
  <1> QED BY <1>1, <1>2 DEF BrCarried

LEMMA BrPassIsolated ==
  ASSUME BrIsolated, wire # << >>, NEW p \in SwitchPorts, NEW g, NEW out, NEW C,
         BrPassed(p, g, out, C), UNCHANGED <<mode, ip, vlans, got, frames>>
  PROVE  BrIsolated'
  <1>1. BrTypes /\ At[p] \in Switches /\ g.src \in Hosts /\ Bridge!L2(p)
    BY SwitchAssumption DEF BrIsolated, BrPassed, BrFrame
  <1>2. PICK s \in Switches : s = At[p]
    BY <1>1
  <1>3. /\ table' = [a \in Switches |-> table'[a]] /\ \A a \in Switches : a # s => table'[a] = table[a]
        /\ DOMAIN table'[s] = DOMAIN table[s] \cup {g.src}
        /\ \A x \in DOMAIN table'[s] : table'[s][x] = IF x = g.src THEN p ELSE table[s][x]
    BY <1>2 DEF BrPassed
  <1>4. \A a \in Switches :
          /\ DOMAIN table[a] \subseteq Hosts
          /\ \A x \in DOMAIN table[a] :
               table[a][x] \in SwitchPorts /\ At[table[a][x]] = a /\ Bridge!L2(table[a][x])
    BY <1>1 DEF BrTypes, BrIsolated, BrLearnt
  <1>5. \A a \in Switches :
          /\ DOMAIN table'[a] \subseteq Hosts
          /\ \A x \in DOMAIN table'[a] :
               table'[a][x] \in SwitchPorts /\ At[table'[a][x]] = a /\ Bridge!L2(table'[a][x])
    BY <1>1, <1>2, <1>3, <1>4
  <1>6. BrTypes'
    BY <1>1, <1>3, <1>5 DEF BrTypes, BrPassed
  <1>7. BrModes' /\ BrLearnt'
    BY <1>5 DEF BrIsolated, BrModes, BrLearnt, Bridge!Used, Bridge!L2
  <1>8. BrCarried'
    BY BrPassCarried
  <1>9. died' = FALSE
    BY DEF BrPassed
  <1> QED BY <1>6, <1>7, <1>8, <1>9 DEF BrIsolated

LEMMA BrTakeIsolated ==
  ASSUME BrIsolated, wire # << >>, wire' = Tail(wire),
         \/ got' = got
         \/ \E x \in ToSet(wire) : /\ x.to \in Hosts /\ x.f.tag = 0
                                   /\ got' = Append(got, [f |-> x.f, at |-> x.to]),
         UNCHANGED <<mode, ip, vlans, table, died, frames>>
  PROVE  BrIsolated'
  <1>1. /\ BrTypes /\ Tail(wire) \in Seq(BrPacket)
        /\ \A x \in ToSet(Tail(wire)) : x \in ToSet(wire)
    BY BrHead DEF BrIsolated
  <1>2. ToSet(wire)' = ToSet(Tail(wire))
    BY DEF ToSet
  <1>3. got' \in Seq(BrGiven) /\ \A k \in DOMAIN got' : got'[k].f.by = got'[k].f.vlan
    <2>1. got \in Seq(BrGiven) /\ \A k \in DOMAIN got : got[k].f.by = got[k].f.vlan
      BY <1>1 DEF BrTypes, BrIsolated, BrCarried
    <2>2. ASSUME NEW x \in ToSet(wire), x.to \in Hosts, x.f.tag = 0,
                 got' = Append(got, [f |-> x.f, at |-> x.to])
          PROVE  got' \in Seq(BrGiven) /\ \A k \in DOMAIN got' : got'[k].f.by = got'[k].f.vlan
      <3>1. PICK e : e = [f |-> x.f, at |-> x.to]
        OBVIOUS
      <3>2. e \in BrGiven
        BY <1>1, <2>2, <3>1, BrTyped DEF BrGiven
      <3>3. e.f.by = e.f.vlan
        BY <2>2, <3>1 DEF BrIsolated, BrCarried
      <3>4. /\ got' \in Seq(BrGiven) /\ Len(got') = Len(got) + 1 /\ got'[Len(got) + 1] = e
            /\ \A k \in 1..Len(got) : got'[k] = got[k]
        BY <2>1, <2>2, <3>1, <3>2, AppendProperties
      <3>5. Len(got) \in Nat /\ DOMAIN got = 1..Len(got) /\ DOMAIN got' = 1..(Len(got) + 1)
        BY <2>1, <3>4, Elements
      <3>6. \A k \in DOMAIN got' : k = Len(got) + 1 \/ k \in 1..Len(got)
        BY <3>5
      <3> QED BY <2>1, <3>3, <3>4, <3>5, <3>6
    <2> QED BY <2>1, <2>2
  <1>4. BrTypes'
    BY <1>1, <1>3 DEF BrTypes
  <1>5. BrCarried'
    BY <1>1, <1>2, <1>3 DEF BrIsolated, BrCarried
  <1>6. BrModes' /\ BrLearnt' /\ died' = FALSE
    BY DEF BrIsolated, BrModes, BrLearnt, Bridge!Used, Bridge!L2
  <1> QED BY <1>4, <1>5, <1>6 DEF BrIsolated

\* A host sends: the frame is on the port of the host.
LEMMA BrSendIsolated ==
  ASSUME BrIsolated, NEW y \in Sends, Bridge!HostSends(y[1], y[2])
  PROVE  /\ BrIsolated'
         /\ \E x \in BrPacket : /\ wire' = <<x>> \o wire /\ ToSet(wire)' = ToSet(wire) \cup {x}
                                /\ x.to = Bridge!PortTo(x.f.src) /\ x.f.id = frames + 1
                                /\ x.f.src # x.f.dst
  <1>1. /\ y[1] \in Hosts /\ y[2] \in Hosts \cup {Bridge!Bcast} /\ y[1] # y[2]
    BY SwitchAssumption
  <1>2. /\ BrTypes /\ frames \in Nat /\ frames' = frames + 1
        /\ UNCHANGED <<mode, ip, vlans, table, got, died>>
    BY DEF BrIsolated, BrTypes, Bridge!HostSends
  <1> DEFINE f == [id |-> frames', src |-> y[1], dst |-> y[2], tag |-> 0, vlan |-> 0, by |-> 0]
             p == Bridge!PortTo(y[1])
  <1>3. f \in BrFrame /\ f.id = frames + 1 /\ f.src = y[1] /\ f.dst = y[2] /\ f.vlan = f.tag
    BY <1>1, <1>2 DEF BrFrame
  <1>4. p \in SwitchPorts
    BY <1>1, BrPortTo
  <1>5. wire' = <<[to |-> p, f |-> f]>> \o wire
    BY DEF Bridge!HostSends
  <1> HIDE DEF f, p
  <1>6. PICK x : x = [to |-> p, f |-> f]
    OBVIOUS
  <1>7. x \in BrPacket /\ x.to = p /\ x.f = f
    BY <1>3, <1>4, <1>6 DEF BrPacket
  <1>8. wire' = <<x>> \o wire /\ wire' \in Seq(BrPacket) /\ ToSet(wire)' = ToSet(wire) \cup {x}
    <2>1. wire \in Seq(BrPacket)
      BY <1>2 DEF BrTypes
    <2>2. <<x>> \o wire \in Seq(BrPacket) /\ ToSet(<<x>> \o wire) = ToSet(wire) \cup {x}
      BY <1>7, <2>1, ConsElements
    <2>3. wire' = <<x>> \o wire
      BY <1>5, <1>6
    <2>4. ToSet(wire)' = ToSet(<<x>> \o wire)
      BY <2>3 DEF ToSet
    <2> QED BY <2>2, <2>3, <2>4
  <1>9. BrTypes'
    BY <1>2, <1>8 DEF BrTypes
  <1>10. BrCarried'
    <2>1. x.to \notin Hosts /\ x.f.vlan = x.f.tag
      BY <1>3, <1>4, <1>7, SwitchAssumption
    <2> QED BY <1>2, <1>8, <2>1 DEF BrIsolated, BrCarried
  <1>11. BrModes' /\ BrLearnt' /\ died' = FALSE
    BY <1>2 DEF BrIsolated, BrModes, BrLearnt, Bridge!Used, Bridge!L2
  <1>12. x.to = Bridge!PortTo(x.f.src) /\ x.f.id = frames + 1 /\ x.f.src # x.f.dst
    BY <1>1, <1>3, <1>7 DEF p
  <1> QED BY <1>7, <1>8, <1>9, <1>10, <1>11, <1>12 DEF BrIsolated

\* The VLANs and the mode of a port fit.
BrFits(p) ==
  /\ mode[p] \in {"access", "trunk", "unknown"} /\ vlans[p] \in [1..Slots -> Nat]
  /\ p \in ip => mode[p] = "unknown"
  /\ mode[p] = "access" => Bridge!Used(p) \subseteq {1}
  /\ mode[p] = "unknown" => Bridge!Used(p) = {}
  /\ Link[p] \in SwitchPorts => mode[p] = "trunk"

\* A command on a port keeps them so, and does not take it out of layer 2.
LEMMA BrCommandPort ==
  ASSUME BrIsolated, NEW p \in SwitchPorts,
         \/ p \in Edges /\ \E m \in {"access", "trunk"} : Bridge!SetMode(p, m)
         \/ Bridge!SetIp(p) \/ Bridge!UnsetIp(p)
         \/ \E v \in Vlans : Bridge!SetVlan(p, v)
  PROVE  /\ BrFits(p)' /\ (Bridge!L2(p) => Bridge!L2(p)')
         /\ mode' = [mode EXCEPT ![p] = mode'[p]] /\ vlans' = [vlans EXCEPT ![p] = vlans'[p]]
         /\ ip' \subseteq ip \cup {p} /\ UNCHANGED <<table, wire, got, frames, raced, died>>
  <1>1. /\ mode \in [SwitchPorts -> {"access", "trunk", "unknown"}]
        /\ vlans \in [SwitchPorts -> [1..Slots -> Nat]] /\ BrFits(p) /\ Slots \in Nat \ {0}
    BY SwitchAssumption DEF BrIsolated, BrTypes, BrModes, BrFits
  <1>2. CASE p \in Edges /\ \E m \in {"access", "trunk"} : Bridge!SetMode(p, m)
    <2>1. PICK m \in {"access", "trunk"} : Bridge!SetMode(p, m)
      BY <1>2
    <2>2. /\ mode' = [mode EXCEPT ![p] = m] /\ ip' = ip \ {p}
          /\ vlans' = IF Bridge!LeavesVlans(p, m) THEN [vlans EXCEPT ![p] = Bridge!Empty] ELSE vlans
          /\ UNCHANGED <<table, wire, got, died, frames, raced>>
      BY <2>1 DEF Bridge!SetMode, Bridge!Configures
    <2>3. mode'[p] = m /\ p \notin ip' /\ mode' = [mode EXCEPT ![p] = mode'[p]] /\ Link[p] \notin SwitchPorts
      BY <1>1, <1>2, <2>2, SwitchAssumption
    <2>4. CASE Bridge!LeavesVlans(p, m)
      <3>1. vlans'[p] = [k \in 1..Slots |-> 0] /\ vlans' = [vlans EXCEPT ![p] = vlans'[p]]
        BY <1>1, <2>2, <2>4 DEF Bridge!Empty
      <3>2. Bridge!Used(p)' = {}
        BY <3>1 DEF Bridge!Used
      <3>3. vlans'[p] \in [1..Slots -> Nat]
        BY <3>1
      <3> QED BY <2>2, <2>3, <3>1, <3>2, <3>3 DEF BrFits, Bridge!L2
    <2>5. CASE ~Bridge!LeavesVlans(p, m)
      <3>1. vlans' = vlans /\ vlans' = [vlans EXCEPT ![p] = vlans'[p]]
        BY <1>1, <2>2, <2>5
      <3>2. Bridge!Used(p)' = Bridge!Used(p)
        BY <3>1 DEF Bridge!Used
      <3>3. m = "access" => Bridge!Used(p) \subseteq {1}
        BY <1>1, <2>5 DEF Bridge!LeavesVlans, BrFits
      <3> QED BY <1>1, <2>1, <2>2, <2>3, <3>1, <3>2, <3>3 DEF BrFits, Bridge!L2
    <2> QED BY <2>4, <2>5
  <1>3. CASE Bridge!SetIp(p) \/ Bridge!UnsetIp(p)
    <2>1. /\ UNCHANGED <<mode, vlans, table, wire, got, died, frames, raced>>
          /\ \/ ip' = ip \cup {p} /\ ~Bridge!L2(p)
             \/ ip' = ip \ {p}
      BY <1>3 DEF Bridge!SetIp, Bridge!UnsetIp, Bridge!MaySetIp, Bridge!Configures
    <2>2. p \in ip' => mode[p] = "unknown"
      BY <1>1, <2>1 DEF Bridge!L2, BrFits
    <2>3. mode' = [mode EXCEPT ![p] = mode'[p]] /\ vlans' = [vlans EXCEPT ![p] = vlans'[p]]
      BY <1>1, <2>1
    <2> QED BY <1>1, <2>1, <2>2, <2>3 DEF BrFits, Bridge!L2, Bridge!Used
  <1>4. CASE \E v \in Vlans : Bridge!SetVlan(p, v)
    <2>1. PICK v \in Vlans : Bridge!SetVlan(p, v)
      BY <1>4
    <2> DEFINE K == Bridge!SlotFor(p, v)
    <2>2. /\ vlans' = [vlans EXCEPT ![p] = [k \in 1..Slots |-> IF k \in K THEN v ELSE vlans[p][k]]]
          /\ UNCHANGED <<mode, ip, table, wire, got, died, frames, raced>> /\ p \notin ip /\ Bridge!L2(p)
      BY <2>1 DEF Bridge!SetVlan, Bridge!Configures
    <2> HIDE DEF K
    <2>3. /\ vlans'[p] = [k \in 1..Slots |-> IF k \in K THEN v ELSE vlans[p][k]]
          /\ vlans' = [vlans EXCEPT ![p] = vlans'[p]]
      BY <1>1, <2>2
    <2>4. vlans'[p] \in [1..Slots -> Nat]
      BY <1>1, <2>3, SwitchAssumption
    <2>5. mode[p] = "access" => Bridge!Used(p)' \subseteq {1}
      <3> HAVE mode[p] = "access"
      <3>1. Bridge!Used(p) \subseteq {1}
        BY <1>1 DEF BrFits
      <3>2. K \subseteq {1}
        <4>1. CASE Bridge!Used(p) = {}
          BY <4>1 DEF K, Bridge!SlotFor
        <4>2. CASE Bridge!Used(p) # {}
          <5>1. Bridge!Used(p) = {1}
            BY <3>1, <4>2
          <5>2. Bridge!Max({1}) = 1
            BY DEF Bridge!Max
          <5> QED BY <5>1, <5>2 DEF K, Bridge!SlotFor
        <4> QED BY <4>1, <4>2
      <3>3. \A k \in 1..Slots : vlans[p][k] # 0 => k = 1
        BY <3>1 DEF Bridge!Used
      <3> QED BY <2>3, <3>2, <3>3 DEF Bridge!Used
    <2>6. mode[p] # "unknown"
      BY <2>2 DEF Bridge!L2
    <2> QED BY <1>1, <2>2, <2>3, <2>4, <2>5, <2>6 DEF BrFits, Bridge!L2
  <1> QED BY <1>2, <1>3, <1>4

LEMMA BrCommandIsolated ==
  ASSUME BrIsolated, NEW p \in SwitchPorts,
         \/ p \in Edges /\ \E m \in {"access", "trunk"} : Bridge!SetMode(p, m)
         \/ Bridge!SetIp(p) \/ Bridge!UnsetIp(p)
         \/ \E v \in Vlans : Bridge!SetVlan(p, v)
  PROVE  BrIsolated' /\ UNCHANGED <<table, wire, got, frames, raced>>
  <1>1. /\ BrFits(p)' /\ (Bridge!L2(p) => Bridge!L2(p)')
        /\ mode' = [mode EXCEPT ![p] = mode'[p]] /\ vlans' = [vlans EXCEPT ![p] = vlans'[p]]
        /\ ip' \subseteq ip \cup {p} /\ UNCHANGED <<table, wire, got, frames, raced, died>>
    BY BrCommandPort
  <1>2. BrTypes /\ BrModes /\ BrLearnt /\ BrCarried /\ died = FALSE
    BY DEF BrIsolated
  <1>3. \A q \in SwitchPorts : q # p => mode'[q] = mode[q] /\ vlans'[q] = vlans[q] /\ (q \in ip' => q \in ip)
    BY <1>1, <1>2 DEF BrTypes
  <1>4. BrTypes'
    <2>1. mode'[p] \in {"access", "trunk", "unknown"} /\ vlans'[p] \in [1..Slots -> Nat]
      BY <1>1 DEF BrFits
    <2> QED BY <1>1, <1>2, <2>1 DEF BrTypes
  <1>5. BrModes'
    <2> SUFFICES ASSUME NEW q \in SwitchPorts, q # p
                 PROVE  /\ q \in ip' => mode'[q] = "unknown"
                        /\ mode'[q] = "access" => Bridge!Used(q)' \subseteq {1}
                        /\ mode'[q] = "unknown" => Bridge!Used(q)' = {}
                        /\ Link[q] \in SwitchPorts => mode'[q] = "trunk"
      BY <1>1 DEF BrModes, BrFits
    <2> QED BY <1>2, <1>3 DEF BrModes, Bridge!Used
  <1>6. BrLearnt'
    <2>1. \A q \in SwitchPorts : Bridge!L2(q) => Bridge!L2(q)'
      BY <1>1, <1>3 DEF Bridge!L2
    <2> QED BY <1>1, <1>2, <2>1 DEF BrTypes, BrLearnt
  <1>7. BrCarried'
    BY <1>1, <1>2 DEF BrCarried, ToSet
  <1> QED BY <1>1, <1>2, <1>4, <1>5, <1>6, <1>7 DEF BrIsolated

------------------------------------------------------------------------------
(* What the switches learn is right *)

\* A frame that a switch passes on leaves it by another port, and by the link
\* between the switches only if it came from a host.
LEMMA BrOut ==
  ASSUME BrInv, ~raced, NEW p \in SwitchPorts, NEW x \in ToSet(wire), x.to = p,
         NEW g, NEW out, NEW C, BrPassed(p, g, out, C), g.src = x.f.src, g.dst = x.f.dst,
         NEW q \in out
  PROVE  /\ q \in SwitchPorts /\ At[q] = At[p]
         /\ Link[q] \in Hosts => Bridge!PortTo(Link[q]) = q /\ Link[q] # g.src
         /\ Link[q] \in SwitchPorts =>
              /\ Link[p] \in Hosts
              /\ g.dst \in DOMAIN table'[At[p]] => At[Link[q]] = At[Bridge!PortTo(g.dst)]
  <1>1. /\ BrTypes /\ BrCopies /\ BrToSwitch /\ BrTables
        /\ x.f \in BrFrame /\ g.src \in Hosts
    BY BrTyped DEF BrInv, BrIsolated
  <1>2. PICK s \in Switches : s = At[p]
    BY SwitchAssumption
  <1>3. PICK h \in Hosts : h = g.src
    BY <1>1
  <1>4. PICK d : d = g.dst
    OBVIOUS
  <1>5. /\ p = Bridge!Toward(s, h) /\ h # d
        /\ Link[p] \in SwitchPorts =>
             (d \in DOMAIN table[At[Link[p]]] => At[Bridge!PortTo(d)] = s)
    BY <1>1, <1>2, <1>3, <1>4 DEF BrToSwitch, BrCopies
  <1>6. /\ q \in SwitchPorts /\ At[q] = s
        /\ \/ d \notin DOMAIN table'[s] /\ q # p
           \/ d \in DOMAIN table'[s] /\ d \in DOMAIN table[s] /\ q = table[s][d]
    <2>1. /\ q \in SwitchPorts /\ At[q] = s
          /\ out = IF d \in DOMAIN table'[s] THEN {table'[s][d]}
                   ELSE {r \in SwitchPorts : At[r] = s /\ r # p /\ Bridge!L2(r)}
      BY <1>2, <1>4 DEF BrPassed
    <2>2. /\ DOMAIN table'[s] = DOMAIN table[s] \cup {h}
          /\ \A y \in DOMAIN table'[s] : table'[s][y] = IF y = h THEN p ELSE table[s][y]
      BY <1>2, <1>3 DEF BrPassed
    <2> QED BY <1>5, <2>1, <2>2
  <1>7. d \in DOMAIN table[s] => /\ d \in Hosts /\ table[s][d] = Bridge!Toward(s, d)
                                 /\ d \in DOMAIN table[At[Bridge!PortTo(d)]]
    BY <1>1 DEF BrTypes, BrTables
  <1>8. q # p
    <2> SUFFICES ASSUME q = p, d \in DOMAIN table[s], q = table[s][d] PROVE FALSE
      BY <1>6
    <2>1. d \in Hosts /\ p = Bridge!Toward(s, d) /\ d \in DOMAIN table[At[Bridge!PortTo(d)]]
      BY <1>7
    <2>2. CASE Link[p] \in Hosts
      <3>1. Link[Bridge!Toward(s, h)] \in Hosts => Link[Bridge!Toward(s, h)] = h
        BY BrToward
      <3>2. Link[Bridge!Toward(s, d)] \in Hosts => Link[Bridge!Toward(s, d)] = d
        BY <2>1, BrToward
      <3> QED BY <1>5, <2>1, <2>2, <3>1, <3>2
    <2>3. CASE Link[p] \in SwitchPorts
      <3>1. Link[Bridge!Toward(s, d)] \in SwitchPorts =>
              /\ At[Bridge!PortTo(d)] # s
              /\ At[Link[Bridge!Toward(s, d)]] = At[Bridge!PortTo(d)]
        BY <2>1, BrToward
      <3>2. At[Bridge!PortTo(d)] # s /\ At[Link[p]] = At[Bridge!PortTo(d)]
        BY <2>1, <2>3, <3>1
      <3>3. d \in DOMAIN table[At[Link[p]]]
        BY <2>1, <3>2
      <3> QED BY <1>5, <2>3, <3>2, <3>3
    <2> QED BY <2>2, <2>3, SwitchAssumption
  <1>9. Link[q] \in Hosts => Bridge!PortTo(Link[q]) = q /\ Link[q] # h
    <2> HAVE Link[q] \in Hosts
    <2>1. Bridge!PortTo(Link[q]) = q
      BY <1>6, BrPortTo
    <2>2. Link[q] = h => q = p
      BY <1>5, <1>6, <2>1, BrToward
    <2> QED BY <1>8, <2>1, <2>2
  <1>10. Link[q] \in SwitchPorts => Link[p] \in Hosts
    BY <1>2, <1>6, <1>8, SwitchAssumption, TwoSwitchAssumption
  <1>11. Link[q] \in SwitchPorts /\ d \in DOMAIN table'[s] => At[Link[q]] = At[Bridge!PortTo(d)]
    BY <1>6, <1>7, BrToward
  <1> QED BY <1>2, <1>3, <1>4, <1>6, <1>9, <1>10, <1>11

\* Copy y, made by the switch of p of frame g, is for a host of this switch,
\* or for the other switch.
BrForHost(y, p, g) == y.to \in Hosts /\ At[Bridge!PortTo(y.to)] = At[p] /\ y.to # g.src
BrForSwitch(y, p, g) ==
  /\ y.to \in SwitchPorts /\ Link[p] \in Hosts
  /\ Link[y.to] \in SwitchPorts /\ At[Link[y.to]] = At[p] /\ At[y.to] # At[p]
  /\ y.to = Bridge!Toward(At[y.to], g.src)
  /\ g.dst \in DOMAIN table'[At[p]] => At[y.to] = At[Bridge!PortTo(g.dst)]

LEMMA BrCopied ==
  ASSUME BrInv, ~raced, NEW p \in SwitchPorts, NEW x \in ToSet(wire), x.to = p,
         NEW g, NEW out, NEW C, BrPassed(p, g, out, C), g.src = x.f.src, g.dst = x.f.dst
  PROVE  /\ \A y \in C : /\ y.f.id = g.id /\ y.f.src = g.src /\ y.f.dst = g.dst
                         /\ BrForHost(y, p, g) \/ BrForSwitch(y, p, g)
         /\ \A y, z \in C : BrForSwitch(y, p, g) /\ BrForSwitch(z, p, g) => y = z
  <1>1. /\ BrTypes /\ g \in BrFrame /\ p = Bridge!Toward(At[p], g.src) /\ g.src \in Hosts
        /\ At[p] \in Switches
    BY SwitchAssumption DEF BrInv, BrIsolated, BrToSwitch, BrPassed, BrFrame
  <1>2. ASSUME NEW y \in C
        PROVE  /\ y.f.id = g.id /\ y.f.src = g.src /\ y.f.dst = g.dst
               /\ BrForHost(y, p, g) \/ BrForSwitch(y, p, g)
    <2>1. PICK q \in out : y \in Bridge!Sent(q, g)
      BY DEF BrPassed
    <2>2. /\ q \in SwitchPorts /\ At[q] = At[p]
          /\ Link[q] \in Hosts => Bridge!PortTo(Link[q]) = q /\ Link[q] # g.src
          /\ Link[q] \in SwitchPorts =>
               /\ Link[p] \in Hosts
               /\ g.dst \in DOMAIN table'[At[p]] => At[Link[q]] = At[Bridge!PortTo(g.dst)]
      BY BrOut
    <2>3. y.to = Link[q] /\ y.f.id = g.id /\ y.f.src = g.src /\ y.f.dst = g.dst
      BY <1>1, <2>1, <2>2, BrSent
    <2>4. CASE Link[q] \in Hosts
      BY <2>2, <2>3, <2>4 DEF BrForHost
    <2>5. CASE Link[q] \in SwitchPorts
      <3>1. PICK r \in SwitchPorts : r = y.to
        BY <2>3, <2>5
      <3>2. Link[r] = q /\ At[r] # At[p] /\ At[r] \in Switches
        BY <2>2, <2>3, <2>5, <3>1, SwitchAssumption, TwoSwitchAssumption
      <3>3. At[Bridge!PortTo(g.src)] = At[p]
        BY <1>1, <2>2, <2>5, BrToward
      <3>4. r = Bridge!Toward(At[r], g.src)
        BY <1>1, <2>2, <3>2, <3>3, BrToward
      <3> QED BY <2>2, <2>3, <2>5, <3>1, <3>2, <3>4 DEF BrForSwitch
    <2> QED BY <2>2, <2>3, <2>4, <2>5, SwitchAssumption
  <1>3. ASSUME NEW y \in C, NEW z \in C, BrForSwitch(y, p, g), BrForSwitch(z, p, g)
        PROVE  y = z
    <2>1. Link[y.to] = Link[z.to]
      BY <1>3, SwitchAssumption, TwoSwitchAssumption DEF BrForSwitch
    <2>2. y.to = z.to
      BY <1>3, <2>1, SwitchAssumption DEF BrForSwitch
    <2> QED BY <2>2 DEF BrPassed
  <1> QED BY <1>2, <1>3

LEMMA BrPassLearning ==
  ASSUME BrInv, ~raced, wire # << >>, NEW p \in SwitchPorts, Head(wire).to = p,
         NEW g, NEW out, NEW C, BrPassed(p, g, out, C),
         g.id = Head(wire).f.id, g.src = Head(wire).f.src, g.dst = Head(wire).f.dst,
         UNCHANGED <<got, frames>>
  PROVE  BrCopies' /\ BrToSwitch' /\ BrTables' /\ BrGot'
  <1>1. /\ BrTypes /\ BrCopies /\ BrToSwitch /\ BrTables /\ BrGot
        /\ \A y \in ToSet(Tail(wire)) : y \in ToSet(wire)
        /\ IsInjective(Tail(wire)) /\ Head(wire) \notin ToSet(Tail(wire))
    BY BrHead DEF BrInv, BrIsolated, BrCopies
  <1>2. PICK x \in ToSet(wire) : x = Head(wire)
    BY <1>1, BrHead
  <1>3. PICK s \in Switches : s = At[p]
    BY SwitchAssumption
  <1>4. PICK h \in Hosts : h = g.src
    BY <1>1, <1>2, BrTyped
  <1>5. /\ x.to = p /\ x.f.id = g.id /\ x.f.src = h /\ x.f.dst = g.dst
        /\ g.id = frames /\ h # g.dst /\ p = Bridge!Toward(s, h)
        /\ \A y \in ToSet(Tail(wire)) : y.to \in Hosts /\ At[Bridge!PortTo(y.to)] # s
        /\ \A k \in DOMAIN got : got[k].f.id = frames => At[Bridge!PortTo(got[k].at)] # s
        /\ Link[p] \in Hosts => /\ \A y : y \notin ToSet(Tail(wire))
                                /\ \A k \in DOMAIN got : got[k].f.id # frames
        /\ Link[p] \in SwitchPorts => h \in DOMAIN table[At[Link[p]]]
    <2>1. x.to = p /\ x.f.id = g.id /\ x.f.src = h /\ x.f.dst = g.dst
      BY <1>2, <1>4
    <2>2. g.id = frames /\ h # g.dst
      BY <1>1, <2>1 DEF BrCopies
    <2>3. \A y \in ToSet(Tail(wire)) : y \in ToSet(wire) /\ y # x
      BY <1>1, <1>2
    <2>4. /\ p = Bridge!Toward(s, h)
          /\ \A y \in ToSet(wire) : y # x => y.to \in Hosts /\ At[Bridge!PortTo(y.to)] # s
          /\ \A k \in DOMAIN got : got[k].f.id = frames => At[Bridge!PortTo(got[k].at)] # s
          /\ Link[p] \in Hosts => /\ \A y \in ToSet(wire) : y = x
                                  /\ \A k \in DOMAIN got : got[k].f.id # frames
          /\ Link[p] \in SwitchPorts => h \in DOMAIN table[At[Link[p]]]
      BY <1>1, <1>3, <2>1 DEF BrToSwitch
    <2> QED BY <2>1, <2>2, <2>3, <2>4
  <1>6. /\ \A y \in C : /\ y.f.id = frames /\ y.f.src = h /\ y.f.dst = g.dst
                        /\ BrForHost(y, p, g) \/ BrForSwitch(y, p, g)
        /\ \A y, z \in C : BrForSwitch(y, p, g) /\ BrForSwitch(z, p, g) => y = z
    <2>1. g.src = x.f.src /\ g.dst = x.f.dst
      BY <1>2
    <2> QED BY <1>4, <1>5, <2>1, BrCopied
  <1>7. \A y \in C : BrForSwitch(y, p, g) =>
          \A z : z \notin ToSet(Tail(wire))
    BY <1>5 DEF BrForSwitch
  <1>8. ASSUME NEW y \in C, NEW z \in ToSet(Tail(wire)) PROVE y.to # z.to /\ y # z
    BY <1>3, <1>5, <1>6, <1>7 DEF BrForHost
  <1>9. /\ \A y : y \in ToSet(wire)' <=> y \in ToSet(Tail(wire)) \/ y \in C
        /\ \A y, z \in C : y.to = z.to => y = z
        /\ IsInjective(Tail(wire)) /\ ToSet(Tail(wire)) \cap C = {} => IsInjective(wire)'
    BY DEF BrPassed
  <1>10. IsInjective(wire)'
    <2>1. ToSet(Tail(wire)) \cap C = {}
      BY <1>8
    <2> QED BY <1>1, <1>9, <2>1
  <1>11. ASSUME NEW y \in ToSet(wire)', NEW z \in ToSet(wire)'
         PROVE  y.f.src = z.f.src /\ y.f.dst = z.f.dst /\ (y.to = z.to => y = z)
    <2>1. \A u \in ToSet(wire)' : u.f.src = h /\ u.f.dst = g.dst
      BY <1>1, <1>5, <1>6, <1>9 DEF BrCopies
    <2>2. \A u, v \in ToSet(Tail(wire)) : u.to = v.to => u = v
      BY <1>1 DEF BrCopies
    <2> QED BY <1>8, <1>9, <2>1, <2>2
  <1>12. ASSUME NEW y \in ToSet(wire)'
         PROVE  /\ y.f.id = frames /\ y.f.src # y.f.dst
                /\ y.to \in Hosts => /\ y.to # y.f.src
                                     /\ \A k \in DOMAIN got : got[k].f.id = frames => got[k].at # y.to
    <2>1. CASE y \in ToSet(Tail(wire))
      BY <1>1, <2>1 DEF BrCopies
    <2>2. CASE y \in C
      <3>1. y.to \in Hosts => BrForHost(y, p, g)
        BY <1>6, <2>2, SwitchAssumption DEF BrForSwitch
      <3>2. y.to \in Hosts => At[Bridge!PortTo(y.to)] = s /\ y.to # h
        BY <1>3, <1>4, <3>1 DEF BrForHost
      <3> QED BY <1>5, <1>6, <2>2, <3>2
    <2> QED BY <1>9, <2>1, <2>2
  <1>13. BrCopies'
    <2>1. /\ \A y \in ToSet(wire)' : \A z \in ToSet(wire)' :
                y.f.src = z.f.src /\ y.f.dst = z.f.dst /\ (y.to = z.to => y = z)
          /\ \A y \in ToSet(wire)' :
                /\ y.f.id = frames' /\ y.f.src # y.f.dst
                /\ y.to \in Hosts => /\ y.to # y.f.src
                                     /\ \A k \in DOMAIN got' : got'[k].f.id = frames' => got'[k].at # y.to
      BY <1>11, <1>12
    <2> QED BY <1>10, <2>1 DEF BrCopies
  <1>14. /\ \A a \in Switches : a # s => table'[a] = table[a]
         /\ DOMAIN table'[s] = DOMAIN table[s] \cup {h}
         /\ \A y \in DOMAIN table'[s] : table'[s][y] = IF y = h THEN p ELSE table[s][y]
    BY <1>3, <1>4 DEF BrPassed
  <1>15. BrToSwitch'
    <2>1. ASSUME NEW y \in ToSet(wire)', y.to \in SwitchPorts
          PROVE  /\ y.to = Bridge!Toward(At[y.to], y.f.src)
                 /\ \A z \in ToSet(wire)' : z # y => z.to \in Hosts /\ At[Bridge!PortTo(z.to)] # At[y.to]
                 /\ \A k \in DOMAIN got : got[k].f.id # frames
                 /\ Link[y.to] \notin Hosts
                 /\ y.f.src \in DOMAIN table'[At[Link[y.to]]]
                 /\ y.f.dst \in DOMAIN table'[At[Link[y.to]]] => At[Bridge!PortTo(y.f.dst)] = At[y.to]
      <3>1. y \in C /\ BrForSwitch(y, p, g) /\ y.f.src = h /\ y.f.dst = g.dst
        BY <1>5, <1>6, <1>9, <2>1, SwitchAssumption DEF BrForHost
      <3>2. /\ Link[p] \in Hosts /\ Link[y.to] \in SwitchPorts /\ At[Link[y.to]] = s /\ At[y.to] # s
            /\ y.to = Bridge!Toward(At[y.to], h)
            /\ g.dst \in DOMAIN table'[s] => At[y.to] = At[Bridge!PortTo(g.dst)]
        BY <1>3, <1>4, <3>1 DEF BrForSwitch
      <3>3. \A z \in ToSet(wire)' : z # y => z.to \in Hosts /\ At[Bridge!PortTo(z.to)] = s
        <4> TAKE z \in ToSet(wire)'
        <4> HAVE z # y
        <4>1. z \in C
          BY <1>9, <1>7, <3>1
        <4>2. BrForHost(z, p, g)
          BY <1>6, <3>1, <4>1
        <4> QED BY <1>3, <4>2 DEF BrForHost
      <3> QED BY <1>5, <1>14, <3>1, <3>2, <3>3, SwitchAssumption
    <2> QED BY <2>1 DEF BrToSwitch
  <1>16. BrTables'
    <2>1. ASSUME NEW a \in Switches, NEW y \in DOMAIN table'[a]
          PROVE  table'[a][y] = Bridge!Toward(a, y) /\ y \in DOMAIN table'[At[Bridge!PortTo(y)]]
      <3>1. \A b \in Switches : DOMAIN table[b] \subseteq DOMAIN table'[b]
        BY <1>14
      <3>2. CASE a = s /\ y = h
        <4>1. table'[a][y] = Bridge!Toward(a, y)
          BY <1>5, <1>14, <3>2
        <4>2. CASE Link[p] \in Hosts
          BY <1>5, <1>14, <3>2, <4>1, <4>2, BrToward
        <4>3. CASE Link[p] \in SwitchPorts
          <5>1. At[Link[p]] = At[Bridge!PortTo(h)] /\ At[Bridge!PortTo(h)] \in Switches
            BY <1>5, <4>3, BrToward, BrPortTo
          <5> QED BY <1>5, <3>1, <3>2, <4>1, <4>3, <5>1
        <4> QED BY <4>2, <4>3, SwitchAssumption
      <3>3. CASE ~(a = s /\ y = h)
        <4>1. y \in DOMAIN table[a] /\ table'[a][y] = table[a][y]
          BY <1>14, <3>3
        <4>2. y \in Hosts /\ table[a][y] = Bridge!Toward(a, y) /\ y \in DOMAIN table[At[Bridge!PortTo(y)]]
          BY <1>1, <4>1 DEF BrTypes, BrTables
        <4>3. At[Bridge!PortTo(y)] \in Switches
          BY <4>2, BrPortTo
        <4> QED BY <3>1, <4>1, <4>2, <4>3
      <3> QED BY <3>2, <3>3
    <2> QED BY <2>1 DEF BrTables
  <1>17. BrGot'
    BY <1>1 DEF BrGot
  <1> QED BY <1>13, <1>15, <1>16, <1>17

\* A host takes a frame, or a port drops it.
LEMMA BrTakeLearning ==
  ASSUME BrInv, ~raced, wire # << >>, wire' = Tail(wire),
         \/ got' = got
         \/ /\ Head(wire).to \in Hosts
            /\ got' = Append(got, [f |-> Head(wire).f, at |-> Head(wire).to]),
         UNCHANGED <<table, frames>>
  PROVE  BrCopies' /\ BrToSwitch' /\ BrTables' /\ BrGot'
  <1>1. /\ BrTypes /\ BrCopies /\ BrToSwitch /\ BrTables /\ BrGot
        /\ Head(wire) \in ToSet(wire)
        /\ \A y \in ToSet(Tail(wire)) : y \in ToSet(wire)
        /\ IsInjective(Tail(wire)) /\ Head(wire) \notin ToSet(Tail(wire))
    BY BrHead DEF BrInv, BrIsolated, BrCopies
  <1>2. PICK x \in ToSet(wire) : x = Head(wire)
    BY <1>1
  <1>3. \A y \in ToSet(Tail(wire)) : y \in ToSet(wire) /\ y # x
    BY <1>1, <1>2
  <1>4. ToSet(wire)' = ToSet(Tail(wire)) /\ (IsInjective(wire)' <=> IsInjective(Tail(wire)))
    BY DEF ToSet, IsInjective
  <1>5. \/ got' = got
        \/ /\ x.to \in Hosts /\ Len(got) \in Nat
           /\ DOMAIN got' = DOMAIN got \cup {Len(got) + 1} /\ Len(got) + 1 \notin DOMAIN got
           /\ got'[Len(got) + 1].f = x.f /\ got'[Len(got) + 1].at = x.to
           /\ \A k \in DOMAIN got : got'[k] = got[k]
    <2> SUFFICES ASSUME x.to \in Hosts, got' = Append(got, [f |-> x.f, at |-> x.to])
                 PROVE  /\ Len(got) \in Nat
                        /\ DOMAIN got' = DOMAIN got \cup {Len(got) + 1} /\ Len(got) + 1 \notin DOMAIN got
                        /\ got'[Len(got) + 1].f = x.f /\ got'[Len(got) + 1].at = x.to
                        /\ \A k \in DOMAIN got : got'[k] = got[k]
      BY <1>2
    <2>1. PICK e : e = [f |-> x.f, at |-> x.to]
      OBVIOUS
    <2>2. e \in BrGiven /\ e.f = x.f /\ e.at = x.to
      BY <1>1, <2>1, BrTyped DEF BrGiven
    <2>3. got \in Seq(BrGiven)
      BY <1>1 DEF BrTypes
    <2>4. /\ got' \in Seq(BrGiven) /\ Len(got') = Len(got) + 1 /\ got'[Len(got) + 1] = e
          /\ \A k \in 1..Len(got) : got'[k] = got[k]
      BY <2>1, <2>2, <2>3, AppendProperties
    <2>5. Len(got) \in Nat /\ DOMAIN got = 1..Len(got) /\ DOMAIN got' = 1..(Len(got) + 1)
      BY <2>3, <2>4, Elements
    <2>6. \A m \in Nat : 1..(m + 1) = 1..m \cup {m + 1} /\ m + 1 \notin 1..m
      OBVIOUS
    <2>7. got'[Len(got) + 1].f = x.f /\ got'[Len(got) + 1].at = x.to
      BY <2>2, <2>4
    <2> QED BY ONLY <2>4, <2>5, <2>6, <2>7
  <1> DEFINE n == Len(got) + 1
  <1> HIDE DEF n
  <1>6. ASSUME NEW k \in DOMAIN got'
        PROVE  \/ k \in DOMAIN got /\ got'[k] = got[k]
               \/ k \notin DOMAIN got /\ k = n /\ x.to \in Hosts /\ got'[k].f = x.f /\ got'[k].at = x.to
    BY <1>5 DEF n
  <1>7. /\ x.f.id = frames /\ frames \in Nat
        /\ x.to \in Hosts => /\ x.to # x.f.src
                             /\ \A k \in DOMAIN got : got[k].f.id = frames => got[k].at # x.to
    BY <1>1 DEF BrCopies, BrTypes
  <1>8. BrCopies'
    <2>1. ASSUME NEW y \in ToSet(wire)', y.to \in Hosts, NEW k \in DOMAIN got', got'[k].f.id = frames
          PROVE  got'[k].at # y.to
      <3>1. y \in ToSet(wire) /\ y # x
        BY <1>3, <1>4
      <3>2. y.to # x.to /\ \A j \in DOMAIN got : got[j].f.id = frames => got[j].at # y.to
        BY <1>1, <2>1, <3>1 DEF BrCopies
      <3> QED BY <1>6, <2>1, <3>2
    <2>2. /\ \A y \in ToSet(wire)' : \A z \in ToSet(wire)' :
                y.f.src = z.f.src /\ y.f.dst = z.f.dst /\ (y.to = z.to => y = z)
          /\ \A y \in ToSet(wire)' :
                y.f.id = frames' /\ y.f.src # y.f.dst /\ (y.to \in Hosts => y.to # y.f.src)
      BY <1>1, <1>4 DEF BrCopies
    <2>3. IsInjective(wire)'
      BY <1>1, <1>4
    <2> QED BY <2>1, <2>2, <2>3 DEF BrCopies
  <1>9. BrToSwitch'
    <2> SUFFICES ASSUME NEW y \in ToSet(wire)', y.to \in SwitchPorts
                 PROVE  /\ y.to = Bridge!Toward(At[y.to], y.f.src)
                        /\ \A z \in ToSet(wire)' : z # y => z.to \in Hosts /\ At[Bridge!PortTo(z.to)] # At[y.to]
                        /\ \A k \in DOMAIN got' : got'[k].f.id = frames => At[Bridge!PortTo(got'[k].at)] # At[y.to]
                        /\ Link[y.to] \notin Hosts
                        /\ Link[y.to] \in SwitchPorts =>
                             /\ y.f.src \in DOMAIN table[At[Link[y.to]]]
                             /\ y.f.dst \in DOMAIN table[At[Link[y.to]]] => At[Bridge!PortTo(y.f.dst)] = At[y.to]
      BY DEF BrToSwitch
    <2>1. y \in ToSet(wire) /\ y # x
      BY <1>3, <1>4
    <2>2. /\ y.to = Bridge!Toward(At[y.to], y.f.src)
          /\ \A z \in ToSet(wire) : z # y => z.to \in Hosts /\ At[Bridge!PortTo(z.to)] # At[y.to]
          /\ \A k \in DOMAIN got : got[k].f.id = frames => At[Bridge!PortTo(got[k].at)] # At[y.to]
          /\ Link[y.to] \in Hosts => \A z \in ToSet(wire) : z = y
          /\ Link[y.to] \in SwitchPorts =>
               /\ y.f.src \in DOMAIN table[At[Link[y.to]]]
               /\ y.f.dst \in DOMAIN table[At[Link[y.to]]] => At[Bridge!PortTo(y.f.dst)] = At[y.to]
      BY <1>1, <2>1 DEF BrToSwitch
    <2>3. At[Bridge!PortTo(x.to)] # At[y.to] /\ Link[y.to] \notin Hosts
      BY <2>1, <2>2
    <2>4. \A k \in DOMAIN got' : got'[k].f.id = frames => At[Bridge!PortTo(got'[k].at)] # At[y.to]
      BY <1>6, <2>2, <2>3
    <2>5. \A z \in ToSet(wire)' : z # y => z.to \in Hosts /\ At[Bridge!PortTo(z.to)] # At[y.to]
      BY <1>1, <1>4, <2>2
    <2> QED BY <2>2, <2>3, <2>4, <2>5
  <1>10. BrTables'
    BY <1>1 DEF BrTables
  <1>11. BrGot'
    <2>1. ASSUME NEW k \in DOMAIN got'
          PROVE  got'[k].f.id <= frames /\ got'[k].at # got'[k].f.src
      BY <1>1, <1>6, <1>7 DEF BrGot
    <2>2. ASSUME NEW j \in DOMAIN got', NEW k \in DOMAIN got', j # k,
                 got'[j].f.id = got'[k].f.id, got'[j].at = got'[k].at
          PROVE  FALSE
      <3>1. CASE j \in DOMAIN got /\ k \in DOMAIN got
        BY <1>1, <1>6, <2>2, <3>1 DEF BrGot
      <3>2. CASE ~(j \in DOMAIN got /\ k \in DOMAIN got)
        BY <1>6, <1>7, <2>2, <3>2
      <3> QED BY <3>1, <3>2
    <2> QED BY <2>1, <2>2 DEF BrGot
  <1> QED BY <1>8, <1>9, <1>10, <1>11

\* A host sends the only frame on the way.
LEMMA BrSendLearning ==
  ASSUME BrInv, NEW y \in Sends, Bridge!HostSends(y[1], y[2]), ~raced'
  PROVE  BrCopies' /\ BrToSwitch' /\ BrTables' /\ BrGot'
  <1>1. /\ ~raced /\ wire = << >> /\ frames' = frames + 1 /\ UNCHANGED <<table, got>>
    BY DEF Bridge!HostSends
  <1>2. BrTypes /\ BrTables /\ BrGot /\ frames \in Nat
    BY <1>1 DEF BrInv, BrIsolated, BrTypes
  <1>3. PICK x \in BrPacket : /\ wire' = <<x>> \o wire /\ ToSet(wire)' = ToSet(wire) \cup {x}
                              /\ x.to = Bridge!PortTo(x.f.src) /\ x.f.id = frames + 1
                              /\ x.f.src # x.f.dst
    BY BrSendIsolated DEF BrInv
  <1>4. wire' = <<x>> /\ \A z : z \in ToSet(wire)' <=> z = x
    <2>1. ToSet(wire) = {}
      BY <1>1, <1>2, Elements DEF BrTypes
    <2> QED BY <1>1, <1>3, <2>1
  <1>5. \A k \in DOMAIN got : got[k].f.id # frames'
    BY <1>1, <1>2, BrTyped DEF BrGot
  <1>6. x.to \in SwitchPorts /\ Link[x.to] \in Hosts /\ x.f.src \in Hosts /\ At[x.to] \in Switches
    BY <1>3, BrPortTo DEF BrPacket, BrFrame
  <1>7. x.to = Bridge!Toward(At[x.to], x.f.src)
    BY <1>3, <1>6, BrToward
  <1>8. x.to \notin Hosts /\ Link[x.to] \notin SwitchPorts
    BY <1>6, SwitchAssumption
  <1>9. BrCopies'
    <2>1. IsInjective(wire)'
      BY <1>4 DEF IsInjective
    <2> QED BY <1>1, <1>3, <1>4, <1>8, <2>1 DEF BrCopies
  <1>10. BrToSwitch'
    BY <1>1, <1>4, <1>5, <1>7, <1>8 DEF BrToSwitch
  <1>11. BrTables'
    BY <1>1, <1>2 DEF BrTables
  <1>12. BrGot'
    <2>1. \A k \in DOMAIN got : got[k].f.id \in Nat
      BY <1>2, BrTyped
    <2> QED BY <1>1, <1>2, <2>1 DEF BrGot
  <1> QED BY <1>9, <1>10, <1>11, <1>12

------------------------------------------------------------------------------
(* The steps *)

LEMMA BrRecv ==
  ASSUME BrInv, Bridge!RecvFrame
  PROVE  BrInv'
  <1>1. /\ BrTypes /\ BrIsolated /\ wire # << >> /\ Head(wire) \in ToSet(wire)
        /\ Head(wire).to \in Hosts \cup SwitchPorts
        /\ UNCHANGED <<mode, ip, vlans, frames, raced>>
    BY BrHead, BrTyped DEF BrInv, BrIsolated, Bridge!RecvFrame
  <1>2. PICK x \in ToSet(wire) : x = Head(wire)
    BY <1>1
  <1>3. CASE x.to \in Hosts
    <2>1. Bridge!Accept(x.to, x.f)
      BY <1>2, <1>3 DEF Bridge!RecvFrame
    <2>2. /\ wire' = Tail(wire) /\ UNCHANGED <<table, died>>
          /\ got' = IF x.f.tag = 0 /\ x.f.dst \in {x.to, Bridge!Bcast}
                    THEN Append(got, [f |-> x.f, at |-> x.to]) ELSE got
      BY <2>1 DEF Bridge!Accept
    <2>3. BrIsolated'
      <3>1. CASE x.f.tag = 0 /\ x.f.dst \in {x.to, Bridge!Bcast}
        BY <1>1, <1>3, <2>2, <3>1, BrTakeIsolated
      <3>2. CASE ~(x.f.tag = 0 /\ x.f.dst \in {x.to, Bridge!Bcast})
        BY <1>1, <2>2, <3>2, BrTakeIsolated
      <3> QED BY <3>1, <3>2
    <2>4. ~raced => BrCopies' /\ BrToSwitch' /\ BrTables' /\ BrGot'
      BY <1>1, <1>2, <1>3, <2>2, BrTakeLearning
    <2> QED BY <1>1, <2>3, <2>4 DEF BrInv
  <1>4. CASE x.to \in SwitchPorts
    <2>1. Bridge!Switch(x.to, x.f) /\ UNCHANGED got
      BY <1>2, <1>4, SwitchAssumption DEF Bridge!RecvFrame
    <2>2. \/ wire' = Tail(wire) /\ UNCHANGED <<table, died>>
          \/ \E g, out, C : /\ BrPassed(x.to, g, out, C) /\ g.id = x.f.id
                            /\ g.src = x.f.src /\ g.dst = x.f.dst
      BY <1>1, <1>4, <2>1, BrPass
    <2>3. CASE wire' = Tail(wire) /\ UNCHANGED <<table, died>>
      <3>1. BrIsolated'
        BY <1>1, <2>1, <2>3, BrTakeIsolated
      <3>2. ~raced => BrCopies' /\ BrToSwitch' /\ BrTables' /\ BrGot'
        BY <1>1, <2>1, <2>3, BrTakeLearning
      <3> QED BY <1>1, <3>1, <3>2 DEF BrInv
    <2>4. ASSUME NEW g, NEW out, NEW C, BrPassed(x.to, g, out, C), g.id = x.f.id,
                 g.src = x.f.src, g.dst = x.f.dst, NEW p \in SwitchPorts, p = x.to
          PROVE  BrInv'
      <3>1. BrPassed(p, g, out, C)
        BY <2>4
      <3>2. BrIsolated'
        BY <1>1, <2>1, <3>1, BrPassIsolated
      <3>3. ~raced => BrCopies' /\ BrToSwitch' /\ BrTables' /\ BrGot'
        BY <1>1, <1>2, <2>1, <2>4, <3>1, BrPassLearning
      <3> QED BY <1>1, <3>2, <3>3 DEF BrInv
    <2> QED BY <1>4, <2>2, <2>3, <2>4
  <1> QED BY <1>1, <1>2, <1>3, <1>4

LEMMA BrStep ==
  ASSUME BrInv, Bridge!Next
  PROVE  BrInv'
  <1>1. BrIsolated
    BY DEF BrInv
  <1>2. ASSUME NEW p \in SwitchPorts,
               \/ p \in Edges /\ \E m \in {"access", "trunk"} : Bridge!SetMode(p, m)
               \/ Bridge!SetIp(p) \/ Bridge!UnsetIp(p)
               \/ \E v \in Vlans : Bridge!SetVlan(p, v)
        PROVE  BrInv'
    <2>1. BrIsolated' /\ UNCHANGED <<table, wire, got, frames, raced>>
      BY <1>1, <1>2, BrCommandIsolated
    <2>2. ~raced => BrCopies' /\ BrToSwitch' /\ BrTables' /\ BrGot'
      <3> HAVE ~raced
      <3>1. ToSet(wire)' = ToSet(wire) /\ (IsInjective(wire)' <=> IsInjective(wire))
        BY <2>1 DEF ToSet, IsInjective
      <3>2. BrCopies'
        BY <2>1, <3>1 DEF BrInv, BrCopies
      <3>3. BrToSwitch'
        BY <2>1, <3>1 DEF BrInv, BrToSwitch
      <3>4. BrTables' /\ BrGot'
        BY <2>1 DEF BrInv, BrTables, BrGot
      <3> QED BY <3>2, <3>3, <3>4
    <2> QED BY <2>1, <2>2 DEF BrInv
  <1>3. CASE \E p \in Edges : (\E m \in {"access", "trunk"} : Bridge!SetMode(p, m))
                              \/ Bridge!SetIp(p) \/ Bridge!UnsetIp(p)
    BY <1>2, <1>3, SwitchAssumption
  <1>4. CASE \E p \in SwitchPorts, v \in Vlans : Bridge!SetVlan(p, v)
    BY <1>2, <1>4
  <1>5. CASE Bridge!RecvFrame
    BY <1>5, BrRecv
  <1>6. CASE \E y \in Sends : Bridge!HostSends(y[1], y[2])
    <2>1. PICK y \in Sends : Bridge!HostSends(y[1], y[2])
      BY <1>6
    <2>2. BrIsolated'
      BY <1>1, <2>1, BrSendIsolated
    <2>3. ~raced' => BrCopies' /\ BrToSwitch' /\ BrTables' /\ BrGot'
      BY <2>1, BrSendLearning
    <2> QED BY <2>2, <2>3 DEF BrInv
  <1> QED BY <1>3, <1>4, <1>5, <1>6 DEF Bridge!Next

LEMMA BrStutter ==
  ASSUME BrInv, UNCHANGED Bridge!vars
  PROVE  BrInv'
  <1>1. UNCHANGED <<mode, ip, vlans, table, wire, got, died, frames, configs, raced>>
    BY DEF Bridge!vars
  <1>2. ToSet(wire)' = ToSet(wire) /\ (IsInjective(wire)' <=> IsInjective(wire))
    BY <1>1 DEF ToSet, IsInjective
  <1>3. BrTypes' /\ BrModes' /\ BrLearnt' /\ died' = FALSE
    BY <1>1 DEF BrInv, BrIsolated, BrTypes, BrModes, BrLearnt, Bridge!Used, Bridge!L2
  <1>4. BrCarried'
    BY <1>1, <1>2 DEF BrInv, BrIsolated, BrCarried
  <1>5. ~raced => BrCopies' /\ BrToSwitch'
    BY <1>1, <1>2 DEF BrInv, BrCopies, BrToSwitch
  <1>6. ~raced => BrTables' /\ BrGot'
    BY <1>1 DEF BrInv, BrTables, BrGot
  <1> QED BY <1>1, <1>3, <1>4, <1>5, <1>6 DEF BrInv, BrIsolated

LEMMA BrStart ==
  ASSUME Bridge!Init
  PROVE  BrInv
  <1>1. /\ mode = Modes /\ vlans = [p \in SwitchPorts |-> Bridge!Filled(Members[p])]
        /\ ip = {p \in SwitchPorts : Modes[p] = "unknown"}
        /\ table = [s \in Switches |-> << >>]
        /\ wire = << >> /\ got = << >> /\ died = FALSE /\ frames = 0
    BY DEF Bridge!Init
  <1>2. ASSUME NEW p \in SwitchPorts
        PROVE  /\ vlans[p] \in [1..Slots -> Nat]
               /\ mode[p] = "access" => Bridge!Used(p) \subseteq {1}
               /\ mode[p] = "unknown" => Bridge!Used(p) = {}
    <2>1. PICK m \in Seq(Nat \ {0}) : m = Members[p]
      BY SwitchAssumption
    <2>2. vlans[p] = [k \in 1..Slots |-> IF k <= Len(m) THEN m[k] ELSE 0]
      BY <1>1, <2>1 DEF Bridge!Filled
    <2>3. Len(m) \in Nat /\ \A k \in 1..Len(m) : m[k] \in Nat
      BY Elements
    <2>4. \A k \in 1..Slots : k <= Len(m) => k \in 1..Len(m)
      BY <2>3, SwitchAssumption
    <2>5. \A k \in 1..Slots : vlans[p][k] # 0 => k <= Len(m)
      BY <2>2
    <2>6. vlans[p] \in [1..Slots -> Nat]
      BY <2>2, <2>3, <2>4
    <2>7. mode[p] = "access" => Len(m) <= 1
      BY <1>1, <2>1, SwitchAssumption
    <2>8. mode[p] = "unknown" => Len(m) = 0
      BY <1>1, <2>1, SwitchAssumption
    <2>9. mode[p] = "access" => \A k \in 1..Slots : vlans[p][k] # 0 => k = 1
      BY <2>3, <2>5, <2>7, SwitchAssumption
    <2>10. mode[p] = "unknown" => \A k \in 1..Slots : vlans[p][k] = 0
      BY <2>3, <2>5, <2>8, SwitchAssumption
    <2> QED BY <2>6, <2>9, <2>10 DEF Bridge!Used
  <1>3. ToSet(wire) = {} /\ DOMAIN got = {}
    <2>1. << >> \in Seq(BrPacket)
      OBVIOUS
    <2>2. ToSet(<< >>) = {}
      BY <2>1, Elements
    <2> QED BY <1>1, <2>2
  <1>4. BrTypes
    <2>1. wire \in Seq(BrPacket) /\ got \in Seq(BrGiven) /\ frames \in Nat
      BY <1>1
    <2>2. mode \in [SwitchPorts -> {"access", "trunk", "unknown"}] /\ ip \subseteq SwitchPorts
      BY <1>1, SwitchAssumption
    <2>3. vlans \in [SwitchPorts -> [1..Slots -> Nat]]
      BY <1>1, <1>2
    <2>4. \A s \in Switches : DOMAIN table[s] = {}
      BY <1>1
    <2> QED BY <1>1, <2>1, <2>2, <2>3, <2>4 DEF BrTypes
  <1>5. BrModes
    BY <1>1, <1>2, SwitchAssumption DEF BrModes
  <1>6. \A s \in Switches : \A x \in DOMAIN table[s] : FALSE
    BY <1>1
  <1>7. BrLearnt /\ BrTables
    BY <1>6 DEF BrLearnt, BrTables
  <1>8. BrCarried /\ BrToSwitch /\ BrGot
    BY <1>3 DEF BrCarried, BrToSwitch, BrGot
  <1>9. BrCopies
    <2>1. IsInjective(wire)
      BY <1>1 DEF IsInjective
    <2> QED BY <1>3, <2>1 DEF BrCopies
  <1> QED BY <1>1, <1>4, <1>5, <1>7, <1>8, <1>9 DEF BrInv, BrIsolated

LEMMA BrMeans ==
  ASSUME BrInv
  PROVE  Bridge!SwitchSound
  <1>1. Bridge!IsolationSound
    <2>1. ~died
      BY DEF BrInv, BrIsolated
    <2>2. \A k \in DOMAIN got : got[k].f.by = got[k].f.vlan
      BY DEF BrInv, BrIsolated, BrCarried
    <2>3. \A p \in SwitchPorts : mode[p] = "access" => Bridge!Used(p) \subseteq {1}
      BY DEF BrInv, BrIsolated, BrModes
    <2> QED BY <2>1, <2>2, <2>3 DEF Bridge!IsolationSound
  <1>2. Bridge!LearningSound
    <2> SUFFICES ASSUME ~raced
                 PROVE  /\ \A s \in Switches : \A x \in DOMAIN table[s] :
                             table[s][x] = Bridge!Toward(s, x) /\ x \in DOMAIN table[At[Bridge!PortTo(x)]]
                        /\ \A j, k \in DOMAIN got :
                             /\ got[k].at # got[k].f.src
                             /\ j # k => <<got[j].f.id, got[j].at>> # <<got[k].f.id, got[k].at>>
      BY DEF Bridge!LearningSound
    <2>1. BrTables /\ BrGot
      BY DEF BrInv
    <2> QED BY <2>1 DEF BrTables, BrGot
  <1> QED BY <1>1, <1>2 DEF Bridge!SwitchSound

------------------------------------------------------------------------------
(* The theorems *)

\* Only DDCP moves in a behaviour of DDCP, and only switches in one of them.
LEMMA NetworkStep ==
  ASSUME [ServicesNext]_<<subject, vars, services>>
  PROVE  /\ subject' = subject
         /\ subject = "capture" => [Capture!Next]_Capture!vars
         /\ subject = "bridge" => [Bridge!Next]_Bridge!vars
  <1>1. CASE UNCHANGED <<subject, vars, services>>
    BY <1>1 DEF services, Capture!vars, Bridge!vars
  <1>2. CASE ServicesNext
    BY <1>2 DEF ServicesNext, Step
  <1> QED BY <1>1, <1>2

\* Floods that meet, overtake each other and are switched off never make a
\* router answer a query twice or its own, and a flood that nobody disturbs
\* reaches every router connected to its originator.  The originator keeps the
\* latest reply of each router whatever order replies come in, and the process
\* survives unless addresses or interfaces change: on any network, for any
\* number of queries, commands and losses.
THEOREM QueriesStaySound == ServicesSpec => []DdcpSound
  <1> DEFINE Inv == subject = "capture" => CapInv
  <1>1. ServicesInit => Inv
    BY CapInit DEF ServicesInit, Start
  <1>2. Inv /\ [ServicesNext]_<<subject, vars, services>> => Inv'
    BY NetworkStep, CapStep
  <1>3. Inv => DdcpSound
    BY CapSound DEF DdcpSound
  <1> QED BY <1>1, <1>2, <1>3, PTL DEF ServicesSpec

\* VLANs stay apart however ports are configured and whatever address comes or
\* goes while frames are on their way, and no switch gives a frame to a port
\* that routes; and in a network of two switches where hosts wait for each
\* other, every MAC table leads to the host, a switch that reaches a host
\* through the other one knows that the other one has learnt it, and no host
\* gets a frame twice or its own back: with any hosts, ports and VLANs, for any
\* number of frames and commands.
THEOREM SwitchesStaySound == ServicesSpec => []SwitchSound
  <1> DEFINE Inv == subject = "bridge" => BrInv
  <1>1. ServicesInit => Inv
    BY BrStart DEF ServicesInit, Start
  <1>2. Inv /\ [ServicesNext]_<<subject, vars, services>> => Inv'
    BY NetworkStep, BrStep, BrStutter
  <1>3. Inv => SwitchSound
    BY BrMeans DEF SwitchSound
  <1> QED BY <1>1, <1>2, <1>3, PTL DEF ServicesSpec

=============================================================================
