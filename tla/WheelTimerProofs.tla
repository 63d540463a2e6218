-------------------------- MODULE WheelTimerProofs --------------------------
(***************************************************************************)
(* Proofs about the wheel timer, for any number of elements, any size of   *)
(* the wheel and any intervals, whether calls and ticks overlap or not.    *)
(***************************************************************************)
EXTENDS WheelTimer, ListLemmas

(* Slot numbers *)

\* The quotient and the remainder by the size of the wheel give a number back.
LEMMA DivMod ==
  ASSUME NEW n \in Nat, NEW w \in Nat \ {0}
  PROVE  n \div w \in Nat /\ n % w \in 0..(w - 1) /\ ((n \div w) * w) + (n % w) = n
  OBVIOUS

\* A turn later is later, in whatever slot.
LEMMA TurnLater ==
  ASSUME NEW a \in Nat, NEW b \in Nat, NEW w \in Nat \ {0}, a < b
  PROVE  a * w \in Nat /\ b * w \in Nat /\ a * w + w <= b * w
  <1> DEFINE d == b - a - 1
  <1>1. d \in Nat /\ b = a + 1 + d
    OBVIOUS
  <1>2. d * w \in Nat /\ a * w \in Nat
    BY <1>1
  <1>3. b * w = a * w + w + d * w
    BY <1>1
  <1> QED BY <1>2, <1>3

\* Cycle and slot are those of one absolute slot number.
LEMMA SameTurn ==
  ASSUME NEW w \in Nat \ {0}, NEW a \in Nat, NEW b \in Nat,
         NEW s \in 0..(w - 1), NEW t \in 0..(w - 1)
  PROVE  /\ a * w + s \in Nat
         /\ a * w + s = b * w + t => a = b /\ s = t
         /\ a * w + s <= b * w + t => a <= b
  <1>1. a * w \in Nat /\ b * w \in Nat
    OBVIOUS
  <1>2. CASE a < b
    <2>1. a * w + w <= b * w
      BY <1>2, TurnLater
    <2> QED BY <1>1, <1>2, <2>1
  <1>3. CASE b < a
    <2>1. b * w + w <= a * w
      BY <1>3, TurnLater
    <2> QED BY <1>1, <1>3, <2>1
  <1>4. CASE a = b
    BY <1>1, <1>4
  <1> QED BY <1>2, <1>3, <1>4

\* An interval is placed in the cycle and slot that are so many ticks away.
LEMMA PlacedAway ==
  ASSUME NEW n \in Nat, NEW i \in Nat
  PROVE  /\ CycleFor(n, i) \in Nat /\ SlotFor(n, i) \in Slots
         /\ CycleFor(n, i) * WheelSize + SlotFor(n, i) = n + i
  <1>1. n + i \in Nat /\ WheelSize \in Nat \ {0}
    BY WheelAssumption
  <1>2. /\ (n + i) \div WheelSize \in Nat /\ (n + i) % WheelSize \in 0..(WheelSize - 1)
        /\ (((n + i) \div WheelSize) * WheelSize) + ((n + i) % WheelSize) = n + i
    BY <1>1, DivMod
  <1> QED BY <1>2 DEF CycleFor, SlotFor, Slots

------------------------------------------------------------------------------
(* Slots *)

\* The priority insertion puts an element in, and keeps a list in the order of
\* the cycles if it was.
LEMMA PlaceProperties ==
  ASSUME NEW q \in Seq(Elems), NEW c \in [Elems -> Nat], NEW e \in Elems
  PROVE  /\ Place(q, c, e) \in Seq(Elems)
         /\ ToSet(Place(q, c, e)) = ToSet(q) \cup {e}
         /\ IsInjective(q) /\ e \notin ToSet(q) => IsInjective(Place(q, c, e))
         /\ (\A x, y : Before(q, x, y) => c[x] <= c[y]) =>
              \A x, y : Before(Place(q, c, e), x, y) => c[x] <= c[y]
  <1> DEFINE later == {i \in DOMAIN q : c[q[i]] > c[e]}
  <1>1. /\ Len(q) \in Nat /\ DOMAIN q = 1..Len(q) /\ \A i \in 1..Len(q) : q[i] \in Elems
        /\ \A x : x \in ToSet(q) <=> \E i \in 1..Len(q) : q[i] = x
    BY Elements
  <1>2. CASE later = {}
    <2>1. Place(q, c, e) = Append(q, e)
      BY <1>2 DEF Place
    <2>2. \A i \in 1..Len(q) : c[q[i]] <= c[e]
      BY <1>1, <1>2
    <2>3. \A x \in ToSet(q) : c[x] <= c[e]
      BY <1>1, <2>2
    <2> QED BY <2>1, <2>3, AppendElements, SMTT(30)
  <1>3. CASE later # {}
    <2> DEFINE k == CHOOSE i \in later : \A j \in later : i <= j
    <2>1. Place(q, c, e) = InsertAt(q, k, e)
      BY <1>3 DEF Place
    <2>2. k \in later /\ \A j \in later : k <= j
      <3>1. later \in SUBSET Nat
        BY <1>1
      <3>2. PICK m \in later : \A j \in later : ~(j < m)
        BY <1>3, <3>1, Least
      <3>3. \A j \in later : m <= j
        BY <3>1, <3>2
      <3> QED BY <3>3
    <2> HIDE DEF k
    <2>3. k \in 1..(Len(q) + 1) /\ k \in 1..Len(q) /\ c[q[k]] > c[e]
      BY <1>1, <2>2
    <2>4. \A j \in 1..(k - 1) : q[j] \in Elems /\ c[q[j]] <= c[e]
      <3> TAKE j \in 1..(k - 1)
      <3>1. j \in DOMAIN q /\ q[j] \in Elems /\ ~(k <= j)
        BY <1>1, <2>3
      <3>2. ~(c[q[j]] > c[e])
        BY <2>2, <3>1
      <3> QED BY <3>1, <3>2
    <2>5. ASSUME \A x, y : Before(q, x, y) => c[x] <= c[y]
          PROVE  \A j \in k..Len(q) : q[j] \in Elems /\ c[e] <= c[q[j]]
      <3> TAKE j \in k..Len(q)
      <3>1. j \in 1..Len(q) /\ q[j] \in Elems /\ q[k] \in Elems
        BY <1>1, <2>3
      <3>2. CASE j = k
        BY <2>3, <3>1, <3>2
      <3>3. CASE j # k
        <4>1. Before(q, q[k], q[j])
          BY <1>1, <2>3, <3>1, <3>3 DEF Before
        <4>2. c[q[k]] <= c[q[j]]
          BY <2>5, <4>1
        <4> QED BY <2>3, <3>1, <4>2
      <3> QED BY <3>2, <3>3
    <2>6. /\ InsertAt(q, k, e) \in Seq(Elems)
          /\ ToSet(InsertAt(q, k, e)) = ToSet(q) \cup {e}
          /\ IsInjective(q) /\ e \notin ToSet(q) => IsInjective(InsertAt(q, k, e))
          /\ \A x, y : Before(InsertAt(q, k, e), x, y) =>
              \/ Before(q, x, y)
              \/ x = e /\ \E j \in k..Len(q) : q[j] = y
              \/ y = e /\ \E j \in 1..(k - 1) : q[j] = x
      <3> HIDE DEF later
      <3>1. k \in 1..(Len(q) + 1)
        BY <2>3
      <3> QED BY <3>1, InsertAtProperties
    <2>7. ASSUME \A x, y : Before(q, x, y) => c[x] <= c[y]
          PROVE  \A x, y : Before(InsertAt(q, k, e), x, y) => c[x] <= c[y]
      <3> TAKE x, y
      <3> HAVE Before(InsertAt(q, k, e), x, y)
      <3>1. CASE Before(q, x, y)
        BY <2>7, <3>1
      <3>2. CASE x = e /\ \E j \in k..Len(q) : q[j] = y
        BY <2>5, <2>7, <3>2
      <3>3. CASE y = e /\ \E j \in 1..(k - 1) : q[j] = x
        BY <2>4, <3>3
      <3> QED BY <2>6, <3>1, <3>2, <3>3
    <2> QED BY <2>1, <2>6, <2>7
  <1> QED BY <1>2, <1>3

\* The lists of the slots hold each element once, in the slot of its number, in
\* the order of the cycles.
SlotsOrdered ==
  \A s \in Slots :
    /\ IsInjective(slots[s])
    /\ \A x \in ToSet(slots[s]) : slotNo[x] = s
    /\ \A x, y \in Elems : Before(slots[s], x, y) => cyc[x] <= cyc[y]

\* The types of the clock and of the slots.
WheelTypes ==
  /\ tic \in Slots /\ cycle \in Nat
  /\ slots \in [Slots -> Seq(Elems)]
  /\ cyc \in [Elems -> Nat] /\ slotNo \in [Elems -> Slots]

LEMMA AbsTypes ==
  ASSUME WheelTypes
  PROVE  AbsNow \in Nat /\ \A e \in Elems : AbsDue(e) \in Nat
  BY WheelAssumption, SameTurn DEF WheelTypes, AbsNow, AbsDue, Slots

\* An element taken out of its slot.
LEMMA UnslotStep ==
  ASSUME WheelTypes, NEW e \in Elems, slots' = Unslot(e), UNCHANGED <<cyc, slotNo>>
  PROVE  /\ slots' \in [Slots -> Seq(Elems)]
         /\ SlotsOrdered => /\ SlotsOrdered'
                            /\ \A x : InSlot(x)' <=> InSlot(x) /\ x # e
  <1>1. \A s \in Slots : slots[s] \in Seq(Elems) /\ slots'[s] = RemoveFirst(slots[s], e)
    BY DEF WheelTypes, Unslot
  <1>2. slots' \in [Slots -> Seq(Elems)]
    BY <1>1, RemoveFirstProperties DEF WheelTypes, Unslot
  <1>3. ASSUME SlotsOrdered
        PROVE  \A s \in Slots : /\ IsInjective(slots'[s])
                                /\ ToSet(slots'[s]) = ToSet(slots[s]) \ {e}
                                /\ \A x, y : Before(slots'[s], x, y) => Before(slots[s], x, y)
    BY <1>1, <1>3, RemoveFirstProperties DEF SlotsOrdered
  <1>4. ASSUME SlotsOrdered
        PROVE  SlotsOrdered' /\ \A x : InSlot(x)' <=> InSlot(x) /\ x # e
    BY <1>3, <1>4 DEF SlotsOrdered, InSlot
  <1> QED BY <1>2, <1>4

\* An element taken out of its slot and placed i ticks away.
LEMMA ArmStep ==
  ASSUME WheelTypes, NEW e \in Elems, NEW i \in Nat, Arm(e, i)
  PROVE  /\ slots' \in [Slots -> Seq(Elems)]
         /\ cyc' \in [Elems -> Nat] /\ slotNo' \in [Elems -> Slots]
         /\ AbsDue(e)' = AbsNow + i
         /\ \A x \in Elems \ {e} : AbsDue(x)' = AbsDue(x)
         /\ SlotsOrdered => /\ SlotsOrdered'
                            /\ \A x : InSlot(x)' <=> InSlot(x) \/ x = e
  <1> DEFINE c == CycleFor(AbsNow, i)
             n == SlotFor(AbsNow, i)
  <1>1. AbsNow \in Nat /\ c \in Nat /\ n \in Slots /\ c * WheelSize + n = AbsNow + i
    BY AbsTypes, PlacedAway
  <1>2. cyc' = [cyc EXCEPT ![e] = c] /\ slotNo' = [slotNo EXCEPT ![e] = n]
    BY DEF Arm
  <1> HIDE DEF c, n
  <1>3. cyc' \in [Elems -> Nat] /\ slotNo' \in [Elems -> Slots] /\ cyc'[e] = c /\ slotNo'[e] = n
    BY <1>1, <1>2 DEF WheelTypes
  <1>4. \A x \in Elems \ {e} : cyc'[x] = cyc[x] /\ slotNo'[x] = slotNo[x]
    BY <1>2 DEF WheelTypes
  <1>5. AbsDue(e)' = AbsNow + i /\ \A x \in Elems \ {e} : AbsDue(x)' = AbsDue(x)
    BY <1>1, <1>3, <1>4 DEF AbsDue
  <1>6. \A s \in Slots :
          slots'[s] = IF s = n THEN Place(RemoveFirst(slots[s], e), cyc', e)
                      ELSE RemoveFirst(slots[s], e)
    BY <1>1, <1>3 DEF Arm, Unslot
  <1>7. \A s \in Slots : slots[s] \in Seq(Elems) /\ RemoveFirst(slots[s], e) \in Seq(Elems)
    BY RemoveFirstProperties DEF WheelTypes
  <1>8. Place(RemoveFirst(slots[n], e), cyc', e) \in Seq(Elems)
    BY <1>1, <1>3, <1>7, PlaceProperties
  <1>9. slots' \in [Slots -> Seq(Elems)]
    <2> DEFINE P == Place(RemoveFirst(slots[n], e), cyc', e)
               U == [s \in Slots |-> RemoveFirst(slots[s], e)]
    <2>1. slots' = [U EXCEPT ![n] = P]
      BY <1>1, <1>3 DEF Arm, Unslot
    <2>2. U \in [Slots -> Seq(Elems)] /\ P \in Seq(Elems)
      BY <1>7, <1>8
    <2> HIDE DEF P, U
    <2> QED BY <2>1, <2>2
  <1>10. ASSUME SlotsOrdered
         PROVE  SlotsOrdered' /\ \A x : InSlot(x)' <=> InSlot(x) \/ x = e
    <2> DEFINE R(s) == RemoveFirst(slots[s], e)
    <2>1. \A s \in Slots : /\ R(s) \in Seq(Elems) /\ IsInjective(R(s))
                           /\ ToSet(R(s)) = ToSet(slots[s]) \ {e} /\ ToSet(R(s)) \subseteq Elems
                           /\ \A x, y : Before(R(s), x, y) => Before(slots[s], x, y)
      BY <1>7, <1>10, RemoveFirstProperties, Elements DEF SlotsOrdered
    <2>2. ASSUME NEW s \in Slots, NEW x, NEW y, Before(R(s), x, y)
          PROVE  cyc'[x] <= cyc'[y]
      <3>1. x \in ToSet(R(s)) /\ y \in ToSet(R(s))
        BY <2>2 DEF Before, ToSet
      <3>2. cyc'[x] = cyc[x] /\ cyc'[y] = cyc[y]
        BY <1>4, <2>1, <3>1
      <3>3. x \in Elems /\ y \in Elems
        BY <2>1, <3>1
      <3> QED BY <1>10, <2>1, <2>2, <3>2, <3>3 DEF SlotsOrdered
    <2>3. /\ IsInjective(Place(R(n), cyc', e))
          /\ ToSet(Place(R(n), cyc', e)) = (ToSet(slots[n]) \ {e}) \cup {e}
          /\ \A x, y : Before(Place(R(n), cyc', e), x, y) => cyc'[x] <= cyc'[y]
      <3>1. /\ ToSet(Place(R(n), cyc', e)) = ToSet(R(n)) \cup {e}
            /\ IsInjective(R(n)) /\ e \notin ToSet(R(n)) => IsInjective(Place(R(n), cyc', e))
            /\ (\A x, y : Before(R(n), x, y) => cyc'[x] <= cyc'[y]) =>
                 \A x, y : Before(Place(R(n), cyc', e), x, y) => cyc'[x] <= cyc'[y]
        BY <1>1, <1>3, <2>1, PlaceProperties, ZenonT(40)
      <3> QED BY <1>1, <2>1, <2>2, <3>1
    <2>4. \A s \in Slots \ {n} : slots'[s] = R(s)
      BY <1>6
    <2>5. slots'[n] = Place(R(n), cyc', e)
      BY <1>1, <1>6
    <2> HIDE DEF R
    <2>6. \A s \in Slots : \A x \in ToSet(slots'[s]) : slotNo'[x] = s
      <3> TAKE s \in Slots
      <3> TAKE x \in ToSet(slots'[s])
      <3>1. CASE x = e
        BY <1>3, <2>1, <2>3, <2>4, <2>5, <3>1
      <3>2. CASE x # e
        <4>1. x \in ToSet(slots[s]) /\ x \in Elems
          BY <2>1, <2>3, <2>4, <2>5, <3>2
        <4> QED BY <1>4, <1>10, <3>2, <4>1 DEF SlotsOrdered
      <3> QED BY <3>1, <3>2
    <2>7. SlotsOrdered'
      <3> SUFFICES ASSUME NEW s \in Slots
                   PROVE  /\ IsInjective(slots'[s])
                          /\ \A x, y \in Elems : Before(slots'[s], x, y) => cyc'[x] <= cyc'[y]
        BY <2>6 DEF SlotsOrdered
      <3>1. CASE s = n
        BY <2>3, <2>5, <3>1
      <3>2. CASE s # n
        BY <2>1, <2>2, <2>4, <3>2
      <3> QED BY <3>1, <3>2
    <2>8. \A x : InSlot(x)' <=> InSlot(x) \/ x = e
      <3>1. \A s \in Slots \ {n} : ToSet(slots'[s]) = ToSet(slots[s]) \ {e}
        BY <2>1, <2>4
      <3>2. ToSet(slots'[n]) = ToSet(slots[n]) \cup {e}
        BY <2>3, <2>5
      <3> QED BY <1>1, <3>1, <3>2 DEF InSlot
    <2> QED BY <2>7, <2>8
  <1> QED BY <1>3, <1>5, <1>9, <1>10

------------------------------------------------------------------------------
(* The inductive invariant *)

\* The application's call, and the elements the wheel thread has left, are there
\* while they are used.
Requests == {"CREATE", "RESCHED", "DELETE"}
TypeInv ==
  /\ TypeOK
  /\ apc # "idle" => call \in [elem : Elems, op : Requests, iv : Nat]
  /\ wpc \in {"list", "apply"} => hand # << >>

\* An element in a slot is due after the clock, at most its interval away; the
\* clock has reached it only during the walk.
DueSound ==
  \A e \in Elems : InSlot(e) =>
    /\ iv[e] >= 1 /\ AbsDue(e) <= AbsNow + iv[e]
    /\ AbsNow < AbsDue(e) \/ (AbsNow = AbsDue(e) /\ wpc = "walk")

\* The reschedule list holds an element once and, while the wheel thread has the
\* lock, what that has left to process; a call is about an element registered.
ListSound ==
  /\ IsInjective(resched)
  /\ \A e \in Elems : InSlot(e) \/ Listed(e) => life[e] \in {"live", "closed"}
  /\ wpc \in {"list", "apply"} => IsInjective(hand) /\ ToSet(hand) \subseteq ToSet(resched)
  /\ apc # "idle" => life[call.elem] # "new"

\* What the application's call has written so far.
CallSound ==
  apc # "idle" =>
    /\ wpc = "idle"
    /\ life[call.elem] = IF call.op = "DELETE" THEN "closed" ELSE "live"
    /\ call.iv \in IF call.op = "DELETE" THEN {0} ELSE Intervals
    /\ apc = "writeOp" /\ Listed(call.elem) => op[call.elem] \in {"CREATE", "RESCHED"}
    /\ apc \in {"writeIv", "link"} => op[call.elem] = call.op
    /\ apc = "link" => newIv[call.elem] = call.iv

\* An element that no call is about is armed, or its request is listed.
Kept(e) ==
  /\ life[e] = "live" /\ rec[e] => \/ InSlot(e)
                                   \/ Listed(e) /\ op[e] \in {"CREATE", "RESCHED"}
  /\ life[e] = "closed" => Listed(e) /\ op[e] = "DELETE"
  /\ op[e] = "DELETE" => life[e] \in {"closed", "freed"}
  /\ Listed(e) => op[e] # "SCHEDULED"
AllKept ==
  /\ \A e \in Elems : apc = "idle" \/ call.elem # e => Kept(e)
  /\ wpc = "apply" => seen = op[Head(hand)]

Safe == /\ SlotsOrdered /\ DueSound /\ ListSound
        /\ ~overlap => CallSound /\ AllKept

IInv == TypeInv /\ (broken = "no" => Safe)

------------------------------------------------------------------------------
(* Types *)

LEMMA TypesOfWheel == TypeInv => WheelTypes /\ AbsNow \in Nat /\ WheelSize \in Nat \ {0}
  <1> SUFFICES ASSUME TypeInv PROVE WheelTypes /\ AbsNow \in Nat /\ WheelSize \in Nat \ {0}
    OBVIOUS
  <1>1. MaxCycle[overlap] \in Nat
    BY WheelAssumption DEF TypeInv, TypeOK
  <1>2. WheelTypes
    BY <1>1 DEF TypeInv, TypeOK, WheelTypes
  <1> QED BY <1>2, AbsTypes, WheelAssumption

LEMMA TypeInit == Init => TypeInv
  <1> SUFFICES ASSUME Init PROVE TypeInv
    OBVIOUS
  <1>1. 0 \in Slots /\ MaxCycle[overlap] \in Nat
    BY WheelAssumption DEF Init, Slots
  <1>2. << >> \in Seq(Elems)
    BY EmptySeq
  <1> QED BY <1>1, <1>2 DEF Init, TypeInv, TypeOK

\* The steps of the application.
LEMMA TypeApplication ==
  ASSUME TypeInv, Application, UNCHANGED overlap
  PROVE  TypeInv'
  <1> USE DEF TypeInv, TypeOK
  <1>1. ASSUME NEW e \in Elems, NEW o \in Requests, NEW i \in Nat, Begin(e, o, i),
               life' \in [Elems -> {"new", "live", "closed", "freed"}]
        PROVE  TypeInv'
    <2>1. call' \in [elem : Elems, op : Requests, iv : Nat]
      BY <1>1 DEF Begin
    <2> QED BY <1>1, <2>1 DEF Begin, clock, wheel
  <1>2. ASSUME NEW e \in Elems, Register(e) \/ Reschedule(e) \/ Deregister(e)
        PROVE  TypeInv'
    <2>1. CASE Register(e)
      <3>1. PICK i \in Intervals : Begin(e, "CREATE", i)
        BY <2>1 DEF Register
      <3>2. life' \in [Elems -> {"new", "live", "closed", "freed"}]
        BY <2>1 DEF Register
      <3> QED BY <1>1, <3>1, <3>2, WheelAssumption DEF Requests
    <2>2. CASE Reschedule(e)
      <3>1. PICK i \in Intervals : Begin(e, "RESCHED", i)
        BY <2>2 DEF Reschedule
      <3>2. life' \in [Elems -> {"new", "live", "closed", "freed"}]
        BY <2>2 DEF Reschedule
      <3> QED BY <1>1, <3>1, <3>2, WheelAssumption DEF Requests
    <2>3. CASE Deregister(e)
      <3>1. Begin(e, "DELETE", 0)
        BY <2>3 DEF Deregister
      <3>2. life' \in [Elems -> {"new", "live", "closed", "freed"}]
        BY <2>3 DEF Deregister
      <3> QED BY <1>1, <3>1, <3>2 DEF Requests
    <2> QED BY <1>2, <2>1, <2>2, <2>3
  <1>3. CASE WriteOp
    <2>1. op' \in [Elems -> {"CREATE", "RESCHED", "DELETE", "SCHEDULED"}]
      BY <1>3 DEF WriteOp, Requests
    <2> QED BY <1>3, <2>1 DEF WriteOp, clock, wheel
  <1>4. CASE WriteInterval
    <2>1. newIv' \in [Elems -> Nat]
      BY <1>4 DEF WriteInterval
    <2> QED BY <1>4, <2>1 DEF WriteInterval, clock, wheel
  <1>5. CASE Link
    <2>1. resched' \in Seq(Elems)
      <3>1. call.elem \in Elems
        BY <1>5 DEF Link
      <3>2. RemoveFirst(resched, call.elem) \in Seq(Elems)
        BY <3>1, RemoveFirstProperties
      <3> QED BY <1>5, <3>1, <3>2, ConsElements DEF Link, ToFront
    <2>2. broken' \in {"no", "assert", "uaf"}
      BY <1>5 DEF Link
    <2> QED BY <1>5, <2>1, <2>2 DEF Link, clock, wheel, element
  <1>6. CASE RunJob
    <2>1. jobs' \in Seq(Elems)
      BY <1>6, TailElements DEF RunJob
    <2> QED BY <1>6, <2>1 DEF RunJob, clock, wheel, element
  <1> QED BY <1>2, <1>3, <1>4, <1>5, <1>6 DEF Application

\* The clock advances by one slot.
LEMMA ClockStep ==
  ASSUME TypeInv, Tick, UNCHANGED overlap
  PROVE  tic' \in Slots /\ cycle' \in 0..MaxCycle[overlap] /\ AbsNow' = AbsNow + 1
  <1>1. /\ tic \in 0..(WheelSize - 1) /\ cycle \in Nat /\ MaxCycle[overlap] \in Nat
        /\ WheelSize \in Nat \ {0} /\ cycle < MaxCycle[overlap]
    BY WheelAssumption DEF TypeInv, TypeOK, Slots, Tick
  <1>2. CASE tic + 1 = WheelSize
    <2>1. tic' = 0 /\ cycle' = cycle + 1
      BY <1>2 DEF Tick, NextTic, NextCycle
    <2>2. (cycle + 1) * WheelSize = cycle * WheelSize + WheelSize /\ cycle * WheelSize \in Nat
      BY <1>1
    <2>3. AbsNow' = (cycle + 1) * WheelSize + 0
      BY <2>1 DEF AbsNow
    <2> QED BY <1>1, <1>2, <2>1, <2>2, <2>3 DEF AbsNow, Slots
  <1>3. CASE tic + 1 # WheelSize
    <2>1. tic' = tic + 1 /\ cycle' = cycle
      BY <1>3 DEF Tick, NextTic, NextCycle
    <2>2. cycle * WheelSize \in Nat
      BY <1>1
    <2> QED BY <1>1, <1>3, <2>1, <2>2 DEF AbsNow, Slots
  <1> QED BY <1>2, <1>3

LEMMA TypeAdvance ==
  ASSUME TypeInv, wpc \in {"list", "apply"}, Advance
  PROVE  /\ hand' \in Seq(Elems) /\ wpc' \in {"idle", "list"}
         /\ wpc' \in {"list", "apply"} => hand' # << >>
         /\ Head(hand) \in Elems
  BY TailElements DEF TypeInv, TypeOK, Advance

\* The steps of the wheel thread.
LEMMA TypeWheelThread ==
  ASSUME TypeInv, WheelThread, UNCHANGED overlap
  PROVE  TypeInv'
  <1>0. WheelTypes
    BY TypesOfWheel
  <1> USE DEF TypeInv, TypeOK
  <1>1. CASE Tick
    <2>1. tic' \in Slots /\ cycle' \in 0..MaxCycle[overlap]
      BY <1>1, ClockStep
    <2> QED BY <1>1, <2>1 DEF Tick, element
  <1>2. CASE Fire
    <2> DEFINE e == Head(slots[tic])
    <2>1. slots[tic] \in Seq(Elems) /\ slots[tic] # << >>
      BY <1>2 DEF Fire, DueNow
    <2>2. e \in Elems
      BY <2>1, TailElements
    <2>3. /\ slots' \in [Slots -> Seq(Elems)]
          /\ cyc' \in [Elems -> Nat] /\ slotNo' \in [Elems -> Slots]
      <3> HIDE DEF e
      <3>1. Refire(e)
        BY <1>2 DEF Fire, e
      <3>2. CASE rec[e]
        <4>1. Arm(e, iv[e]) /\ iv[e] \in Nat
          BY <2>2, <3>1, <3>2 DEF Refire
        <4> QED BY <1>0, <2>2, <4>1, ArmStep
      <3>3. CASE ~rec[e]
        <4>1. slots' = Unslot(e) /\ UNCHANGED <<cyc, slotNo>>
          BY <3>1, <3>3 DEF Refire
        <4> QED BY <1>0, <2>2, <4>1, UnslotStep
      <3> QED BY <3>2, <3>3
    <2>4. jobs' \in Seq(Elems)
      BY <1>2, <2>2, AppendElements DEF Fire
    <2> HIDE DEF e
    <2> QED BY <1>2, <2>3, <2>4 DEF Fire, clock, wheel
  <1>3. CASE LockList
    BY <1>3 DEF LockList, clock, element
  <1>4. CASE ReadOp
    BY <1>4 DEF ReadOp, clock, element
  <1>5. CASE ApplyArm
    <2> DEFINE e == Head(hand)
    <2>1. wpc = "apply" /\ Advance
      BY <1>5 DEF ApplyArm
    <2>2. /\ hand' \in Seq(Elems) /\ wpc' \in {"idle", "list"} /\ e \in Elems
          /\ wpc' \in {"list", "apply"} => hand' # << >>
      BY <2>1, TypeAdvance
    <2> HIDE DEF e
    <2>3. /\ Arm(e, newIv[e]) /\ newIv[e] \in Nat
          /\ broken' = IF newIv[e] = 0 THEN "assert" ELSE broken
          /\ iv' = [iv EXCEPT ![e] = newIv[e]]
          /\ resched' = RemoveFirst(resched, e)
          /\ op' = [op EXCEPT ![e] = "SCHEDULED"]
      BY <1>5, <2>2 DEF ApplyArm, e
    <2>4. /\ slots' \in [Slots -> Seq(Elems)]
          /\ cyc' \in [Elems -> Nat] /\ slotNo' \in [Elems -> Slots]
      BY <1>0, <2>2, <2>3, ArmStep
    <2>5. resched' \in Seq(Elems)
      BY <2>3, RemoveFirstProperties
    <2>6. /\ iv' \in [Elems -> Nat] /\ broken' \in {"no", "assert", "uaf"}
          /\ op' \in [Elems -> {"CREATE", "RESCHED", "DELETE", "SCHEDULED"}]
      BY <2>3
    <2>7. UNCHANGED <<tic, cycle, rec, newIv, apc, call, jobs, life>>
      BY <1>5, <2>1 DEF ApplyArm, Advance, clock
    <2> QED BY <2>2, <2>4, <2>5, <2>6, <2>7
  <1>6. CASE ApplyDelete
    <2> DEFINE e == Head(hand)
    <2>1. wpc = "apply" /\ Advance
      BY <1>6 DEF ApplyDelete
    <2>2. /\ hand' \in Seq(Elems) /\ wpc' \in {"idle", "list"} /\ e \in Elems
          /\ wpc' \in {"list", "apply"} => hand' # << >>
      BY <2>1, TypeAdvance
    <2> HIDE DEF e
    <2>3. /\ slots' = Unslot(e) /\ UNCHANGED <<op, iv, cyc, slotNo, broken>>
          /\ resched' = RemoveFirst(resched, e) /\ life' = [life EXCEPT ![e] = "freed"]
      BY <1>6 DEF ApplyDelete, e
    <2>4. slots' \in [Slots -> Seq(Elems)]
      BY <1>0, <2>2, <2>3, UnslotStep
    <2>5. resched' \in Seq(Elems) /\ life' \in [Elems -> {"new", "live", "closed", "freed"}]
      BY <2>3, RemoveFirstProperties
    <2>6. UNCHANGED <<tic, cycle, rec, newIv, apc, call, jobs>>
      BY <2>1 DEF Advance, clock
    <2> QED BY <2>2, <2>3, <2>4, <2>5, <2>6
  <1>7. CASE ApplyScheduled
    <2> DEFINE e == Head(hand)
    <2>1. wpc = "apply" /\ Advance
      BY <1>7 DEF ApplyScheduled
    <2>2. /\ hand' \in Seq(Elems) /\ wpc' \in {"idle", "list"} /\ e \in Elems
          /\ wpc' \in {"list", "apply"} => hand' # << >>
      BY <2>1, TypeAdvance
    <2> HIDE DEF e
    <2>3. slots' = Unslot(e) /\ UNCHANGED <<resched, life, op, iv, cyc, slotNo, broken>>
      BY <1>7 DEF ApplyScheduled, e
    <2>4. slots' \in [Slots -> Seq(Elems)]
      BY <1>0, <2>2, <2>3, UnslotStep
    <2>5. UNCHANGED <<tic, cycle, rec, newIv, apc, call, jobs>>
      BY <2>1 DEF Advance, clock
    <2> QED BY <2>2, <2>3, <2>4, <2>5
  <1> QED BY <1>1, <1>2, <1>3, <1>4, <1>5, <1>6, <1>7 DEF WheelThread

LEMMA TypeStep == TypeInv /\ [Next]_vars => TypeInv'
  <1>1. ASSUME TypeInv, Next PROVE TypeInv'
    BY <1>1, TypeApplication, TypeWheelThread DEF Next
  <1>2. ASSUME TypeInv, UNCHANGED vars PROVE TypeInv'
    BY <1>2 DEF TypeInv, TypeOK, vars
  <1> QED BY <1>1, <1>2

\* Every variable of the wheel keeps its type.
THEOREM TypeCorrect == Spec => []TypeOK
  <1>1. Init => TypeInv
    BY TypeInit
  <1>2. TypeInv /\ [Next]_vars => TypeInv'
    BY TypeStep
  <1>3. TypeInv => TypeOK
    BY DEF TypeInv
  <1> QED BY <1>1, <1>2, <1>3, PTL DEF Spec

------------------------------------------------------------------------------
(* Safety *)

LEMMA SafeInit == Init => Safe
  <1> SUFFICES ASSUME Init PROVE Safe
    OBVIOUS
  <1>1. ToSet(<< >>) = {} /\ DOMAIN << >> = {}
    <2>1. << >> \in Seq(Elems)
      BY EmptySeq
    <2> QED BY <2>1, Elements, EmptySeq DEF ToSet
  <1>2. \A s \in Slots : slots[s] = << >>
    BY DEF Init
  <1>3. \A e : ~InSlot(e) /\ ~Listed(e)
    BY <1>1, <1>2 DEF Init, InSlot, Listed
  <1>4. SlotsOrdered
    BY <1>1, <1>2 DEF SlotsOrdered, IsInjective, Before
  <1>5. ListSound
    BY <1>1, <1>3 DEF Init, ListSound, IsInjective
  <1>6. DueSound /\ CallSound /\ AllKept
    BY <1>3 DEF Init, DueSound, CallSound, AllKept, Kept
  <1> QED BY <1>4, <1>5, <1>6 DEF Safe

\* A step that leaves the slots and the clock alone.
LEMMA WheelFrame ==
  ASSUME UNCHANGED <<tic, cycle, slots, cyc, slotNo>>
  PROVE  /\ AbsNow' = AbsNow
         /\ \A e : AbsDue(e)' = AbsDue(e) /\ (InSlot(e)' <=> InSlot(e))
         /\ SlotsOrdered => SlotsOrdered'
         /\ DueSound /\ UNCHANGED <<iv, wpc>> => DueSound'
  BY DEF AbsNow, AbsDue, InSlot, SlotsOrdered, DueSound

\* The start of a call: no call is being made, and the element is not in use by
\* the wheel thread unless calls and ticks overlap.
LEMMA SafeBegin ==
  ASSUME TypeInv, Safe, UNCHANGED overlap, NEW e \in Elems, NEW o \in Requests, NEW i \in Nat,
         Begin(e, o, i),
         i \in IF o = "DELETE" THEN {0} ELSE Intervals,
         life' = [life EXCEPT ![e] = IF o = "DELETE" THEN "closed" ELSE "live"],
         life[e] \in {"new", "live"}, o \in {"RESCHED", "DELETE"} => life[e] = "live"
  PROVE  Safe'
  <1>1. /\ UNCHANGED <<tic, cycle, slots, resched, rec, op, iv, newIv, cyc, slotNo, wpc, hand,
                       seen, jobs, broken>>
        /\ apc = "idle" /\ apc' = "writeOp" /\ (overlap \/ wpc = "idle")
        /\ call' = [elem |-> e, op |-> o, iv |-> i]
    BY DEF Begin, clock, wheel
  <1>2. /\ SlotsOrdered' /\ DueSound'
        /\ \A x : InSlot(x)' <=> InSlot(x)
        /\ \A x : Listed(x)' <=> Listed(x)
    BY <1>1, WheelFrame DEF Safe, Listed
  <1>3. /\ life'[e] = (IF o = "DELETE" THEN "closed" ELSE "live")
        /\ \A x \in Elems \ {e} : life'[x] = life[x]
    BY DEF TypeInv, TypeOK
  <1>4. ListSound'
    BY <1>1, <1>2, <1>3 DEF Safe, ListSound
  <1>5. ASSUME ~overlap
        PROVE  CallSound' /\ AllKept'
    <2>1. Kept(e) /\ \A x \in Elems \ {e} : Kept(x)
      BY <1>1, <1>5 DEF Safe, AllKept
    <2>2. Listed(e) => op[e] \in {"CREATE", "RESCHED"}
      BY <2>1 DEF Safe, ListSound, Kept, TypeInv, TypeOK
    <2>3. CallSound'
      BY <1>1, <1>2, <1>3, <1>5, <2>2 DEF CallSound
    <2>4. ASSUME NEW x \in Elems \ {e} PROVE Kept(x)'
      BY <1>1, <1>2, <1>3, <2>1 DEF Kept
    <2> QED BY <1>1, <1>5, <2>3, <2>4 DEF AllKept
  <1> QED BY <1>2, <1>4, <1>5 DEF Safe

\* The steps of a call: opcode, interval, and the link to the reschedule list.
LEMMA SafeWrite ==
  ASSUME TypeInv, Safe, UNCHANGED overlap, WriteOp \/ WriteInterval
  PROVE  Safe'
  <1>1. /\ UNCHANGED <<tic, cycle, slots, resched, life, rec, iv, cyc, slotNo, wpc, hand,
                       seen, call, jobs, broken>>
        /\ apc # "idle" /\ apc' # "idle" /\ call.elem \in Elems
    BY DEF WriteOp, WriteInterval, clock, wheel, TypeInv
  <1>2. /\ SlotsOrdered' /\ DueSound'
        /\ \A x : InSlot(x)' <=> InSlot(x)
        /\ \A x : Listed(x)' <=> Listed(x)
    BY <1>1, WheelFrame DEF Safe, Listed
  <1>3. ListSound'
    BY <1>1, <1>2 DEF Safe, ListSound
  <1>4. ASSUME ~overlap
        PROVE  CallSound' /\ AllKept'
    <2>1. CallSound /\ AllKept
      BY <1>4 DEF Safe
    <2>2. \A x \in Elems \ {call.elem} : op'[x] = op[x]
      BY <1>1 DEF WriteOp, WriteInterval, TypeInv, TypeOK
    <2>3. CallSound'
      <3>1. CASE WriteOp
        <4>1. apc' = "writeIv" /\ op'[call.elem] = call.op
          BY <1>1, <3>1 DEF WriteOp, TypeInv, TypeOK
        <4> QED BY <1>1, <2>1, <4>1 DEF CallSound
      <3>2. CASE WriteInterval
        <4>1. apc = "writeIv" /\ apc' = "link" /\ newIv'[call.elem] = call.iv /\ op' = op
          BY <1>1, <3>2 DEF WriteInterval, TypeInv, TypeOK
        <4> QED BY <1>1, <2>1, <4>1 DEF CallSound
      <3> QED BY <3>1, <3>2
    <2>4. ASSUME NEW x \in Elems, x # call.elem
          PROVE  Kept(x)'
      <3>1. Kept(x)
        BY <2>1, <2>4 DEF AllKept
      <3> QED BY <1>1, <1>2, <2>2, <2>4, <3>1 DEF Kept
    <2>5. wpc' # "apply"
      BY <1>1, <2>1 DEF CallSound
    <2> QED BY <1>1, <2>3, <2>4, <2>5 DEF AllKept
  <1> QED BY <1>2, <1>3, <1>4 DEF Safe

LEMMA SafeLink ==
  ASSUME TypeInv, Safe, UNCHANGED overlap, Link, broken' = "no"
  PROVE  Safe'
  <1>0. PICK e \in Elems : e = call.elem
    BY DEF Link, TypeInv
  <1>1. /\ UNCHANGED <<tic, cycle, slots, life, rec, op, iv, newIv, cyc, slotNo, wpc, hand, seen, jobs>>
        /\ apc = "link" /\ apc' = "idle" /\ wpc \notin {"list", "apply"}
        /\ e \in Elems /\ life[e] # "freed" /\ life[e] # "new"
        /\ resched' = <<e>> \o RemoveFirst(resched, e)
    BY <1>0 DEF Link, clock, element, wheel, TypeInv, Safe, ListSound, ToFront
  <1>2. life[e] \in {"live", "closed"}
    BY <1>1 DEF TypeInv, TypeOK
  <1>3. /\ SlotsOrdered' /\ DueSound'
        /\ \A x : InSlot(x)' <=> InSlot(x)
    BY <1>1, WheelFrame DEF Safe
  <1>4. IsInjective(resched') /\ ToSet(resched') = ToSet(resched) \cup {e}
    <2>1. resched \in Seq(Elems) /\ IsInjective(resched)
      BY DEF TypeInv, TypeOK, Safe, ListSound
    <2>2. /\ RemoveFirst(resched, e) \in Seq(Elems) /\ IsInjective(RemoveFirst(resched, e))
          /\ ToSet(RemoveFirst(resched, e)) = ToSet(resched) \ {e}
      BY <2>1, RemoveFirstProperties
    <2> QED BY <1>1, <2>2, ConsElements
  <1>5. \A x : Listed(x)' <=> Listed(x) \/ x = e
    BY <1>4 DEF Listed
  <1>6. ListSound'
    BY <1>1, <1>2, <1>3, <1>4, <1>5 DEF Safe, ListSound
  <1>7. ASSUME ~overlap
        PROVE  CallSound' /\ AllKept'
    <2>1. CallSound /\ AllKept
      BY <1>7 DEF Safe
    <2>2. op[e] = call.op /\ call.op \in Requests
          /\ life[e] = IF call.op = "DELETE" THEN "closed" ELSE "live"
      BY <1>0, <1>1, <2>1 DEF CallSound, TypeInv
    <2>3. Kept(e)'
      BY <1>1, <1>5, <2>2 DEF Kept, Requests
    <2>4. ASSUME NEW x \in Elems, x # e
          PROVE  Kept(x)'
      <3>1. Kept(x)
        BY <1>0, <2>1, <2>4 DEF AllKept
      <3> QED BY <1>1, <1>3, <1>5, <2>4, <3>1 DEF Kept
    <2> QED BY <1>1, <2>3, <2>4 DEF AllKept, CallSound
  <1> QED BY <1>3, <1>6, <1>7 DEF Safe

LEMMA SafeApplication ==
  ASSUME TypeInv, Safe, UNCHANGED overlap, Application, broken' = "no"
  PROVE  Safe'
  <1>1. ASSUME NEW e \in Elems, Register(e) PROVE Safe'
    <2>1. PICK i \in Intervals : Begin(e, "CREATE", i)
      BY <1>1 DEF Register
    <2>2. life[e] = "new" /\ life' = [life EXCEPT ![e] = "live"]
      BY <1>1 DEF Register
    <2> QED BY <2>1, <2>2, SafeBegin, WheelAssumption DEF Requests
  <1>2. ASSUME NEW e \in Elems, Reschedule(e) PROVE Safe'
    <2>1. PICK i \in Intervals : Begin(e, "RESCHED", i)
      BY <1>2 DEF Reschedule
    <2>2. life[e] = "live" /\ life' = [life EXCEPT ![e] = "live"]
      BY <1>2 DEF Reschedule, TypeInv, TypeOK
    <2> QED BY <2>1, <2>2, SafeBegin, WheelAssumption DEF Requests
  <1>3. ASSUME NEW e \in Elems, Deregister(e) PROVE Safe'
    <2>1. Begin(e, "DELETE", 0) /\ life[e] = "live" /\ life' = [life EXCEPT ![e] = "closed"]
      BY <1>3 DEF Deregister
    <2> QED BY <2>1, SafeBegin DEF Requests
  <1>4. CASE RunJob
    <2>1. UNCHANGED <<tic, cycle, slots, resched, life, rec, op, iv, newIv, cyc, slotNo,
                      wpc, hand, seen, apc, call, broken>>
      BY <1>4 DEF RunJob, clock, element, wheel
    <2>2. /\ SlotsOrdered' /\ DueSound'
          /\ \A x : InSlot(x)' <=> InSlot(x)
          /\ \A x : Listed(x)' <=> Listed(x)
      BY <2>1, WheelFrame DEF Safe, Listed
    <2>3. ListSound' /\ (~overlap => CallSound' /\ AllKept')
      BY <2>1, <2>2 DEF Safe, ListSound, CallSound, AllKept, Kept
    <2> QED BY <2>2, <2>3 DEF Safe
  <1> QED BY <1>1, <1>2, <1>3, <1>4, SafeWrite, SafeLink DEF Application

\* The tick: every timer comes one slot closer, the application is not in a call
\* unless calls and ticks overlap.
LEMMA SafeTick ==
  ASSUME TypeInv, Safe, UNCHANGED overlap, Tick
  PROVE  Safe'
  <1>1. /\ UNCHANGED <<slots, resched, life, rec, op, iv, newIv, cyc, slotNo, hand, seen, apc,
                       call, jobs, broken>>
        /\ wpc = "idle" /\ wpc' = "walk" /\ (overlap \/ apc = "idle")
    BY DEF Tick, element
  <1>2. AbsNow' = AbsNow + 1 /\ AbsNow \in Nat /\ WheelTypes
    BY ClockStep, TypesOfWheel
  <1>3. /\ \A x : AbsDue(x)' = AbsDue(x) /\ (InSlot(x)' <=> InSlot(x)) /\ (Listed(x)' <=> Listed(x))
        /\ SlotsOrdered'
    BY <1>1 DEF AbsDue, InSlot, Listed, SlotsOrdered, Safe
  <1>4. DueSound'
    <2> SUFFICES ASSUME NEW x \in Elems, InSlot(x)
                 PROVE  /\ iv'[x] >= 1 /\ AbsDue(x)' <= AbsNow' + iv'[x]
                        /\ AbsNow' < AbsDue(x)' \/ (AbsNow' = AbsDue(x)' /\ wpc' = "walk")
      BY <1>3 DEF DueSound
    <2>1. AbsDue(x) \in Nat /\ iv[x] \in Nat /\ iv'[x] = iv[x]
      BY <1>1, <1>2, AbsTypes DEF TypeInv, TypeOK
    <2>2. iv[x] >= 1 /\ AbsDue(x) <= AbsNow + iv[x] /\ AbsNow < AbsDue(x)
      BY <1>1 DEF Safe, DueSound
    <2> QED BY <1>1, <1>2, <1>3, <2>1, <2>2
  <1>5. ListSound' /\ (~overlap => CallSound' /\ AllKept')
    BY <1>1, <1>3 DEF Safe, ListSound, CallSound, AllKept, Kept
  <1> QED BY <1>3, <1>4, <1>5 DEF Safe

\* The walk has come to an element that is not due: no other element is.
LEMMA NoneDue ==
  ASSUME TypeInv, Safe, ~DueNow, NEW x \in Elems, InSlot(x)
  PROVE  AbsDue(x) # AbsNow
  <1> SUFFICES ASSUME AbsDue(x) = AbsNow PROVE FALSE
    OBVIOUS
  <1>1. /\ WheelTypes /\ WheelSize \in Nat \ {0} /\ tic \in 0..(WheelSize - 1)
        /\ slots[tic] \in Seq(Elems)
        /\ \A y \in Elems : cyc[y] \in Nat /\ slotNo[y] \in 0..(WheelSize - 1)
    BY TypesOfWheel DEF WheelTypes, Slots
  <1>2. cyc[x] = cycle /\ slotNo[x] = tic
    <2>1. cyc[x] * WheelSize + slotNo[x] = cycle * WheelSize + tic
      BY DEF AbsDue, AbsNow
    <2>2. cycle \in Nat /\ cyc[x] \in Nat /\ slotNo[x] \in 0..(WheelSize - 1)
      BY <1>1 DEF WheelTypes
    <2>3. PICK a \in Nat, t \in 0..(WheelSize - 1) : a = cyc[x] /\ t = slotNo[x]
      BY <2>2
    <2>4. PICK w \in Nat \ {0}, b \in Nat, u \in 0..(WheelSize - 1) :
            w = WheelSize /\ b = cycle /\ u = tic
      BY <1>1, <2>2
    <2>5. a * w + t = b * w + u /\ t \in 0..(w - 1) /\ u \in 0..(w - 1)
      BY <2>1, <2>3, <2>4
    <2>6. a = b /\ t = u
      BY <2>5, SameTurn
    <2> QED BY <2>3, <2>4, <2>6
  <1>3. x \in ToSet(slots[tic])
    BY <1>2 DEF InSlot, Safe, SlotsOrdered
  <1>4. slots[tic] # << >>
    BY <1>1, <1>3, Elements
  <1>5. PICK h \in Elems : h = Head(slots[tic]) /\ h \in ToSet(slots[tic]) /\ cyc[h] # cycle
    BY <1>1, <1>4, TailElements DEF DueNow
  <1>6. Before(slots[tic], h, x)
    <2>1. x \in ToSet(Tail(slots[tic]))
      BY <1>1, <1>2, <1>3, <1>4, <1>5, TailElements
    <2> QED BY <1>1, <1>4, <1>5, <2>1, TailElements
  <1>7. cyc[h] <= cycle
    BY <1>1, <1>2, <1>5, <1>6 DEF Safe, SlotsOrdered, WheelTypes
  <1>8. AbsNow <= AbsDue(h)
    <2>1. InSlot(h)
      BY <1>1, <1>5 DEF InSlot, Slots
    <2>2. AbsNow \in Nat /\ AbsDue(h) \in Nat
      BY <1>1, AbsTypes
    <2> QED BY <2>1, <2>2 DEF Safe, DueSound
  <1>9. cycle <= cyc[h]
    BY <1>1, <1>8, SameTurn DEF AbsDue, AbsNow, WheelTypes
  <1> QED BY <1>1, <1>5, <1>7, <1>9 DEF WheelTypes

LEMMA SafeLockList ==
  ASSUME TypeInv, Safe, UNCHANGED overlap, LockList
  PROVE  Safe'
  <1>1. /\ UNCHANGED <<tic, cycle, slots, resched, life, rec, op, iv, newIv, cyc, slotNo, seen,
                       apc, call, jobs, broken>>
        /\ wpc = "walk" /\ wpc' \in {"idle", "list"} /\ ~DueNow /\ hand' = resched
    BY DEF LockList, clock, element
  <1>2. /\ SlotsOrdered' /\ AbsNow' = AbsNow
        /\ \A x : AbsDue(x)' = AbsDue(x) /\ (InSlot(x)' <=> InSlot(x)) /\ (Listed(x)' <=> Listed(x))
    BY <1>1, WheelFrame DEF Safe, Listed
  <1>3. DueSound'
    BY <1>1, <1>2, NoneDue DEF DueSound, Safe
  <1>4. ListSound' /\ (~overlap => CallSound' /\ AllKept')
    BY <1>1, <1>2 DEF Safe, ListSound, CallSound, AllKept, Kept
  <1> QED BY <1>2, <1>3, <1>4 DEF Safe

LEMMA SafeReadOp ==
  ASSUME TypeInv, Safe, UNCHANGED overlap, ReadOp
  PROVE  Safe'
  <1>1. /\ UNCHANGED <<tic, cycle, slots, resched, life, rec, op, iv, newIv, cyc, slotNo, hand,
                       apc, call, jobs, broken>>
        /\ wpc = "list" /\ wpc' = "apply" /\ seen' = op[Head(hand)]
    BY DEF ReadOp, clock, element
  <1>2. /\ SlotsOrdered' /\ AbsNow' = AbsNow
        /\ \A x : AbsDue(x)' = AbsDue(x) /\ (InSlot(x)' <=> InSlot(x)) /\ (Listed(x)' <=> Listed(x))
    BY <1>1, WheelFrame DEF Safe, Listed
  <1>3. DueSound'
    BY <1>1, <1>2 DEF DueSound, Safe
  <1>4. ListSound' /\ (~overlap => CallSound' /\ AllKept')
    BY <1>1, <1>2 DEF Safe, ListSound, CallSound, AllKept, Kept
  <1> QED BY <1>2, <1>3, <1>4 DEF Safe

\* An element that fires is the first of the current slot, and due now.
LEMMA HeadDue ==
  ASSUME TypeInv, Safe, DueNow
  PROVE  LET e == Head(slots[tic])
         IN e \in Elems /\ e \in ToSet(slots[tic]) /\ InSlot(e) /\ AbsDue(e) = AbsNow
  <1>1. tic \in Slots /\ slots[tic] \in Seq(Elems) /\ slots[tic] # << >>
    BY DEF TypeInv, TypeOK, DueNow
  <1>2. Head(slots[tic]) \in Elems /\ Head(slots[tic]) \in ToSet(slots[tic])
    BY <1>1, TailElements
  <1>3. slotNo[Head(slots[tic])] = tic /\ cyc[Head(slots[tic])] = cycle
    BY <1>1, <1>2 DEF Safe, SlotsOrdered, DueNow
  <1> QED BY <1>1, <1>2, <1>3 DEF InSlot, AbsDue, AbsNow

LEMMA SafeFire ==
  ASSUME TypeInv, Safe, UNCHANGED overlap, Fire
  PROVE  Safe'
  <1>1. PICK e \in Elems : e = Head(slots[tic]) /\ InSlot(e)
    BY HeadDue DEF Fire
  <1>2. /\ UNCHANGED <<tic, cycle, resched, life, rec, op, iv, newIv, wpc, hand, seen, apc, call, broken>>
        /\ wpc = "walk" /\ Refire(e) /\ AbsNow \in Nat /\ iv[e] \in Nat
    BY <1>1, TypesOfWheel DEF Fire, clock, wheel, TypeInv, TypeOK
  <1>3. WheelTypes /\ AbsNow' = AbsNow
    BY <1>2, TypesOfWheel DEF AbsNow
  <1>4. \A x : Listed(x)' <=> Listed(x)
    BY <1>2 DEF Listed
  <1>5. CASE rec[e]
    <2>1. Arm(e, iv[e])
      BY <1>2, <1>5 DEF Refire
    <2>2. /\ SlotsOrdered' /\ AbsDue(e)' = AbsNow + iv[e]
          /\ \A x \in Elems \ {e} : AbsDue(x)' = AbsDue(x)
          /\ \A x : InSlot(x)' <=> InSlot(x)
      BY <1>1, <1>2, <1>3, <2>1, ArmStep DEF Safe
    <2>3. DueSound'
      <3> SUFFICES ASSUME NEW x \in Elems, InSlot(x)
                   PROVE  /\ iv'[x] >= 1 /\ AbsDue(x)' <= AbsNow' + iv'[x]
                          /\ AbsNow' < AbsDue(x)' \/ (AbsNow' = AbsDue(x)' /\ wpc' = "walk")
        BY <2>2 DEF DueSound
      <3>1. iv[e] >= 1
        BY <1>1 DEF Safe, DueSound
      <3>2. CASE x = e
        BY <1>2, <1>3, <2>2, <3>1, <3>2
      <3>3. CASE x # e
        BY <1>2, <1>3, <2>2, <3>3 DEF Safe, DueSound
      <3> QED BY <3>2, <3>3
    <2>4. ListSound' /\ (~overlap => CallSound' /\ AllKept')
      BY <1>2, <1>4, <2>2 DEF Safe, ListSound, CallSound, AllKept, Kept
    <2> QED BY <2>2, <2>3, <2>4 DEF Safe
  <1>6. CASE ~rec[e]
    <2>1. slots' = Unslot(e) /\ UNCHANGED <<cyc, slotNo>>
      BY <1>2, <1>6 DEF Refire
    <2>2. SlotsOrdered' /\ \A x : InSlot(x)' <=> InSlot(x) /\ x # e
      BY <1>3, <2>1, UnslotStep DEF Safe
    <2>3. DueSound'
      BY <1>2, <1>3, <2>1, <2>2 DEF Safe, DueSound, AbsDue
    <2>4. ListSound'
      BY <1>2, <1>4, <2>2 DEF Safe, ListSound
    <2>5. ~overlap => CallSound' /\ AllKept'
      BY <1>2, <1>4, <1>6, <2>2 DEF Safe, CallSound, AllKept, Kept
    <2> QED BY <2>2, <2>3, <2>4, <2>5 DEF Safe
  <1> QED BY <1>5, <1>6

\* An element taken off the reschedule list while the wheel thread has the lock.
LEMMA Unlisted ==
  ASSUME TypeInv, Safe, wpc = "apply", Advance, NEW e \in Elems, e = Head(hand)
  PROVE  /\ Listed(e) /\ life[e] \in {"live", "closed"}
         /\ IsInjective(hand') /\ ToSet(hand') \subseteq ToSet(resched) \ {e}
         /\ LET r == RemoveFirst(resched, e)
            IN IsInjective(r) /\ ToSet(r) = ToSet(resched) \ {e}
         /\ ~overlap => /\ seen = op[e] /\ apc = "idle"
                        /\ \A x \in Elems : Kept(x)
  <1>1. /\ hand \in Seq(Elems) /\ hand # << >> /\ IsInjective(hand)
        /\ ToSet(hand) \subseteq ToSet(resched) /\ hand' = Tail(hand)
        /\ resched \in Seq(Elems) /\ IsInjective(resched)
    BY DEF TypeInv, TypeOK, Safe, ListSound, Advance
  <1>2. e \in ToSet(hand) /\ IsInjective(Tail(hand)) /\ e \notin ToSet(Tail(hand))
        /\ ToSet(Tail(hand)) \subseteq ToSet(hand)
    BY <1>1, TailElements
  <1>3. Listed(e) /\ life[e] \in {"live", "closed"}
    BY <1>1, <1>2 DEF Listed, Safe, ListSound
  <1>4. ~overlap => seen = op[e] /\ apc = "idle" /\ \A x \in Elems : Kept(x)
    BY DEF Safe, AllKept, CallSound
  <1> QED BY <1>1, <1>2, <1>3, <1>4, RemoveFirstProperties

LEMMA SafeApplyArm ==
  ASSUME TypeInv, Safe, UNCHANGED overlap, ApplyArm, broken' = "no"
  PROVE  Safe'
  <1>1. PICK e \in Elems : e = Head(hand)
    BY TypeAdvance DEF ApplyArm
  <1>2. PICK i \in Nat : i = newIv[e]
    BY DEF TypeInv, TypeOK
  <1>3. /\ wpc = "apply" /\ Advance /\ seen \in {"CREATE", "RESCHED"}
        /\ Arm(e, i) /\ iv' = [iv EXCEPT ![e] = i]
        /\ resched' = RemoveFirst(resched, e) /\ op' = [op EXCEPT ![e] = "SCHEDULED"]
        /\ UNCHANGED <<tic, cycle, life, rec, newIv, apc, call, jobs>>
        /\ i # 0
    BY <1>1, <1>2 DEF ApplyArm, Advance, clock
  <1>4. WheelTypes /\ AbsNow \in Nat /\ AbsNow' = AbsNow /\ wpc' \in {"idle", "list"}
    BY <1>3, TypesOfWheel DEF AbsNow, Advance
  <1>5. /\ SlotsOrdered' /\ AbsDue(e)' = AbsNow + i
        /\ \A x \in Elems \ {e} : AbsDue(x)' = AbsDue(x)
        /\ \A x : InSlot(x)' <=> InSlot(x) \/ x = e
    BY <1>3, <1>4, ArmStep DEF Safe
  <1>6. /\ Listed(e) /\ life[e] \in {"live", "closed"}
        /\ IsInjective(hand') /\ ToSet(hand') \subseteq ToSet(resched) \ {e}
        /\ IsInjective(resched') /\ ToSet(resched') = ToSet(resched) \ {e}
        /\ ~overlap => seen = op[e] /\ apc = "idle" /\ \A x \in Elems : Kept(x)
    BY <1>1, <1>3, Unlisted
  <1>7. \A x : Listed(x)' <=> Listed(x) /\ x # e
    BY <1>6 DEF Listed
  <1>8. /\ iv'[e] = i /\ \A x \in Elems \ {e} : iv'[x] = iv[x]
        /\ op'[e] = "SCHEDULED" /\ \A x \in Elems \ {e} : op'[x] = op[x]
    BY <1>3 DEF TypeInv, TypeOK
  <1>9. DueSound'
    <2> SUFFICES ASSUME NEW x \in Elems, InSlot(x) \/ x = e
                 PROVE  /\ iv'[x] >= 1 /\ AbsDue(x)' <= AbsNow' + iv'[x]
                        /\ AbsNow' < AbsDue(x)'
      BY <1>5 DEF DueSound
    <2>1. CASE x = e
      BY <1>3, <1>4, <1>5, <1>8, <2>1
    <2>2. CASE x # e
      BY <1>3, <1>4, <1>5, <1>8, <2>2 DEF Safe, DueSound
    <2> QED BY <2>1, <2>2
  <1>10. ListSound'
    <2>1. \A x \in Elems : InSlot(x)' \/ Listed(x)' => life'[x] \in {"live", "closed"}
      BY <1>3, <1>5, <1>6, <1>7 DEF Safe, ListSound
    <2>2. apc' # "idle" => life'[call'.elem] # "new"
      BY <1>3 DEF Safe, ListSound
    <2> QED BY <1>6, <2>1, <2>2 DEF ListSound
  <1>11. ASSUME ~overlap
         PROVE  CallSound' /\ AllKept'
    <2>1. Kept(e)'
      BY <1>3, <1>5, <1>6, <1>7, <1>8, <1>11 DEF Kept
    <2>2. ASSUME NEW x \in Elems, x # e
          PROVE  Kept(x)'
      BY <1>3, <1>5, <1>6, <1>7, <1>8, <1>11, <2>2 DEF Kept
    <2> QED BY <1>3, <1>4, <1>6, <1>11, <2>1, <2>2 DEF CallSound, AllKept
  <1> QED BY <1>5, <1>9, <1>10, <1>11 DEF Safe

LEMMA SafeApplyDelete ==
  ASSUME TypeInv, Safe, UNCHANGED overlap, ApplyDelete
  PROVE  Safe'
  <1>1. PICK e \in Elems : e = Head(hand)
    BY TypeAdvance DEF ApplyDelete
  <1>2. /\ wpc = "apply" /\ Advance /\ seen = "DELETE"
        /\ slots' = Unslot(e) /\ resched' = RemoveFirst(resched, e)
        /\ life' = [life EXCEPT ![e] = "freed"]
        /\ UNCHANGED <<tic, cycle, rec, op, iv, newIv, cyc, slotNo, apc, call, jobs>>
    BY <1>1 DEF ApplyDelete, Advance, clock
  <1>3. WheelTypes /\ AbsNow' = AbsNow /\ wpc' \in {"idle", "list"}
        /\ \A x : AbsDue(x)' = AbsDue(x)
    BY <1>2, TypesOfWheel DEF AbsNow, AbsDue, Advance
  <1>4. SlotsOrdered' /\ \A x : InSlot(x)' <=> InSlot(x) /\ x # e
    BY <1>2, <1>3, UnslotStep DEF Safe
  <1>5. /\ IsInjective(hand') /\ ToSet(hand') \subseteq ToSet(resched) \ {e}
        /\ IsInjective(resched') /\ ToSet(resched') = ToSet(resched) \ {e}
        /\ ~overlap => seen = op[e] /\ apc = "idle" /\ \A x \in Elems : Kept(x)
    BY <1>1, <1>2, Unlisted
  <1>6. \A x : Listed(x)' <=> Listed(x) /\ x # e
    BY <1>5 DEF Listed
  <1>7. life'[e] = "freed" /\ \A x \in Elems \ {e} : life'[x] = life[x]
    BY <1>2 DEF TypeInv, TypeOK
  <1>8. DueSound'
    BY <1>2, <1>3, <1>4 DEF Safe, DueSound
  <1>9. ListSound'
    <2>1. \A x \in Elems : InSlot(x)' \/ Listed(x)' => life'[x] \in {"live", "closed"}
      BY <1>4, <1>6, <1>7 DEF Safe, ListSound
    <2>2. apc' # "idle" => life'[call'.elem] # "new"
      BY <1>2, <1>7 DEF Safe, ListSound, TypeInv
    <2> QED BY <1>5, <2>1, <2>2 DEF ListSound
  <1>10. ASSUME ~overlap
         PROVE  CallSound' /\ AllKept'
    <2>1. Kept(e)'
      BY <1>6, <1>7 DEF Kept
    <2>2. ASSUME NEW x \in Elems, x # e
          PROVE  Kept(x)'
      BY <1>2, <1>4, <1>5, <1>6, <1>7, <1>10, <2>2 DEF Kept
    <2> QED BY <1>2, <1>3, <1>5, <1>10, <2>1, <2>2 DEF CallSound, AllKept
  <1> QED BY <1>4, <1>8, <1>9, <1>10 DEF Safe

\* With calls and ticks that do not overlap no listed opcode is "SCHEDULED".
LEMMA SafeApplyScheduled ==
  ASSUME TypeInv, Safe, UNCHANGED overlap, ApplyScheduled
  PROVE  Safe'
  <1>1. PICK e \in Elems : e = Head(hand)
    BY TypeAdvance DEF ApplyScheduled
  <1>2. /\ wpc = "apply" /\ Advance /\ seen = "SCHEDULED" /\ slots' = Unslot(e)
        /\ UNCHANGED <<tic, cycle, resched, life, rec, op, iv, newIv, cyc, slotNo, apc, call, jobs>>
    BY <1>1 DEF ApplyScheduled, Advance, clock
  <1>3. WheelTypes /\ AbsNow' = AbsNow /\ wpc' \in {"idle", "list"}
        /\ \A x : AbsDue(x)' = AbsDue(x)
    BY <1>2, TypesOfWheel DEF AbsNow, AbsDue, Advance
  <1>4. SlotsOrdered' /\ \A x : InSlot(x)' <=> InSlot(x) /\ x # e
    BY <1>2, <1>3, UnslotStep DEF Safe
  <1>5. /\ Listed(e)
        /\ IsInjective(hand') /\ ToSet(hand') \subseteq ToSet(resched) \ {e}
        /\ ~overlap => seen = op[e] /\ Kept(e)
    BY <1>1, <1>2, Unlisted
  <1>6. DueSound'
    BY <1>2, <1>3, <1>4 DEF Safe, DueSound
  <1>7. ListSound'
    BY <1>2, <1>4, <1>5 DEF Safe, ListSound, Listed
  <1>8. overlap
    BY <1>2, <1>5 DEF Kept
  <1> QED BY <1>4, <1>6, <1>7, <1>8 DEF Safe

LEMMA IStep == IInv /\ [Next]_vars => IInv'
  <1> SUFFICES ASSUME IInv, [Next]_vars PROVE IInv'
    OBVIOUS
  <1>1. TypeInv /\ TypeInv'
    BY TypeStep DEF IInv
  <1>2. CASE Next
    <2> SUFFICES ASSUME broken' = "no" PROVE Safe'
      BY <1>1 DEF IInv
    <2>1. Safe /\ UNCHANGED overlap /\ (Application \/ WheelThread)
      BY <1>2 DEF Next, IInv
    <2> QED BY <1>1, <2>1, SafeApplication, SafeTick, SafeFire, SafeLockList, SafeReadOp,
               SafeApplyArm, SafeApplyDelete, SafeApplyScheduled DEF WheelThread
  <1>3. CASE UNCHANGED vars
    <2>1. Safe => Safe'
      BY <1>3 DEF vars, Safe, SlotsOrdered, DueSound, ListSound, CallSound, AllKept, Kept,
                  InSlot, Listed, AbsDue, AbsNow
    <2> QED BY <1>1, <1>3, <2>1 DEF IInv, vars
  <1> QED BY <1>2, <1>3

LEMMA Inductive == Spec => []IInv
  <1>1. Init => IInv
    BY TypeInit, SafeInit DEF IInv
  <1> QED BY <1>1, IStep, PTL DEF Spec

LEMMA IInvGives == IInv => WheelSound
  <1> SUFFICES ASSUME IInv PROVE WheelSound
    OBVIOUS
  <1>1. /\ WheelTypes /\ AbsNow \in Nat
        /\ \A e \in Elems : AbsDue(e) \in Nat /\ iv[e] \in Nat
    BY TypesOfWheel, AbsTypes DEF IInv, TypeInv, TypeOK
  <1>2. \A s \in Slots : slots[s] \in Seq(Elems)
    BY <1>1 DEF WheelTypes
  <1>3. ASSUME NEW s \in Slots, NEW i \in DOMAIN slots[s]
        PROVE  /\ slots[s][i] \in Elems /\ slots[s][i] \in ToSet(slots[s])
               /\ InSlot(slots[s][i]) /\ i \in Nat /\ DOMAIN slots[s] = 1..Len(slots[s])
    BY <1>2, <1>3, Elements DEF InSlot
  <1>4. NothingOverdue
    <2> SUFFICES ASSUME broken = "no", NEW s \in Slots, NEW i \in DOMAIN slots[s]
                 PROVE  /\ slotNo[slots[s][i]] = s
                        /\ AbsDue(slots[s][i]) > AbsNow \/ Pending(slots[s][i])
                        /\ \A j \in 1..(i - 1) : cyc[slots[s][j]] <= cyc[slots[s][i]]
      BY DEF NothingOverdue
    <2>1. SlotsOrdered /\ DueSound
      BY DEF IInv, Safe
    <2>2. slotNo[slots[s][i]] = s
      BY <1>3, <2>1 DEF SlotsOrdered
    <2>3. AbsDue(slots[s][i]) > AbsNow \/ Pending(slots[s][i])
      BY <1>1, <1>3, <2>1 DEF DueSound, Pending
    <2>4. ASSUME NEW j \in 1..(i - 1)
          PROVE  cyc[slots[s][j]] <= cyc[slots[s][i]]
      <3>1. j \in DOMAIN slots[s] /\ j < i
        BY <1>2, <1>3, Elements
      <3>2. Before(slots[s], slots[s][j], slots[s][i])
        BY <3>1 DEF Before
      <3> QED BY <1>3, <2>1, <3>1, <3>2 DEF SlotsOrdered
    <2> QED BY <2>2, <2>3, <2>4
  <1>5. LinksSound
    <2> SUFFICES ASSUME broken = "no" PROVE LinksSound
      BY DEF LinksSound
    <2>1. SlotsOrdered /\ ListSound
      BY DEF IInv, Safe
    <2>2. ASSUME NEW s \in Slots, NEW t \in Slots, NEW i \in DOMAIN slots[s],
                 NEW j \in DOMAIN slots[t], slots[s][i] = slots[t][j]
          PROVE  s = t /\ i = j
      <3>1. slotNo[slots[s][i]] = s /\ slotNo[slots[t][j]] = t
        BY <1>3, <2>1 DEF SlotsOrdered
      <3> QED BY <2>1, <2>2, <3>1 DEF SlotsOrdered, IsInjective
    <2> QED BY <2>1, <2>2 DEF LinksSound, ListSound, IsInjective
  <1>6. NoLostTimer
    <2> SUFFICES ASSUME ~overlap, NEW e \in Elems, call.elem # e, broken = "no"
                 PROVE  Kept(e)
      BY DEF NoLostTimer, Kept
    <2> QED BY DEF IInv, Safe, AllKept
  <1>7. RemainingSound
    <2> SUFFICES ASSUME broken = "no", NEW e \in Elems, InSlot(e), op[e] = "SCHEDULED"
                 PROVE  Remaining(e) \in 1..iv[e] \/ (Pending(e) /\ Remaining(e) = 0)
      BY DEF RemainingSound
    <2>1. /\ iv[e] >= 1 /\ AbsDue(e) <= AbsNow + iv[e]
          /\ AbsNow < AbsDue(e) \/ (AbsNow = AbsDue(e) /\ wpc = "walk")
      BY DEF IInv, Safe, DueSound
    <2>2. Remaining(e) = AbsDue(e) - AbsNow
      BY DEF Remaining
    <2> QED BY <1>1, <2>1, <2>2 DEF Pending
  <1> QED BY <1>4, <1>5, <1>6, <1>7 DEF WheelSound

\* Nothing is missed, linked twice or lost, and the remaining times are right.
THEOREM WheelStaysSound == Spec => []WheelSound
  BY Inductive, IInvGives, PTL

------------------------------------------------------------------------------
(* The wheel implements countdown timers *)

\* What the service sees of an element, whether or not calls and ticks overlap.
SameView(x) ==
  /\ life'[x] = life[x] /\ iv'[x] = iv[x]
  /\ Left(x)' = Left(x) /\ Fired(x)' = Fired(x)
  /\ Ask(x)' = Ask(x) /\ AskIv(x)' = AskIv(x)

LEMMA ServiceStutters ==
  ASSUME UNCHANGED <<overlap, rec>>, overlap \/ \A x \in Elems : SameView(x)
  PROVE  UNCHANGED Service!vars
  BY DEF Service!vars, Mapped, SameView

\* The number of jobs seen, and the time left, of an element.
LEMMA FiredIs ==
  ASSUME TypeInv, NEW e \in Elems
  PROVE  /\ Occurrences(jobs, e) \in Nat
         /\ Fired(e) = Occurrences(jobs, e) + IF Pending(e) THEN 1 ELSE 0
  <1>1. Occurrences(jobs, e) \in Nat
    BY OccurrencesType DEF TypeInv, TypeOK
  <1>2. Fired(e) = Occurrences(jobs, e) + IF Pending(e) THEN 1 ELSE 0
    BY DEF Fired, Occurrences
  <1> QED BY <1>1, <1>2

\* A step that leaves alone what is linked where, and changes jobs or what the
\* call of the application has written.
LEMMA ViewFrame ==
  ASSUME UNCHANGED <<tic, cycle, slots, cyc, slotNo, iv, rec>>, NEW x, wpc' = wpc
  PROVE  /\ Pending(x)' <=> Pending(x)
         /\ Left(x)' = Left(x)
  <1>1. /\ AbsNow' = AbsNow /\ AbsDue(x)' = AbsDue(x)
        /\ InSlot(x)' <=> InSlot(x)
    BY WheelFrame
  <1>2. Pending(x)' <=> Pending(x)
    BY <1>1 DEF Pending
  <1> QED BY <1>1, <1>2 DEF Left

LEMMA ServiceBegin ==
  ASSUME IInv, UNCHANGED overlap, ~overlap, NEW e \in Elems,
         Register(e) \/ Reschedule(e) \/ Deregister(e)
  PROVE  Service!Open(e) \/ Service!Close(e) \/ UNCHANGED Service!vars
  <1>1. /\ UNCHANGED <<tic, cycle, slots, resched, rec, op, iv, newIv, cyc, slotNo, wpc, jobs>>
    BY DEF Register, Reschedule, Deregister, Begin, clock, wheel
  <1>2. \A x \in Elems : /\ Left(x)' = Left(x) /\ Fired(x)' = Fired(x)
                         /\ Ask(x)' = Ask(x) /\ AskIv(x)' = AskIv(x)
    <2> TAKE x \in Elems
    <2>1. Left(x)' = Left(x) /\ (Pending(x)' <=> Pending(x))
      BY <1>1, ViewFrame
    <2>2. Ask(x)' = Ask(x) /\ AskIv(x)' = AskIv(x)
      BY <1>1 DEF Ask, AskIv, Listed
    <2> QED BY <1>1, <2>1, <2>2 DEF Fired
  <1>3. life \in [Elems -> {"new", "live", "closed", "freed"}]
    BY DEF IInv, TypeInv, TypeOK
  <1>4. CASE Register(e)
    <2>1. life[e] = "new" /\ life' = [life EXCEPT ![e] = "live"]
      BY <1>4 DEF Register
    <2>2. Service!Open(e)
      BY <1>1, <1>2, <1>3, <2>1 DEF Service!Open, Mapped
    <2> QED BY <2>2
  <1>5. CASE Reschedule(e)
    <2>1. life' = life
      BY <1>5 DEF Reschedule
    <2> QED BY <1>1, <1>2, <2>1, ServiceStutters DEF SameView
  <1>6. CASE Deregister(e)
    <2>1. life[e] = "live" /\ life' = [life EXCEPT ![e] = "closed"]
      BY <1>6 DEF Deregister
    <2>2. Service!Close(e)
      BY <1>1, <1>2, <1>3, <2>1 DEF Service!Close, Mapped
    <2> QED BY <2>2
  <1> QED BY <1>4, <1>5, <1>6

\* A request is seen when it is listed, and when it is written while listed.
LEMMA ServiceAsk ==
  ASSUME IInv, broken = "no", UNCHANGED overlap, ~overlap, WriteOp \/ WriteInterval \/ Link
  PROVE  \/ \E e \in Elems : Service!AskDelete(e) \/ \E i \in Intervals : Service!AskArm(e, i)
         \/ UNCHANGED Service!vars
  <1>0. PICK e \in Elems : e = call.elem
    BY DEF IInv, TypeInv, WriteOp, WriteInterval, Link
  <1>1. /\ UNCHANGED <<tic, cycle, slots, life, rec, iv, cyc, slotNo, wpc, jobs>>
    BY DEF WriteOp, WriteInterval, Link, clock, wheel, element
  <1>2. \A x \in Elems : Left(x)' = Left(x) /\ Fired(x)' = Fired(x)
    BY <1>1, ViewFrame DEF Fired
  <1>3. /\ life \in [Elems -> {"new", "live", "closed", "freed"}]
        /\ op \in [Elems -> Requests \cup {"SCHEDULED"}] /\ newIv \in [Elems -> Nat]
        /\ apc # "idle" /\ call.op \in Requests
    BY DEF IInv, TypeInv, TypeOK, Requests, WriteOp, WriteInterval, Link
  <1>4. /\ life[e] = IF call.op = "DELETE" THEN "closed" ELSE "live"
        /\ call.iv \in IF call.op = "DELETE" THEN {0} ELSE Intervals
        /\ apc = "writeOp" /\ Listed(e) => op[e] \in {"CREATE", "RESCHED"}
        /\ apc \in {"writeIv", "link"} => op[e] = call.op
        /\ apc = "link" => newIv[e] = call.iv
    BY <1>0, <1>3 DEF IInv, Safe, CallSound
  \* Nothing of the other elements changes.
  <1>5. \A x \in Elems \ {e} : Ask(x)' = Ask(x) /\ AskIv(x)' = AskIv(x)
    <2> TAKE x \in Elems \ {e}
    <2>1. op'[x] = op[x] /\ newIv'[x] = newIv[x]
      BY <1>0, <1>3 DEF WriteOp, WriteInterval, Link, element
    <2>2. Listed(x)' <=> Listed(x)
      <3>1. CASE Link
        <4>1. resched \in Seq(Elems) /\ IsInjective(resched)
          BY DEF IInv, TypeInv, TypeOK, Safe, ListSound
        <4>2. /\ RemoveFirst(resched, e) \in Seq(Elems)
              /\ ToSet(RemoveFirst(resched, e)) = ToSet(resched) \ {e}
          BY <4>1, RemoveFirstProperties
        <4>3. ToSet(resched') = (ToSet(resched) \ {e}) \cup {e}
          BY <1>0, <3>1, <4>2, ConsElements DEF Link, ToFront
        <4> QED BY <4>3 DEF Listed
      <3>2. CASE WriteOp \/ WriteInterval
        BY <3>2 DEF WriteOp, WriteInterval, Listed
      <3> QED BY <3>1, <3>2
    <2> QED BY <2>1, <2>2 DEF Ask, AskIv
  \* An element whose view changes is seen to ask.
  <1>6. ASSUME Ask(e)' = "delete", life[e] = "closed"
        PROVE  Service!AskDelete(e)
    <2>1. AskIv(e)' = 0
      BY <1>6 DEF AskIv
    <2> QED BY <1>1, <1>2, <1>3, <1>5, <1>6, <2>1 DEF Service!AskDelete, Mapped
  <1>7. ASSUME NEW i \in Intervals, Ask(e)' = "arm", AskIv(e)' = i, life[e] = "live"
        PROVE  Service!AskArm(e, i)
    BY <1>1, <1>2, <1>3, <1>5, <1>7 DEF Service!AskArm, Mapped
  <1>8. ASSUME Ask(e)' = Ask(e), AskIv(e)' = AskIv(e)
        PROVE  UNCHANGED Service!vars
    BY <1>1, <1>2, <1>5, <1>8, ServiceStutters DEF SameView
  <1>9. CASE WriteOp
    <2>1. /\ apc = "writeOp" /\ op'[e] = call.op
          /\ UNCHANGED <<resched, newIv>>
      BY <1>0, <1>3, <1>9 DEF WriteOp
    <2>2. Listed(e)' <=> Listed(e)
      BY <2>1 DEF Listed
    <2>3. CASE ~Listed(e)
      <3>1. Ask(e)' = Ask(e) /\ AskIv(e)' = AskIv(e)
        BY <2>2, <2>3 DEF Ask, AskIv
      <3> QED BY <1>8, <3>1
    <2>4. CASE Listed(e) /\ call.op = "DELETE"
      BY <1>4, <1>6, <2>1, <2>2, <2>4 DEF Ask
    <2>5. CASE Listed(e) /\ call.op # "DELETE"
      <3>1. Ask(e)' = "arm" /\ Ask(e) = "arm"
        BY <1>4, <2>1, <2>2, <2>5 DEF Ask
      <3>2. AskIv(e)' = AskIv(e)
        BY <2>1, <3>1 DEF AskIv
      <3> QED BY <1>8, <3>1, <3>2
    <2> QED BY <2>3, <2>4, <2>5
  <1>10. CASE WriteInterval
    <2>1. /\ apc = "writeIv" /\ newIv'[e] = call.iv
          /\ UNCHANGED <<resched, op>>
      BY <1>0, <1>3, <1>10 DEF WriteInterval
    <2>2. Listed(e)' <=> Listed(e)
      BY <2>1 DEF Listed
    <2>3. Ask(e)' = Ask(e)
      BY <2>1, <2>2 DEF Ask
    <2>4. CASE Ask(e) # "arm"
      <3>1. AskIv(e)' = AskIv(e)
        BY <2>3, <2>4 DEF AskIv
      <3> QED BY <1>8, <2>3, <3>1
    <2>5. CASE Ask(e) = "arm"
      <3>1. op[e] # "DELETE" /\ call.op # "DELETE"
        BY <1>4, <2>1, <2>5 DEF Ask
      <3>2. AskIv(e)' = call.iv
        BY <2>1, <2>3, <2>5 DEF AskIv
      <3> QED BY <1>4, <1>7, <2>3, <2>5, <3>1, <3>2
    <2> QED BY <2>4, <2>5
  <1>11. CASE Link
    <2>1. apc = "link" /\ op' = op /\ newIv' = newIv
      BY <1>11 DEF Link, element
    <2>2. Listed(e)'
      <3>1. RemoveFirst(resched, e) \in Seq(Elems)
        BY RemoveFirstProperties DEF IInv, TypeInv, TypeOK
      <3> QED BY <1>0, <1>11, <3>1, ConsElements DEF Link, ToFront, Listed
    <2>3. CASE call.op = "DELETE"
      BY <1>4, <1>6, <2>1, <2>2, <2>3 DEF Ask
    <2>4. CASE call.op # "DELETE"
      <3>1. Ask(e)' = "arm"
        BY <1>4, <2>1, <2>2, <2>4 DEF Ask
      <3>2. AskIv(e)' = call.iv
        BY <1>4, <2>1, <3>1 DEF AskIv
      <3> QED BY <1>4, <1>7, <2>4, <3>1, <3>2
    <2> QED BY <2>3, <2>4
  <1> QED BY <1>9, <1>10, <1>11

LEMMA ServiceRun ==
  ASSUME IInv, UNCHANGED overlap, ~overlap, RunJob
  PROVE  \E e \in Elems : Service!Run(e)
  <1>1. /\ UNCHANGED <<tic, cycle, slots, resched, life, rec, op, iv, newIv, cyc, slotNo, wpc>>
        /\ jobs \in Seq(Elems) /\ jobs # << >> /\ jobs' = Tail(jobs)
    BY DEF RunJob, clock, element, wheel, IInv, TypeInv, TypeOK
  <1>2. PICK e \in Elems : e = Head(jobs)
    BY <1>1, TailElements
  <1>3. jobs' \in Seq(Elems)
    BY <1>1, TailElements
  <1>4. \A x \in Elems : Left(x)' = Left(x) /\ Ask(x)' = Ask(x) /\ AskIv(x)' = AskIv(x)
    BY <1>1, ViewFrame DEF Ask, AskIv, Listed
  <1>5. ASSUME NEW x \in Elems
        PROVE  /\ Fired(x) \in Nat /\ Fired(x)' \in Nat
               /\ Fired(x) = Fired(x)' + IF x = e THEN 1 ELSE 0
    <2>1. Pending(x)' <=> Pending(x)
      BY <1>1, ViewFrame
    <2>2. Occurrences(jobs, x) = Occurrences(jobs', x) + IF x = e THEN 1 ELSE 0
      BY <1>1, <1>2, OccurrencesTail
    <2>3. Occurrences(jobs, x) \in Nat /\ Occurrences(jobs', x) \in Nat
      BY <1>1, <1>3, OccurrencesType
    <2>4. /\ Fired(x) = Occurrences(jobs, x) + IF Pending(x) THEN 1 ELSE 0
          /\ Fired(x)' = Occurrences(jobs', x) + IF Pending(x)' THEN 1 ELSE 0
      BY DEF Fired, Occurrences
    <2>5. CASE Pending(x)
      BY <2>1, <2>2, <2>3, <2>4, <2>5
    <2>6. CASE ~Pending(x)
      BY <2>1, <2>2, <2>3, <2>4, <2>6
    <2> QED BY <2>5, <2>6
  <1>6. Fired(e) > 0 /\ Fired(e)' = Fired(e) - 1 /\ \A x \in Elems \ {e} : Fired(x)' = Fired(x)
    BY <1>5
  <1> QED BY <1>1, <1>4, <1>6 DEF Service!Run, Mapped

\* The tick counts every timer down at once; a timer that is due has fired.
LEMMA ServiceTick ==
  ASSUME IInv, broken = "no", UNCHANGED overlap, ~overlap, Tick
  PROVE  Service!Tick
  <1>1. /\ UNCHANGED <<slots, resched, life, rec, op, iv, newIv, cyc, slotNo, jobs>>
        /\ wpc = "idle" /\ wpc' = "walk"
    BY DEF Tick, element
  <1>2. TypeInv /\ WheelTypes /\ AbsNow \in Nat /\ AbsNow' = AbsNow + 1
    BY ClockStep, TypesOfWheel DEF IInv
  <1>3. \A x \in Elems : Ask(x)' = Ask(x) /\ AskIv(x)' = AskIv(x)
    BY <1>1 DEF Ask, AskIv, Listed
  <1>4. ASSUME NEW x \in Elems
        PROVE  /\ Left(x)' = IF Left(x) > 1 THEN Left(x) - 1
                             ELSE IF Left(x) = 1 /\ rec[x] THEN iv[x] ELSE 0
               /\ Fired(x)' = IF Left(x) = 1 THEN Fired(x) + 1 ELSE Fired(x)
    <2>1. /\ AbsDue(x)' = AbsDue(x) /\ (InSlot(x)' <=> InSlot(x)) /\ ~Pending(x)
          /\ Pending(x)' <=> InSlot(x) /\ AbsDue(x) = AbsNow + 1
      BY <1>1, <1>2 DEF AbsDue, InSlot, Pending
    <2>2. /\ Fired(x) = Occurrences(jobs, x) /\ Fired(x) \in Nat
          /\ Fired(x)' = Occurrences(jobs, x) + IF Pending(x)' THEN 1 ELSE 0
      <3>1. Occurrences(jobs, x) \in Nat /\ Fired(x) = Occurrences(jobs, x) + 0
        BY <1>2, <2>1, FiredIs
      <3>2. Fired(x)' = Occurrences(jobs, x) + IF Pending(x)' THEN 1 ELSE 0
        BY <1>1 DEF Fired, Occurrences
      <3> QED BY <3>1, <3>2
    <2>3. CASE ~InSlot(x)
      <3>1. Left(x) = 0 /\ Left(x)' = 0 /\ ~Pending(x)'
        BY <2>1, <2>3 DEF Left
      <3> QED BY <2>2, <3>1
    <2>4. CASE InSlot(x)
      <3>1. Left(x) = AbsDue(x) - AbsNow /\ AbsDue(x) \in Nat /\ AbsNow < AbsDue(x)
        BY <1>1, <1>2, <2>1, <2>4, AbsTypes DEF Left, IInv, Safe, DueSound
      <3>2. CASE AbsDue(x) = AbsNow + 1
        <4>1. Pending(x)' /\ Left(x) = 1 /\ ~(Left(x) > 1)
          BY <1>2, <2>1, <2>4, <3>1, <3>2
        <4>2. Left(x)' = IF rec[x] THEN iv[x] ELSE 0
          BY <1>1, <2>1, <2>4, <4>1 DEF Left
        <4> QED BY <2>2, <4>1, <4>2
      <3>3. CASE AbsDue(x) # AbsNow + 1
        <4>1. ~Pending(x)' /\ Left(x) > 1 /\ Left(x) # 1
          BY <1>2, <2>1, <3>1, <3>3
        <4>2. Left(x)' = AbsDue(x) - (AbsNow + 1)
          BY <1>2, <2>1, <2>4, <4>1 DEF Left
        <4>3. Left(x)' = Left(x) - 1
          BY <1>2, <3>1, <4>2
        <4>4. Fired(x)' = Fired(x)
          BY <2>2, <4>1
        <4> QED BY <4>1, <4>3, <4>4
      <3> QED BY <3>2, <3>3
    <2> QED BY <2>3, <2>4
  <1> QED BY <1>1, <1>3, <1>4 DEF Service!Tick, Mapped

\* The walk puts jobs on the queue that the service has put there at the tick.
LEMMA ServiceFire ==
  ASSUME IInv, broken = "no", UNCHANGED overlap, ~overlap, Fire
  PROVE  UNCHANGED Service!vars
  <1>0. TypeInv /\ Safe /\ WheelTypes /\ AbsNow \in Nat
    BY TypesOfWheel DEF IInv
  <1>1. PICK e \in Elems : e = Head(slots[tic]) /\ InSlot(e) /\ AbsDue(e) = AbsNow
    BY <1>0, HeadDue DEF Fire
  <1>2. /\ UNCHANGED <<tic, cycle, resched, life, rec, op, iv, newIv, wpc>>
        /\ wpc = "walk" /\ Refire(e) /\ jobs' = Append(jobs, e) /\ jobs \in Seq(Elems)
        /\ iv[e] \in Nat
    BY <1>0, <1>1 DEF Fire, clock, wheel, TypeInv, TypeOK
  <1>3. AbsNow' = AbsNow
    BY <1>2 DEF AbsNow
  <1>4. \A x \in Elems : Ask(x)' = Ask(x) /\ AskIv(x)' = AskIv(x)
    BY <1>2 DEF Ask, AskIv, Listed
  <1>5. iv[e] >= 1
    BY <1>0, <1>1 DEF Safe, DueSound
  <1>6. \A x \in Elems \ {e} : (InSlot(x)' <=> InSlot(x)) /\ AbsDue(x)' = AbsDue(x)
    <2>1. CASE rec[e]
      <3>1. Arm(e, iv[e])
        BY <1>2, <2>1 DEF Refire
      <3>2. /\ \A x \in Elems \ {e} : AbsDue(x)' = AbsDue(x)
            /\ \A x : InSlot(x)' <=> InSlot(x) \/ x = e
        BY <1>0, <1>2, <3>1, ArmStep DEF Safe
      <3> QED BY <3>2
    <2>2. CASE ~rec[e]
      <3>1. slots' = Unslot(e) /\ UNCHANGED <<cyc, slotNo>>
        BY <1>2, <2>2 DEF Refire
      <3>2. \A x : InSlot(x)' <=> InSlot(x) /\ x # e
        BY <1>0, <3>1, UnslotStep DEF Safe
      <3> QED BY <3>1, <3>2 DEF AbsDue
    <2> QED BY <2>1, <2>2
  <1>7. rec[e] => InSlot(e)' /\ AbsDue(e)' = AbsNow + iv[e]
    BY <1>0, <1>2, ArmStep DEF Refire, Safe
  <1>8. ~rec[e] => ~InSlot(e)'
    BY <1>0, <1>2, UnslotStep DEF Refire, Safe
  <1>9. Pending(e) /\ ~Pending(e)'
    BY <1>0, <1>1, <1>2, <1>3, <1>5, <1>7, <1>8 DEF Pending
  <1>10. Left(e)' = Left(e)
    <2>1. CASE rec[e]
      <3>1. AbsDue(e)' - AbsNow' = iv[e]
        BY <1>0, <1>2, <1>3, <1>7, <2>1
      <3> QED BY <1>1, <1>7, <1>9, <2>1, <3>1 DEF Left
    <2>2. CASE ~rec[e]
      BY <1>1, <1>8, <1>9, <2>2 DEF Left
    <2> QED BY <2>1, <2>2
  <1>11. \A x \in Elems \ {e} : (Pending(x)' <=> Pending(x)) /\ Left(x)' = Left(x)
    BY <1>2, <1>3, <1>6 DEF Pending, Left
  <1>12. ASSUME NEW x \in Elems PROVE Fired(x)' = Fired(x)
    <2>1. /\ Occurrences(jobs, x) \in Nat
          /\ Occurrences(jobs', x) = Occurrences(jobs, x) + IF x = e THEN 1 ELSE 0
      <3>1. Occurrences(jobs, x) \in Nat
        BY <1>2, OccurrencesType
      <3>2. Occurrences(Append(jobs, e), x) = Occurrences(jobs, x) + IF x = e THEN 1 ELSE 0
        BY <1>2, OccurrencesAppend
      <3> QED BY <1>2, <3>1, <3>2
    <2>2. /\ Fired(x) = Occurrences(jobs, x) + IF Pending(x) THEN 1 ELSE 0
          /\ Fired(x)' = Occurrences(jobs', x) + IF Pending(x)' THEN 1 ELSE 0
      BY DEF Fired, Occurrences
    <2>3. CASE x = e
      BY <1>9, <2>1, <2>2, <2>3
    <2>4. CASE x # e
      BY <1>11, <2>1, <2>2, <2>4
    <2> QED BY <2>3, <2>4
  <1> QED BY <1>2, <1>4, <1>10, <1>11, <1>12, ServiceStutters DEF SameView

LEMMA ServiceLock ==
  ASSUME IInv, broken = "no", UNCHANGED overlap, ~overlap, LockList \/ ReadOp
  PROVE  UNCHANGED Service!vars
  <1>1. /\ UNCHANGED <<tic, cycle, slots, resched, life, rec, op, iv, newIv, cyc, slotNo, jobs>>
        /\ wpc' # "walk" /\ (wpc = "walk" => ~DueNow)
    BY DEF LockList, ReadOp, clock, element
  <1>2. ASSUME NEW x \in Elems PROVE SameView(x)
    <2>1. /\ AbsNow' = AbsNow /\ AbsDue(x)' = AbsDue(x)
          /\ InSlot(x)' <=> InSlot(x)
      BY <1>1, WheelFrame
    <2>2. ~Pending(x) /\ ~Pending(x)'
      BY <1>1, NoneDue DEF Pending, IInv
    <2>3. Left(x)' = Left(x)
      BY <2>1, <2>2 DEF Left
    <2>4. Fired(x)' = Fired(x)
      BY <1>1, <2>2 DEF Fired
    <2>5. Ask(x)' = Ask(x) /\ AskIv(x)' = AskIv(x)
      BY <1>1 DEF Ask, AskIv, Listed
    <2> QED BY <1>1, <2>3, <2>4, <2>5 DEF SameView
  <1> QED BY <1>1, <1>2, ServiceStutters

\* A request takes effect when the wheel thread applies it.
LEMMA ServiceApply ==
  ASSUME IInv, broken = "no", UNCHANGED overlap, ~overlap,
         ApplyArm \/ ApplyDelete \/ ApplyScheduled
  PROVE  \E e \in Elems : Service!Arm(e) \/ Service!Delete(e)
  <1>0. TypeInv /\ Safe /\ WheelTypes /\ AbsNow \in Nat
    BY TypesOfWheel DEF IInv
  <1>1. wpc = "apply" /\ Advance
    BY DEF ApplyArm, ApplyDelete, ApplyScheduled
  <1>2. PICK e \in Elems : e = Head(hand)
    BY <1>0, <1>1, TypeAdvance
  <1>3. /\ UNCHANGED <<tic, cycle, rec, newIv, jobs>> /\ wpc' # "walk"
        /\ AbsNow' = AbsNow
    BY <1>0, <1>1, TypeAdvance DEF Advance, clock, AbsNow
  <1>4. /\ Listed(e) /\ seen = op[e] /\ Kept(e)
        /\ LET r == RemoveFirst(resched, e) IN ToSet(r) = ToSet(resched) \ {e}
    BY <1>0, <1>1, <1>2, Unlisted
  <1>5. \A x \in Elems : ~Pending(x) /\ ~Pending(x)'
    BY <1>1, <1>3 DEF Pending
  <1>6. \A x \in Elems : Fired(x)' = Fired(x)
    BY <1>3, <1>5 DEF Fired
  <1>7. /\ life \in [Elems -> {"new", "live", "closed", "freed"}]
        /\ op \in [Elems -> Requests \cup {"SCHEDULED"}]
        /\ iv \in [Elems -> Nat] /\ newIv \in [Elems -> Nat]
    BY <1>0 DEF TypeInv, TypeOK, Requests
  <1>8. CASE ApplyArm
    <2>1. PICK i \in Nat : i = newIv[e]
      BY <1>7
    <2>2. /\ seen \in {"CREATE", "RESCHED"} /\ Arm(e, i) /\ iv' = [iv EXCEPT ![e] = i]
          /\ resched' = RemoveFirst(resched, e) /\ op' = [op EXCEPT ![e] = "SCHEDULED"]
          /\ life' = life
      BY <1>2, <1>8, <2>1 DEF ApplyArm
    <2>3. /\ AbsDue(e)' = AbsNow + i
          /\ \A x \in Elems \ {e} : AbsDue(x)' = AbsDue(x)
          /\ \A x : InSlot(x)' <=> InSlot(x) \/ x = e
      BY <1>0, <2>2, ArmStep DEF Safe
    <2>4. \A x : Listed(x)' <=> Listed(x) /\ x # e
      BY <1>4, <2>2 DEF Listed
    <2>5. Ask(e) = "arm" /\ AskIv(e) = i /\ Ask(e)' = "none" /\ AskIv(e)' = 0
      BY <1>4, <2>1, <2>2, <2>4 DEF Ask, AskIv
    <2>6. \A x \in Elems \ {e} : op'[x] = op[x]
      BY <1>7, <2>2
    <2>7. \A x \in Elems \ {e} : Ask(x)' = Ask(x) /\ AskIv(x)' = AskIv(x)
      BY <1>3, <2>4, <2>6 DEF Ask, AskIv
    <2>8. Left(e)' = i
      <3>1. Left(e)' = (AbsNow + i) - AbsNow
        BY <1>3, <1>5, <2>3 DEF Left
      <3> QED BY <1>0, <3>1
    <2>9. \A x \in Elems \ {e} : Left(x)' = Left(x)
      BY <1>3, <1>5, <2>3 DEF Left
    <2>10. Service!Arm(e)
      BY <1>3, <1>6, <1>7, <2>2, <2>5, <2>7, <2>8, <2>9 DEF Service!Arm, Mapped
    <2> QED BY <2>10
  <1>9. CASE ApplyDelete
    <2>1. /\ seen = "DELETE" /\ slots' = Unslot(e) /\ resched' = RemoveFirst(resched, e)
          /\ life' = [life EXCEPT ![e] = "freed"]
          /\ UNCHANGED <<op, iv, cyc, slotNo>>
      BY <1>2, <1>9 DEF ApplyDelete
    <2>2. \A x : AbsDue(x)' = AbsDue(x) /\ (InSlot(x)' <=> InSlot(x) /\ x # e)
      BY <1>0, <2>1, UnslotStep DEF Safe, AbsDue
    <2>3. \A x : Listed(x)' <=> Listed(x) /\ x # e
      BY <1>4, <2>1 DEF Listed
    <2>4. Ask(e) = "delete" /\ Ask(e)' = "none" /\ AskIv(e)' = 0
      BY <1>4, <2>1, <2>3 DEF Ask, AskIv
    <2>5. \A x \in Elems \ {e} : Ask(x)' = Ask(x) /\ AskIv(x)' = AskIv(x)
      BY <1>3, <2>1, <2>3 DEF Ask, AskIv
    <2>6. Left(e)' = 0 /\ \A x \in Elems \ {e} : Left(x)' = Left(x)
      BY <1>3, <1>5, <2>2 DEF Left
    <2>7. Service!Delete(e)
      BY <1>3, <1>6, <1>7, <2>1, <2>4, <2>5, <2>6 DEF Service!Delete, Mapped
    <2> QED BY <2>7
  <1>10. CASE ApplyScheduled
    BY <1>4, <1>10 DEF ApplyScheduled, Kept
  <1> QED BY <1>8, <1>9, <1>10

LEMMA ServiceInit == Init => Service!Init
  <1> SUFFICES ASSUME Init PROVE Service!Init
    OBVIOUS
  <1>1. jobs \in Seq(Elems) /\ ToSet(jobs) = {} /\ ToSet(resched) = {} /\ DOMAIN jobs = {}
    <2>1. << >> \in Seq(Elems)
      BY EmptySeq
    <2> QED BY <2>1, Elements, EmptySeq DEF Init, ToSet
  <1>2. \A x \in Elems : ~InSlot(x) /\ ~Listed(x)
    <2>1. \A s \in Slots : ToSet(slots[s]) = {}
      BY <1>1 DEF Init
    <2> QED BY <1>1, <2>1 DEF InSlot, Listed
  <1>3. \A x \in Elems : Left(x) = 0 /\ Ask(x) = "none" /\ AskIv(x) = 0
    BY <1>2 DEF Left, Ask, AskIv
  <1>4. \A x \in Elems : Fired(x) = 0
    <2> TAKE x \in Elems
    <2>1. {i \in DOMAIN jobs : jobs[i] = x} = {} /\ ~Pending(x)
      BY <1>1, <1>2 DEF Pending
    <2>2. Fired(x) = Cardinality({}) + 0
      BY <2>1 DEF Fired
    <2> QED BY <2>2, FS_EmptySet
  <1> QED BY <1>3, <1>4 DEF Init, Service!Init, Mapped

\* Each step of the wheel is a step of the countdown timers, or none.
LEMMA ServiceStep == IInv /\ [Next]_vars => [Service!Next]_Service!vars
  <1> SUFFICES ASSUME IInv, [Next]_vars PROVE [Service!Next]_Service!vars
    OBVIOUS
  <1>1. CASE UNCHANGED vars
    <2>1. \A x \in Elems : SameView(x)
      BY <1>1 DEF vars, SameView, Left, Fired, Ask, AskIv, Pending, InSlot, Listed, AbsDue, AbsNow
    <2> QED BY <1>1, <2>1, ServiceStutters DEF vars
  <1>2. CASE Next
    <2>1. broken = "no" /\ UNCHANGED overlap /\ (Application \/ WheelThread)
      BY <1>2 DEF Next
    <2>2. CASE overlap
      <3>1. UNCHANGED rec
        BY <2>1 DEF Application, WheelThread, Register, Reschedule, Deregister, Begin, WriteOp,
             WriteInterval, Link, RunJob, Tick, Fire, LockList, ReadOp, ApplyArm, ApplyDelete,
             ApplyScheduled, Advance, element
      <3> QED BY <2>1, <2>2, <3>1, ServiceStutters
    <2>3. CASE ~overlap
      <3>1. ASSUME Application PROVE [Service!Next]_Service!vars
        BY <2>1, <2>3, <3>1, ServiceBegin, ServiceAsk, ServiceRun DEF Application, Service!Next
      <3>2. ASSUME WheelThread PROVE [Service!Next]_Service!vars
        BY <2>1, <2>3, <3>2, ServiceTick, ServiceFire, ServiceLock, ServiceApply
           DEF WheelThread, Service!Next
      <3> QED BY <2>1, <3>1, <3>2
    <2> QED BY <2>2, <2>3
  <1> QED BY <1>1, <1>2

\* The wheel implements the countdown timers of TimerService: a timer fires when
\* its interval has passed, tick for tick, if calls and ticks do not overlap.
THEOREM Implements == Spec => ImplementsService
  <1>1. Init => Service!Init
    BY ServiceInit
  <1>2. IInv /\ [Next]_vars => [Service!Next]_Service!vars
    BY ServiceStep
  <1> QED BY <1>1, <1>2, Inductive, PTL DEF Spec, ImplementsService, Service!Spec
==============================================================================
