----------------------------- MODULE ListLemmas -----------------------------
(***************************************************************************)
(* Facts about the sequences that stand for the simulator's linked lists:  *)
(* taking an element out, inserting one at a place, at either end, and     *)
(* taking the first one.  Each says what the result holds, in which order, *)
(* and that no element is linked twice if none was before.                 *)
(***************************************************************************)
EXTENDS Integers, SequencesExt, SequenceTheorems, FiniteSetTheorems,
        WellFoundedInduction, TLAPS

\* x stands before y in the list s.
Before(s, x, y) == \E i, j \in DOMAIN s : i < j /\ s[i] = x /\ s[j] = y

\* A list over S is a function on 1..Len, and its set of elements a subset of S.
LEMMA Elements ==
  ASSUME NEW S, NEW s \in Seq(S)
  PROVE  /\ Len(s) \in Nat /\ DOMAIN s = 1..Len(s)
         /\ \A i \in 1..Len(s) : s[i] \in S /\ s[i] \in ToSet(s)
         /\ \A x : x \in ToSet(s) <=> \E i \in 1..Len(s) : s[i] = x
         /\ ToSet(s) \subseteq S
         /\ s = << >> <=> Len(s) = 0
         /\ s = << >> <=> ToSet(s) = {}
  BY LenProperties, ElementOfSeq, EmptySeq DEF ToSet

\* A set of naturals that is not empty has a least element.
LEMMA Least ==
  ASSUME NEW T \in SUBSET Nat, T # {}
  PROVE  \E x \in T : \A y \in T : ~(y < x)
  <1>1. IsWellFoundedOn(OpToRel(<, Nat), Nat)
    BY NatLessThanWellFounded
  <1>2. \E x \in T : \A y \in T : ~ (<<y, x>> \in OpToRel(<, Nat))
    BY <1>1, WFMin
  <1> QED BY <1>2 DEF OpToRel

\* What holds at 0 and with each k - 1 also at k holds up to n.
LEMMA UpTo ==
  ASSUME NEW n \in Nat, NEW T, 0 \in T, \A k \in 1..n : k - 1 \in T => k \in T
  PROVE  \A k \in 0..n : k \in T
  <1> DEFINE U == {k \in 0..n : k \notin T}
  <1> SUFFICES ASSUME U # {} PROVE FALSE
    OBVIOUS
  <1>1. PICK m \in U : \A y \in U : ~(y < m)
    <2>1. U \in SUBSET Nat
      OBVIOUS
    <2> HIDE DEF U
    <2> QED BY <2>1, Least
  <1>2. m # 0 /\ m \in 0..n /\ m \notin T
    BY <1>1
  <1>3. m \in 1..n /\ m - 1 \in 0..n /\ m - 1 < m
    BY <1>2
  <1>4. m - 1 \in T
    BY <1>1, <1>3
  <1> QED BY <1>2, <1>3, <1>4

\* f begins with d, and h makes each of its values from the one before.
IsSteps(f, D, d, n, h) ==
  /\ f \in [0..n -> D]
  /\ \A k \in 0..n : f[k] = IF k = 0 THEN d ELSE h[<<k, f[k - 1]>>]

\* A function on 0..n may be defined by its first value and the step from each
\* value to the next.
LEMMA StepsExist ==
  ASSUME NEW D, NEW d \in D, NEW n \in Nat, NEW h \in [(1..n) \X D -> D]
  PROVE  \E f : IsSteps(f, D, d, n, h)
  <1> DEFINE P(m) == \E f \in [0..m -> D] :
                       \A k \in 0..m : f[k] = IF k = 0 THEN d ELSE h[<<k, f[k - 1]>>]
             T == {m \in 0..n : P(m)}
  <1>1. P(0)
    <2>1. [k \in 0..0 |-> d] \in [0..0 -> D] /\ \A k \in 0..0 : k = 0
      OBVIOUS
    <2> QED BY <2>1
  <1>2. ASSUME NEW m \in 1..n, P(m - 1) PROVE P(m)
    <2>1. PICK f \in [0..(m - 1) -> D] :
            \A k \in 0..(m - 1) : f[k] = IF k = 0 THEN d ELSE h[<<k, f[k - 1]>>]
      BY <1>2
    <2> DEFINE v == h[<<m, f[m - 1]>>]
               g == [k \in 0..m |-> IF k = m THEN v ELSE f[k]]
    <2>2. v \in D
      <3>1. f[m - 1] \in D /\ m \in 1..n
        BY <2>1
      <3> QED BY <3>1
    <2>3. \A k \in 0..m : k # m => k \in 0..(m - 1)
      OBVIOUS
    <2>4. g \in [0..m -> D]
      BY <2>1, <2>2, <2>3
    <2>5. ASSUME NEW k \in 0..m PROVE g[k] = IF k = 0 THEN d ELSE h[<<k, g[k - 1]>>]
      <3>1. CASE k = m
        <4>1. g[k] = v /\ g[k - 1] = f[m - 1] /\ k # 0
          BY <3>1
        <4> QED BY <4>1, <3>1
      <3>2. CASE k # m
        <4>1. k \in 0..(m - 1)
          BY <3>2
        <4>2. g[k] = f[k] /\ (k # 0 => g[k - 1] = f[k - 1])
          BY <4>1
        <4> QED BY <2>1, <4>1, <4>2
      <3> QED BY <3>1, <3>2
    <2> QED BY <2>4, <2>5
  <1>3. 0 \in T /\ \A k \in 1..n : k - 1 \in T => k \in T
    <2>1. 0 \in 0..n /\ \A k \in 1..n : k \in 0..n
      OBVIOUS
    <2> HIDE DEF P
    <2> QED BY <1>1, <1>2, <2>1
  <1>4. P(n)
    <2>1. n \in T
      <3> HIDE DEF T
      <3> QED BY <1>3, UpTo
    <2> QED BY <2>1
  <1> QED BY <1>4 DEF IsSteps

\* Taking element i out of a sequence keeps the others, in order.
LEMMA RemoveAtProperties ==
  ASSUME NEW S, NEW s \in Seq(S), NEW i \in 1..Len(s)
  PROVE  /\ RemoveAt(s, i) \in Seq(S)
         /\ Len(RemoveAt(s, i)) = Len(s) - 1
         /\ \A j \in 1..(Len(s) - 1) : RemoveAt(s, i)[j] = IF j < i THEN s[j] ELSE s[j + 1]
  <1> DEFINE a == SubSeq(s, 1, i - 1)
             b == SubSeq(s, i + 1, Len(s))
  <1>1. /\ a \in Seq(S) /\ Len(a) = i - 1
        /\ \A j \in 1..(i - 1) : a[j] = s[j]
    <2>1. \A j \in 1..(i - 1) : s[j] \in S
      BY LenProperties, ElementOfSeq
    <2> QED BY <2>1, SubSeqProperties
  <1>2. /\ b \in Seq(S) /\ Len(b) = Len(s) - i
        /\ \A j \in 1..(Len(s) - i) : b[j] = s[j + i]
    <2>1. \A j \in (i + 1)..Len(s) : s[j] \in S
      BY LenProperties, ElementOfSeq
    <2> QED BY <2>1, SubSeqProperties
  <1>3. /\ a \o b \in Seq(S) /\ Len(a \o b) = Len(s) - 1
        /\ \A j \in 1..(Len(s) - 1) : (a \o b)[j] = IF j <= i - 1 THEN a[j] ELSE b[j - (i - 1)]
    <2> HIDE DEF a, b
    <2>1. Len(a) + Len(b) = Len(s) - 1
      BY <1>1, <1>2, LenProperties
    <2>2. /\ a \o b \in Seq(S)
          /\ Len(a \o b) = Len(a) + Len(b)
          /\ \A j \in 1..(Len(a) + Len(b)) :
               (a \o b)[j] = IF j <= Len(a) THEN a[j] ELSE b[j - Len(a)]
      BY <1>1, <1>2, ConcatProperties
    <2> QED BY <1>1, <2>1, <2>2
  <1>4. RemoveAt(s, i) = a \o b
    BY DEF RemoveAt
  <1>5. ASSUME NEW j \in 1..(Len(s) - 1)
        PROVE  (a \o b)[j] = IF j < i THEN s[j] ELSE s[j + 1]
    <2> HIDE DEF a, b
    <2>1. CASE j < i
      BY <2>1, <1>1, <1>3, LenProperties
    <2>2. CASE ~(j < i)
      <3> DEFINE m == j - (i - 1)
      <3>1. m \in 1..(Len(s) - i) /\ m + i = j + 1 /\ ~(j <= i - 1) /\ ~(j < i)
        BY <2>2, LenProperties
      <3>2. (a \o b)[j] = b[m]
        BY <3>1, <1>3
      <3> HIDE DEF m
      <3>3. b[m] = s[j + 1]
        BY <3>1, <1>2
      <3> QED BY <2>2, <3>2, <3>3
    <2> QED BY <2>1, <2>2
  <1> QED BY <1>3, <1>4, <1>5


\* Taking an element out of a list by value.
LEMMA RemoveFirstProperties ==
  ASSUME NEW S, NEW s \in Seq(S), NEW e
  PROVE  /\ RemoveFirst(s, e) \in Seq(S)
         /\ ToSet(RemoveFirst(s, e)) \subseteq ToSet(s)
         /\ ToSet(s) \ {e} \subseteq ToSet(RemoveFirst(s, e))
         /\ e \notin ToSet(s) => RemoveFirst(s, e) = s
         /\ e \in ToSet(s) => Len(RemoveFirst(s, e)) = Len(s) - 1
         /\ \A x, y : Before(RemoveFirst(s, e), x, y) => Before(s, x, y)
         /\ IsInjective(s) => /\ IsInjective(RemoveFirst(s, e))
                              /\ ToSet(RemoveFirst(s, e)) = ToSet(s) \ {e}
  <1>1. CASE e \notin ToSet(s)
    <2>1. RemoveFirst(s, e) = s
      BY <1>1, Elements DEF RemoveFirst
    <2> QED BY <1>1, <2>1
  <1>2. CASE e \in ToSet(s)
    <2> DEFINE I == {i \in 1..Len(s) : s[i] = e}
               k == Min(I)
               r == RemoveAt(s, k)
    <2>1. /\ k \in 1..Len(s) /\ s[k] = e
          /\ \A i \in 1..Len(s) : s[i] = e => k <= i
      <3>1. I \in SUBSET Nat /\ I # {}
        BY <1>2, Elements
      <3>2. PICK m \in I : \A i \in I : ~(i < m)
        BY <3>1, Least
      <3>3. m \in I /\ \A i \in I : m <= i
        BY <3>1, <3>2
      <3>4. k \in I /\ \A i \in I : k <= i
        BY <3>3 DEF Min
      <3> QED BY <3>4
    <2>2. RemoveFirst(s, e) = r
      <3>1. \E i \in 1..Len(s) : s[i] = e
        BY <1>2, Elements
      <3>2. SelectInSeq(s, LAMBDA v : v = e) = k
        BY <2>1 DEF SelectInSeq
      <3> QED BY <3>1, <3>2 DEF RemoveFirst
    <2> HIDE DEF k
    <2>3. /\ r \in Seq(S) /\ Len(r) = Len(s) - 1
          /\ \A j \in 1..(Len(s) - 1) : r[j] = IF j < k THEN s[j] ELSE s[j + 1]
      BY <2>1, RemoveAtProperties
    <2> HIDE DEF r, I
    <2>4. /\ Len(s) \in Nat /\ DOMAIN s = 1..Len(s) /\ DOMAIN r = 1..(Len(s) - 1)
          /\ \A x : x \in ToSet(s) <=> \E i \in 1..Len(s) : s[i] = x
          /\ \A x : x \in ToSet(r) <=> \E i \in 1..(Len(s) - 1) : r[i] = x
      BY <2>3, Elements
    \* Position j of the result is position j or j + 1 of the list, never k.
    <2>5. ASSUME NEW j \in 1..(Len(s) - 1)
          PROVE  \E i \in 1..Len(s) : i = (IF j < k THEN j ELSE j + 1) /\ r[j] = s[i] /\ i # k
      <3>1. CASE j < k
        BY <2>1, <2>3, <2>4, <3>1
      <3>2. CASE ~(j < k)
        BY <2>1, <2>3, <2>4, <3>2
      <3> QED BY <3>1, <3>2
    <2>6. ASSUME NEW i \in 1..Len(s), i # k
          PROVE  \E j \in 1..(Len(s) - 1) : r[j] = s[i]
      <3>1. CASE i < k
        BY <2>1, <2>3, <2>4, <3>1
      <3>2. CASE i > k
        <4>1. i - 1 \in 1..(Len(s) - 1) /\ ~(i - 1 < k) /\ (i - 1) + 1 = i
          BY <2>1, <2>4, <3>2
        <4> QED BY <2>3, <4>1
      <3> QED BY <2>1, <2>4, <2>6, <3>1, <3>2
    <2>7. ToSet(r) \subseteq ToSet(s)
      BY <2>4, <2>5
    <2>8. ToSet(s) \ {e} \subseteq ToSet(r)
      BY <2>1, <2>4, <2>6
    <2>9. ASSUME NEW x, NEW y, Before(r, x, y)
          PROVE  Before(s, x, y)
      <3>1. PICK i, j \in 1..(Len(s) - 1) : i < j /\ r[i] = x /\ r[j] = y
        BY <2>4, <2>9 DEF Before
      <3>2. PICK a \in 1..Len(s) : a = (IF i < k THEN i ELSE i + 1) /\ r[i] = s[a]
        BY <2>5
      <3>3. PICK b \in 1..Len(s) : b = (IF j < k THEN j ELSE j + 1) /\ r[j] = s[b]
        BY <2>5
      <3>4. a < b
        BY <2>1, <2>4, <3>1, <3>2, <3>3
      <3> QED BY <2>4, <3>1, <3>2, <3>3, <3>4 DEF Before
    <2>10. ASSUME IsInjective(s)
           PROVE  IsInjective(r) /\ e \notin ToSet(r)
      <3>1. \A a, b \in 1..Len(s) : s[a] = s[b] => a = b
        BY <2>4, <2>10 DEF IsInjective
      <3>2. ASSUME NEW i \in 1..(Len(s) - 1), NEW j \in 1..(Len(s) - 1), r[i] = r[j]
            PROVE  i = j
        <4>1. PICK a \in 1..Len(s) : a = (IF i < k THEN i ELSE i + 1) /\ r[i] = s[a]
          BY <2>5
        <4>2. PICK b \in 1..Len(s) : b = (IF j < k THEN j ELSE j + 1) /\ r[j] = s[b]
          BY <2>5
        <4>3. a = b
          BY <3>1, <3>2, <4>1, <4>2
        <4> QED BY <2>1, <2>4, <4>1, <4>2, <4>3
      <3>3. ASSUME NEW i \in 1..(Len(s) - 1)
            PROVE  r[i] # e
        BY <2>1, <2>5, <3>1
      <3> QED BY <2>4, <3>2, <3>3 DEF IsInjective
    <2> QED BY <1>2, <2>2, <2>3, <2>7, <2>8, <2>9, <2>10
  <1> QED BY <1>1, <1>2

\* Linking e at place k, before the element that was there.
LEMMA InsertAtProperties ==
  ASSUME NEW S, NEW s \in Seq(S), NEW e \in S, NEW k \in 1..(Len(s) + 1)
  PROVE  /\ InsertAt(s, k, e) \in Seq(S)
         /\ Len(InsertAt(s, k, e)) = Len(s) + 1
         /\ ToSet(InsertAt(s, k, e)) = ToSet(s) \cup {e}
         /\ IsInjective(s) /\ e \notin ToSet(s) => IsInjective(InsertAt(s, k, e))
         /\ \A x, y : Before(InsertAt(s, k, e), x, y) =>
              \/ Before(s, x, y)
              \/ x = e /\ \E j \in k..Len(s) : s[j] = y
              \/ y = e /\ \E j \in 1..(k - 1) : s[j] = x
  <1> DEFINE a == SubSeq(s, 1, k - 1)
             b == SubSeq(s, k, Len(s))
             m == a \o <<e>>
             r == m \o b
  <1>1. Len(s) \in Nat /\ DOMAIN s = 1..Len(s) /\ \A i \in 1..Len(s) : s[i] \in S
    BY Elements
  <1>2. a \in Seq(S) /\ Len(a) = k - 1 /\ \A j \in 1..(k - 1) : a[j] = s[j]
    <2>1. \A i \in 1..(k - 1) : s[i] \in S
      BY <1>1
    <2> QED BY <1>1, <2>1, SubSeqProperties
  <1>3. /\ b \in Seq(S) /\ Len(b) = Len(s) - k + 1
        /\ \A j \in 1..(Len(s) - k + 1) : b[j] = s[k + j - 1]
    <2>1. \A i \in k..Len(s) : s[i] \in S
      BY <1>1
    <2> QED BY <1>1, <2>1, SubSeqProperties
  <1> HIDE DEF a, b
  <1>4. m \in Seq(S) /\ Len(m) = k /\ m[k] = e /\ \A j \in 1..(k - 1) : m[j] = s[j]
    <2>1. m = Append(a, e)
      BY <1>2, AppendIsConcat
    <2> QED BY <1>1, <1>2, <2>1, AppendProperties
  <1> HIDE DEF m
  <1>5. /\ r \in Seq(S) /\ Len(r) = Len(s) + 1
        /\ \A j \in 1..(Len(s) + 1) : r[j] = IF j < k THEN s[j] ELSE IF j = k THEN e ELSE s[j - 1]
    <2>1. /\ r \in Seq(S) /\ Len(r) = Len(m) + Len(b)
          /\ \A j \in 1..(Len(m) + Len(b)) : r[j] = IF j <= Len(m) THEN m[j] ELSE b[j - Len(m)]
      BY <1>3, <1>4, ConcatProperties
    <2>2. Len(m) + Len(b) = Len(s) + 1
      BY <1>1, <1>3, <1>4
    <2> HIDE DEF r
    <2>3. ASSUME NEW j \in 1..(Len(s) + 1)
          PROVE  r[j] = IF j < k THEN s[j] ELSE IF j = k THEN e ELSE s[j - 1]
      <3>1. CASE j <= k
        BY <1>1, <1>4, <2>1, <2>2, <3>1
      <3>2. CASE j > k
        <4>1. j - k \in 1..(Len(s) - k + 1) /\ k + (j - k) - 1 = j - 1 /\ ~(j <= k)
          BY <1>1, <3>2
        <4>2. r[j] = b[j - k]
          BY <1>4, <2>1, <2>2, <4>1
        <4>3. b[j - k] = s[k + (j - k) - 1]
          BY <1>3, <4>1
        <4> QED BY <3>2, <4>1, <4>2, <4>3
      <3> QED BY <1>1, <3>1, <3>2
    <2> QED BY <2>1, <2>2, <2>3
  <1>6. InsertAt(s, k, e) = r
    BY DEF InsertAt, r, m, a, b
  <1> HIDE DEF r
  <1>7. /\ DOMAIN r = 1..(Len(s) + 1)
        /\ \A x : x \in ToSet(s) <=> \E i \in 1..Len(s) : s[i] = x
        /\ \A x : x \in ToSet(r) <=> \E i \in 1..(Len(s) + 1) : r[i] = x
    BY <1>5, Elements
  <1>8. ASSUME NEW i \in 1..Len(s)
        PROVE  \E j \in 1..(Len(s) + 1) : r[j] = s[i]
    <2>1. CASE i < k
      BY <1>1, <1>5, <2>1
    <2>2. CASE ~(i < k)
      <3>1. i + 1 \in 1..(Len(s) + 1) /\ ~(i + 1 < k) /\ i + 1 # k /\ (i + 1) - 1 = i
        BY <1>1, <2>2
      <3> QED BY <1>5, <3>1
    <2> QED BY <2>1, <2>2
  <1>9. ToSet(r) = ToSet(s) \cup {e}
    <2>1. ToSet(r) \subseteq ToSet(s) \cup {e}
      BY <1>1, <1>5, <1>7
    <2>2. r[k] = e
      BY <1>1, <1>5
    <2> QED BY <1>7, <1>8, <2>1, <2>2
  <1>10. ASSUME IsInjective(s), e \notin ToSet(s)
         PROVE  IsInjective(r)
    <2>1. /\ \A i, j \in 1..Len(s) : s[i] = s[j] => i = j
          /\ \A i \in 1..Len(s) : s[i] # e
      BY <1>1, <1>7, <1>10 DEF IsInjective
    <2>2. ASSUME NEW i \in 1..(Len(s) + 1), NEW j \in 1..(Len(s) + 1), r[i] = r[j]
          PROVE  i = j
      <3>1. CASE i = k \/ j = k
        BY <1>1, <1>5, <2>1, <2>2, <3>1
      <3>2. CASE i # k /\ j # k
        <4> DEFINE x == IF i < k THEN i ELSE i - 1
                   y == IF j < k THEN j ELSE j - 1
        <4>1. x \in 1..Len(s) /\ y \in 1..Len(s) /\ r[i] = s[x] /\ r[j] = s[y]
          BY <1>1, <1>5, <3>2
        <4>2. x = y
          BY <2>1, <2>2, <4>1
        <4> QED BY <1>1, <3>2, <4>2
      <3> QED BY <3>1, <3>2
    <2> QED BY <1>7, <2>2 DEF IsInjective
  <1>11. ASSUME NEW x, NEW y, Before(r, x, y)
         PROVE  \/ Before(s, x, y)
                \/ x = e /\ \E j \in k..Len(s) : s[j] = y
                \/ y = e /\ \E j \in 1..(k - 1) : s[j] = x
    <2>1. PICK i, j \in 1..(Len(s) + 1) : i < j /\ r[i] = x /\ r[j] = y
      BY <1>7, <1>11 DEF Before
    <2>2. CASE i = k
      <3>1. j - 1 \in k..Len(s) /\ r[j] = s[j - 1] /\ r[i] = e
        BY <1>1, <1>5, <2>1, <2>2
      <3> QED BY <2>1, <3>1
    <2>3. CASE j = k
      <3>1. i \in 1..(k - 1) /\ r[i] = s[i] /\ r[j] = e
        BY <1>1, <1>5, <2>1, <2>3
      <3> QED BY <2>1, <3>1
    <2>4. CASE i # k /\ j # k
      <3> DEFINE p == IF i < k THEN i ELSE i - 1
                 q == IF j < k THEN j ELSE j - 1
      <3>1. p \in 1..Len(s) /\ q \in 1..Len(s) /\ p < q /\ r[i] = s[p] /\ r[j] = s[q]
        BY <1>1, <1>5, <2>1, <2>4
      <3> HIDE DEF p, q
      <3> QED BY <1>1, <2>1, <3>1 DEF Before
    <2> QED BY <2>2, <2>3, <2>4
  <1> QED BY <1>5, <1>6, <1>9, <1>10, <1>11

\* Linking e at the end.
LEMMA AppendElements ==
  ASSUME NEW S, NEW s \in Seq(S), NEW e \in S
  PROVE  /\ Append(s, e) \in Seq(S)
         /\ Len(Append(s, e)) = Len(s) + 1
         /\ ToSet(Append(s, e)) = ToSet(s) \cup {e}
         /\ IsInjective(s) /\ e \notin ToSet(s) => IsInjective(Append(s, e))
         /\ \A x, y : Before(Append(s, e), x, y) =>
              Before(s, x, y) \/ (y = e /\ x \in ToSet(s))
  <1> DEFINE r == Append(s, e)
  <1>1. /\ Len(s) \in Nat /\ r \in Seq(S) /\ Len(r) = Len(s) + 1
        /\ r[Len(s) + 1] = e /\ \A i \in 1..Len(s) : r[i] = s[i]
    BY Elements, AppendProperties
  <1> HIDE DEF r
  <1>2. /\ DOMAIN r = 1..(Len(s) + 1) /\ DOMAIN s = 1..Len(s)
        /\ \A x : x \in ToSet(s) <=> \E i \in 1..Len(s) : s[i] = x
        /\ \A x : x \in ToSet(r) <=> \E i \in 1..(Len(s) + 1) : r[i] = x
    BY <1>1, Elements
  <1>3. ASSUME NEW i \in 1..(Len(s) + 1)
        PROVE  i \in 1..Len(s) \/ i = Len(s) + 1
    BY <1>1
  <1>4. ToSet(r) = ToSet(s) \cup {e}
    BY <1>1, <1>2, <1>3
  <1>5. ASSUME IsInjective(s), e \notin ToSet(s)
        PROVE  IsInjective(r)
    BY <1>1, <1>2, <1>3, <1>5 DEF IsInjective
  <1>6. ASSUME NEW x, NEW y, Before(r, x, y)
        PROVE  Before(s, x, y) \/ (y = e /\ x \in ToSet(s))
    <2>1. PICK i, j \in 1..(Len(s) + 1) : i < j /\ r[i] = x /\ r[j] = y
      BY <1>2, <1>6 DEF Before
    <2>2. i \in 1..Len(s) /\ r[i] = s[i]
      BY <1>1, <2>1
    <2>3. CASE j = Len(s) + 1
      BY <1>1, <1>2, <2>1, <2>2, <2>3
    <2>4. CASE j # Len(s) + 1
      BY <1>1, <1>2, <1>3, <2>1, <2>2, <2>4 DEF Before
    <2> QED BY <2>3, <2>4
  <1> QED BY <1>1, <1>4, <1>5, <1>6 DEF r

\* Linking e in front.
LEMMA ConsElements ==
  ASSUME NEW S, NEW s \in Seq(S), NEW e \in S
  PROVE  /\ <<e>> \o s \in Seq(S)
         /\ Len(<<e>> \o s) = Len(s) + 1
         /\ ToSet(<<e>> \o s) = ToSet(s) \cup {e}
         /\ IsInjective(s) /\ e \notin ToSet(s) => IsInjective(<<e>> \o s)
         /\ \A x, y : Before(<<e>> \o s, x, y) => Before(s, x, y) \/ (x = e /\ y \in ToSet(s))
  <1> DEFINE r == <<e>> \o s
  <1>1. /\ Len(s) \in Nat /\ r \in Seq(S) /\ Len(r) = Len(s) + 1
        /\ r[1] = e /\ \A i \in 2..(Len(s) + 1) : r[i] = s[i - 1]
    <2>1. <<e>> \in Seq(S) /\ Len(<<e>>) = 1 /\ <<e>>[1] = e
      OBVIOUS
    <2>2. /\ r \in Seq(S) /\ Len(r) = 1 + Len(s)
          /\ \A i \in 1..(1 + Len(s)) : r[i] = IF i <= 1 THEN <<e>>[i] ELSE s[i - 1]
      BY <2>1, ConcatProperties
    <2>3. Len(s) \in Nat
      BY Elements
    <2> HIDE DEF r
    <2>4. 1 \in 1..(1 + Len(s)) /\ \A i \in 2..(Len(s) + 1) : i \in 1..(1 + Len(s)) /\ ~(i <= 1)
      BY <2>3
    <2>5. r[1] = e
      BY <2>1, <2>2, <2>4
    <2>6. \A i \in 2..(Len(s) + 1) : r[i] = s[i - 1]
      BY <2>2, <2>4
    <2> QED BY <2>2, <2>3, <2>5, <2>6
  <1> HIDE DEF r
  <1>2. /\ DOMAIN r = 1..(Len(s) + 1) /\ DOMAIN s = 1..Len(s)
        /\ \A x : x \in ToSet(s) <=> \E i \in 1..Len(s) : s[i] = x
        /\ \A x : x \in ToSet(r) <=> \E i \in 1..(Len(s) + 1) : r[i] = x
    BY <1>1, Elements
  <1>3. ASSUME NEW i \in 1..(Len(s) + 1), i # 1
        PROVE  i \in 2..(Len(s) + 1) /\ i - 1 \in 1..Len(s) /\ r[i] = s[i - 1]
    BY <1>1, <1>3
  <1>4. ASSUME NEW i \in 1..Len(s)
        PROVE  i + 1 \in 1..(Len(s) + 1) /\ r[i + 1] = s[i]
    BY <1>1, SMTT(30)
  <1>5. ToSet(r) = ToSet(s) \cup {e}
    <2>1. 1 \in 1..(Len(s) + 1)
      BY <1>1
    <2>2. ToSet(r) \subseteq ToSet(s) \cup {e}
      BY <1>1, <1>2, <1>3
    <2>3. ToSet(s) \subseteq ToSet(r)
      BY <1>2, <1>4
    <2> QED BY <1>1, <1>2, <2>1, <2>2, <2>3
  <1>6. ASSUME IsInjective(s), e \notin ToSet(s)
        PROVE  IsInjective(r)
    <2>1. ASSUME NEW i \in 1..(Len(s) + 1), NEW j \in 1..(Len(s) + 1), r[i] = r[j]
          PROVE  i = j
      <3>1. CASE i = 1 \/ j = 1
        BY <1>1, <1>2, <1>3, <1>6, <2>1, <3>1
      <3>2. CASE i # 1 /\ j # 1
        <4>1. i - 1 = j - 1
          BY <1>2, <1>3, <1>6, <2>1, <3>2 DEF IsInjective
        <4> QED BY <4>1
      <3> QED BY <3>1, <3>2
    <2> QED BY <1>2, <2>1 DEF IsInjective
  <1>7. ASSUME NEW x, NEW y, Before(r, x, y)
        PROVE  Before(s, x, y) \/ (x = e /\ y \in ToSet(s))
    <2>1. PICK i, j \in 1..(Len(s) + 1) : i < j /\ r[i] = x /\ r[j] = y
      BY <1>2, <1>7 DEF Before
    <2>2. j # 1
      BY <1>1, <2>1
    <2>3. j - 1 \in 1..Len(s) /\ s[j - 1] = y
      BY <1>3, <2>1, <2>2
    <2>4. CASE i = 1
      BY <1>1, <1>2, <2>1, <2>3, <2>4
    <2>5. CASE i # 1
      <3>1. i - 1 \in 1..Len(s) /\ s[i - 1] = x /\ i - 1 < j - 1
        BY <1>3, <2>1, <2>5
      <3> QED BY <1>2, <2>3, <3>1 DEF Before
    <2> QED BY <2>4, <2>5
  <1> QED BY <1>1, <1>5, <1>6, <1>7 DEF r

\* Taking the first element off.
LEMMA TailElements ==
  ASSUME NEW S, NEW s \in Seq(S), s # << >>
  PROVE  /\ Head(s) \in S /\ Head(s) \in ToSet(s) /\ Head(s) = s[1]
         /\ Tail(s) \in Seq(S)
         /\ Len(Tail(s)) = Len(s) - 1
         /\ ToSet(Tail(s)) \subseteq ToSet(s)
         /\ ToSet(s) = ToSet(Tail(s)) \cup {Head(s)}
         /\ \A i \in 1..(Len(s) - 1) : Tail(s)[i] = s[i + 1]
         /\ IsInjective(s) => IsInjective(Tail(s)) /\ Head(s) \notin ToSet(Tail(s))
         /\ \A y \in ToSet(Tail(s)) : Before(s, Head(s), y)
  <1> DEFINE r == Tail(s)
  <1>1. /\ Len(s) \in Nat /\ Len(s) # 0 /\ Head(s) \in S /\ Head(s) = s[1]
        /\ r \in Seq(S) /\ Len(r) = Len(s) - 1
        /\ \A i \in 1..(Len(s) - 1) : r[i] = s[i + 1]
    BY Elements, HeadTailProperties
  <1> HIDE DEF r
  <1>2. /\ DOMAIN r = 1..(Len(s) - 1) /\ DOMAIN s = 1..Len(s)
        /\ \A x : x \in ToSet(s) <=> \E i \in 1..Len(s) : s[i] = x
        /\ \A x : x \in ToSet(r) <=> \E i \in 1..(Len(s) - 1) : r[i] = x
    BY <1>1, Elements
  <1>3. ASSUME NEW i \in 1..(Len(s) - 1)
        PROVE  i + 1 \in 1..Len(s) /\ i + 1 # 1 /\ r[i] = s[i + 1]
    BY <1>1
  <1>4. ASSUME NEW i \in 1..Len(s), i # 1
        PROVE  i - 1 \in 1..(Len(s) - 1) /\ r[i - 1] = s[i]
    BY <1>1, <1>4
  <1>5. 1 \in 1..Len(s)
    BY <1>1
  <1>6. ToSet(s) = ToSet(r) \cup {Head(s)}
    BY <1>1, <1>2, <1>3, <1>4, <1>5
  <1>7. ASSUME IsInjective(s)
        PROVE  IsInjective(r) /\ Head(s) \notin ToSet(r)
    <2>1. Head(s) \notin ToSet(r)
      BY <1>1, <1>2, <1>3, <1>5, <1>7 DEF IsInjective
    <2>2. ASSUME NEW i \in 1..(Len(s) - 1), NEW j \in 1..(Len(s) - 1), r[i] = r[j]
          PROVE  i = j
      <3>1. i + 1 = j + 1
        BY <1>2, <1>3, <1>7, <2>2 DEF IsInjective
      <3> QED BY <3>1
    <2> QED BY <1>2, <2>1, <2>2 DEF IsInjective
  <1>8. ASSUME NEW y \in ToSet(r)
        PROVE  Before(s, Head(s), y)
    <2>1. PICK i \in 1..(Len(s) - 1) : r[i] = y
      BY <1>2
    <2>2. 1 < i + 1
      BY <1>1
    <2> QED BY <1>1, <1>2, <1>3, <1>5, <2>1, <2>2 DEF Before
  <1> QED BY <1>1, <1>2, <1>6, <1>7, <1>8 DEF r

\* How often x is in the list s, and what linking and taking off change.
Occurrences(s, x) == Cardinality({i \in DOMAIN s : s[i] = x})

LEMMA OccurrencesType ==
  ASSUME NEW S, NEW s \in Seq(S), NEW x
  PROVE  /\ IsFiniteSet({i \in DOMAIN s : s[i] = x}) /\ Occurrences(s, x) \in Nat
         /\ x \in ToSet(s) => Occurrences(s, x) > 0
  <1> DEFINE T == {i \in DOMAIN s : s[i] = x}
  <1>1. Len(s) \in Nat /\ DOMAIN s = 1..Len(s)
    BY Elements
  <1>2. IsFiniteSet(1..Len(s)) /\ T \in SUBSET (1..Len(s))
    BY <1>1, FS_Interval
  <1>3. IsFiniteSet(T)
    BY <1>2, FS_Subset
  <1>4. Cardinality(T) \in Nat /\ (Cardinality(T) = 0 <=> T = {})
    BY <1>3, FS_CardinalityType, FS_EmptySet
  <1>5. x \in ToSet(s) => T # {}
    BY DEF ToSet
  <1> QED BY <1>3, <1>4, <1>5 DEF Occurrences

LEMMA OccurrencesAppend ==
  ASSUME NEW S, NEW s \in Seq(S), NEW e \in S, NEW x
  PROVE  Occurrences(Append(s, e), x) = Occurrences(s, x) + IF x = e THEN 1 ELSE 0
  <1> DEFINE r == Append(s, e)
             T == {i \in DOMAIN s : s[i] = x}
             U == {i \in DOMAIN r : r[i] = x}
  <1>1. /\ Len(s) \in Nat /\ r \in Seq(S) /\ Len(r) = Len(s) + 1
        /\ r[Len(s) + 1] = e /\ \A i \in 1..Len(s) : r[i] = s[i]
    BY Elements, AppendProperties
  <1> HIDE DEF r
  <1>2. DOMAIN s = 1..Len(s) /\ DOMAIN r = 1..(Len(s) + 1)
    BY <1>1, Elements
  <1>3. IsFiniteSet(T) /\ Cardinality(T) \in Nat
    BY OccurrencesType, FS_CardinalityType
  <1> HIDE DEF T, U
  <1>4. ASSUME x = e PROVE Cardinality(U) = Cardinality(T) + 1
    <2>1. U = T \cup {Len(s) + 1} /\ Len(s) + 1 \notin T
      BY <1>1, <1>2, <1>4 DEF T, U
    <2>2. Cardinality(U) = Cardinality(T) + 1
      BY <1>3, <2>1, FS_AddElement
    <2> QED BY <2>2
  <1>5. ASSUME x # e PROVE U = T
    <2>1. U = T
      BY <1>1, <1>2, <1>5 DEF T, U
    <2> QED BY <2>1
  <1>6. Occurrences(s, x) = Cardinality(T) /\ Occurrences(r, x) = Cardinality(U)
    BY DEF Occurrences, T, U
  <1>7. Occurrences(r, x) = Occurrences(s, x) + IF x = e THEN 1 ELSE 0
    BY <1>3, <1>4, <1>5, <1>6
  <1> QED BY <1>7 DEF r

LEMMA OccurrencesTail ==
  ASSUME NEW S, NEW s \in Seq(S), s # << >>, NEW x
  PROVE  Occurrences(s, x) = Occurrences(Tail(s), x) + IF x = Head(s) THEN 1 ELSE 0
  <1> DEFINE r == Tail(s)
             T == {i \in DOMAIN s : s[i] = x}
             U == {i \in DOMAIN r : r[i] = x}
             V == {i \in 2..Len(s) : s[i] = x}
             f == [i \in U |-> i + 1]
  <1>1. /\ Len(s) \in Nat /\ Len(s) # 0 /\ Head(s) = s[1]
        /\ r \in Seq(S) /\ Len(r) = Len(s) - 1
        /\ \A i \in 1..(Len(s) - 1) : r[i] = s[i + 1]
    BY Elements, HeadTailProperties
  <1> HIDE DEF r
  <1>2. DOMAIN s = 1..Len(s) /\ DOMAIN r = 1..(Len(s) - 1)
    BY <1>1, Elements
  <1>3. IsFiniteSet(U) /\ Cardinality(U) \in Nat
    <2>1. IsFiniteSet(U)
      BY <1>1, OccurrencesType
    <2> HIDE DEF U
    <2> QED BY <2>1, FS_CardinalityType
  <1>4. \A i \in U : i \in Nat /\ i + 1 \in V
    BY <1>1, <1>2
  <1>5. \A j \in V : j \in Nat /\ j - 1 \in U /\ (j - 1) + 1 = j
    BY <1>1, <1>2
  <1>6. f \in Bijection(U, V)
    <2>1. f \in [U -> V] /\ \A i \in U : f[i] = i + 1
      BY <1>4
    <2>2. \A i, j \in U : f[i] = f[j] => i = j
      BY <1>4, <2>1
    <2>3. \A j \in V : \E i \in U : f[i] = j
      BY <1>5, <2>1
    <2> HIDE DEF f, U, V
    <2> QED BY <2>1, <2>2, <2>3 DEF Bijection, Injection, Surjection, IsInjective
  <1> HIDE DEF f
  <1>7. IsFiniteSet(V) /\ Cardinality(V) = Cardinality(U)
    <2>1. ExistsBijection(U, V)
      BY <1>6 DEF ExistsBijection
    <2> HIDE DEF U, V
    <2> QED BY <1>3, <2>1, FS_Bijection
  <1>8. ASSUME x = Head(s) PROVE Cardinality(T) = Cardinality(V) + 1
    <2>1. T = V \cup {1} /\ 1 \notin V
      BY <1>1, <1>2, <1>8
    <2> HIDE DEF T, U, V
    <2>2. Cardinality(T) = Cardinality(V) + 1
      BY <1>7, <2>1, FS_AddElement
    <2> QED BY <2>2
  <1>9. ASSUME x # Head(s) PROVE T = V
    BY <1>1, <1>2, <1>9
  <1>10. Occurrences(s, x) = Cardinality(T) /\ Occurrences(r, x) = Cardinality(U)
    BY DEF Occurrences
  <1> HIDE DEF T, U, V
  <1>11. Occurrences(s, x) = Occurrences(r, x) + IF x = Head(s) THEN 1 ELSE 0
    BY <1>3, <1>7, <1>8, <1>9, <1>10
  <1> QED BY <1>11 DEF r

\* A finite set, listed.
LEMMA ListedElements ==
  ASSUME NEW S, IsFiniteSet(S)
  PROVE  SetToSeq(S) \in Seq(S) /\ ToSet(SetToSeq(S)) = S /\ IsInjective(SetToSeq(S))
  <1> DEFINE n == Cardinality(S)
             P(f) == IsInjective(f)
  <1>1. n \in Nat /\ ExistsBijection(1..n, S)
    BY FS_CardinalityType
  <1>2. PICK g \in Bijection(1..n, S) : TRUE
    BY <1>1 DEF ExistsBijection
  <1>3. g \in [1..n -> S] /\ P(g)
    BY <1>2 DEF Bijection, Injection, IsInjective
  <1> DEFINE f == CHOOSE h \in [1..n -> S] : P(h)
  <1>4. f \in [1..n -> S] /\ P(f)
    <2> HIDE DEF P, n
    <2> QED BY <1>3
  <1>5. f = SetToSeq(S)
    BY DEF SetToSeq
  <1> HIDE DEF f
  <1>6. f \in Injection(1..n, S)
    BY <1>4 DEF Injection, IsInjective
  <1>7. Cardinality(1..n) = n
    BY <1>1, FS_Interval
  <1>8. f \in Surjection(1..n, S)
    BY <1>6, <1>7, FS_Injection
  <1>9. f \in Seq(S) /\ DOMAIN f = 1..n
    BY <1>1, <1>4
  <1> QED BY <1>4, <1>5, <1>8, <1>9 DEF Surjection, ToSet

\* Two sequences, one after the other.
LEMMA ConcatElements ==
  ASSUME NEW S, NEW s \in Seq(S), NEW t \in Seq(S)
  PROVE  /\ s \o t \in Seq(S)
         /\ ToSet(s \o t) = ToSet(s) \cup ToSet(t)
         /\ IsInjective(s) /\ IsInjective(t) /\ ToSet(s) \cap ToSet(t) = {} => IsInjective(s \o t)
  <1> DEFINE r == s \o t
  <1>1. /\ r \in Seq(S) /\ Len(r) = Len(s) + Len(t)
        /\ \A k \in 1..(Len(s) + Len(t)) : r[k] = IF k <= Len(s) THEN s[k] ELSE t[k - Len(s)]
    BY ConcatProperties
  <1> HIDE DEF r
  <1>2. /\ Len(s) \in Nat /\ Len(t) \in Nat /\ DOMAIN s = 1..Len(s) /\ DOMAIN t = 1..Len(t)
        /\ DOMAIN r = 1..(Len(s) + Len(t))
        /\ \A x : x \in ToSet(s) <=> \E i \in 1..Len(s) : s[i] = x
        /\ \A x : x \in ToSet(t) <=> \E i \in 1..Len(t) : t[i] = x
        /\ \A x : x \in ToSet(r) <=> \E i \in 1..(Len(s) + Len(t)) : r[i] = x
    BY <1>1, Elements
  <1>3. ASSUME NEW k \in 1..(Len(s) + Len(t))
        PROVE  \/ k \in 1..Len(s) /\ r[k] = s[k]
               \/ k - Len(s) \in 1..Len(t) /\ r[k] = t[k - Len(s)]
    BY <1>1, <1>2
  <1>4. ASSUME NEW k \in 1..Len(s) PROVE k \in 1..(Len(s) + Len(t)) /\ r[k] = s[k]
    BY <1>1, <1>2
  <1>5. ASSUME NEW k \in 1..Len(t)
        PROVE  k + Len(s) \in 1..(Len(s) + Len(t)) /\ r[k + Len(s)] = t[k]
    <2>1. k + Len(s) \in 1..(Len(s) + Len(t)) /\ ~(k + Len(s) <= Len(s)) /\ (k + Len(s)) - Len(s) = k
      BY <1>2
    <2> QED BY <1>1, <2>1
  <1>6. ToSet(r) = ToSet(s) \cup ToSet(t)
    BY <1>2, <1>3, <1>4, <1>5, ZenonT(40)
  <1>7. ASSUME IsInjective(s), IsInjective(t), ToSet(s) \cap ToSet(t) = {} PROVE IsInjective(r)
    <2> SUFFICES ASSUME NEW i \in DOMAIN r, NEW j \in DOMAIN r, r[i] = r[j] PROVE i = j
      BY DEF IsInjective
    <2>1. /\ \A a, b \in 1..Len(s) : s[a] = s[b] => a = b
          /\ \A a, b \in 1..Len(t) : t[a] = t[b] => a = b
          /\ \A a \in 1..Len(s), b \in 1..Len(t) : s[a] # t[b]
      BY <1>2, <1>7 DEF IsInjective
    <2>2. CASE i \in 1..Len(s) /\ r[i] = s[i]
      <3>1. j \in 1..Len(s) /\ r[j] = s[j]
        <4>1. j \in 1..(Len(s) + Len(t))
          BY <1>2
        <4>2. CASE j - Len(s) \in 1..Len(t) /\ r[j] = t[j - Len(s)]
          BY <2>1, <2>2, <4>2
        <4> QED BY <1>3, <4>1, <4>2
      <3> QED BY <2>1, <2>2, <3>1
    <2>3. CASE i - Len(s) \in 1..Len(t) /\ r[i] = t[i - Len(s)]
      <3>1. j - Len(s) \in 1..Len(t) /\ r[j] = t[j - Len(s)]
        BY <1>2, <1>3, <2>1, <2>3
      <3>2. i - Len(s) = j - Len(s)
        BY <2>1, <2>3, <3>1
      <3> QED BY <1>2, <3>2
    <2>4. \/ i \in 1..Len(s) /\ r[i] = s[i]
          \/ i - Len(s) \in 1..Len(t) /\ r[i] = t[i - Len(s)]
      <3>1. i \in 1..(Len(s) + Len(t))
        BY <1>2
      <3> QED BY <1>3, <3>1
    <2> QED BY <2>2, <2>3, <2>4
  <1> QED BY <1>1, <1>6, <1>7 DEF r
==============================================================================
