----------------------------- MODULE Glthread ------------------------------
(***************************************************************************)
(* The intrusive lists (gluethread/glthread.c) every other part keeps its  *)
(* objects on, at the level of the two pointers of a node. "lists" holds   *)
(* the sequences the callers mean; "walk" is one run of                    *)
(* ITERATE_GLTHREAD_BEGIN, whose body may change the lists: the macro      *)
(* reads the next node before the body runs.                               *)
(***************************************************************************)
EXTENDS Naturals, SequencesExt, FiniteSets

CONSTANTS
  Heads, Elems,
  Priority,  \* what comp_fn compares
  Null,
  MaxSteps   \* bound on the calls

VARIABLES left, right, lists, walk, steps
vars == <<left, right, lists, walk, steps>>

NodeIds == Heads \cup Elems
Idle == [on |-> Null, cur |-> Null, next |-> Null, seen |-> {}, meant |-> {}, cut |-> FALSE]

Init ==  \* init_glthread
  /\ left = [n \in NodeIds |-> Null] /\ right = [n \in NodeIds |-> Null]
  /\ lists = [h \in Heads |-> << >>] /\ walk = Idle /\ steps = 0

Mem == [l |-> left, r |-> right]

------------------------------------------------------------------------------
(* The functions, on the memory m = [l, r] *)

Queued(m, n) == ~(m.l[n] = Null /\ m.r[n] = Null)  \* IS_QUEUED_UP_IN_THREAD

\* glthread_add_next
Link_halfway(m, at, n) ==  \* mutant: the old neighbour keeps pointing to at
  [m EXCEPT !.r[at] = n, !.l[n] = at, !.r[n] = IF m.r[at] = Null THEN @ ELSE m.r[at]]
Link(m, at, n) ==
  IF m.r[at] = Null THEN [m EXCEPT !.r[at] = n, !.l[n] = at]
  ELSE [m EXCEPT !.r[at] = n, !.l[n] = at, !.r[n] = m.r[at], !.l[m.r[at]] = n]

\* glthread_add_before
LinkBefore(m, at, n) ==
  IF m.l[at] = Null THEN [m EXCEPT !.l[n] = Null, !.r[n] = at, !.l[at] = n]
  ELSE [m EXCEPT !.r[m.l[at]] = n, !.l[n] = m.l[at], !.r[n] = at, !.l[at] = n]

\* remove_glthread
Unlink(m, n) ==
  CASE m.l[n] = Null /\ m.r[n] = Null -> m
    [] m.l[n] = Null                  -> [m EXCEPT !.l[m.r[n]] = Null, !.r[n] = Null]
    [] m.r[n] = Null                  -> [m EXCEPT !.r[m.l[n]] = Null, !.l[n] = Null]
    [] OTHER -> [m EXCEPT !.r[m.l[n]] = m.r[n], !.l[m.r[n]] = m.l[n], !.l[n] = Null, !.r[n] = Null]

RECURSIVE LastFrom(_, _), Place(_, _, _), UnlinkAll(_, _), Follow(_, _)
LastFrom(m, n) == IF m.r[n] = Null THEN n ELSE LastFrom(m, m.r[n])  \* glthread_get_last
\* glthread_priority_insert: behind all that do not compare greater
Place(m, at, n) ==
  IF m.r[at] = Null \/ Priority[n] < Priority[m.r[at]] THEN at ELSE Place(m, m.r[at], n)
\* delete_glthread_list
UnlinkAll(m, n) == IF n = Null THEN m ELSE UnlinkAll(Unlink(m, n), m.r[n])
\* The nodes right of n: get_glthread_list_count is their number
Follow(m, n) == IF m.r[n] = Null THEN << >> ELSE <<m.r[n]>> \o Follow(m, m.r[n])

------------------------------------------------------------------------------
(* Calls; a caller inserts only a node that is on no list *)

Listed == UNION {Range(lists[h]) : h \in Heads}
Free == Elems \ Listed

Store(m, h, s) ==
  /\ steps < MaxSteps /\ steps' = steps + 1
  /\ left' = m.l /\ right' = m.r /\ lists' = [lists EXCEPT ![h] = s]
  /\ walk' = [walk EXCEPT !.meant = @ \cap UNION {Range(lists'[x]) : x \in Heads},
                          !.cut = @ \/ (walk.next # Null /\ walk.next \notin Range(lists'[walk.on]))]

AddFirst(h, n) == n \in Free /\ Store(Link(Mem, h, n), h, <<n>> \o lists[h])
AddLast(h, n) == n \in Free /\ Store(Link(Mem, LastFrom(Mem, h), n), h, Append(lists[h], n))
AddBefore(h, k, n) ==
  n \in Free /\ Store(LinkBefore(Mem, lists[h][k], n), h, InsertAt(lists[h], k, n))
PriorityInsert(h, n) ==
  /\ n \in Free
  /\ LET k == Cardinality({j \in DOMAIN lists[h] :
                             \A i \in 1..j : Priority[lists[h][i]] <= Priority[n]})
     IN Store(Link(Mem, Place(Mem, h, n), n), h, InsertAt(lists[h], k + 1, n))
RemoveGlthread(h, k) == Store(Unlink(Mem, lists[h][k]), h, RemoveAt(lists[h], k))
DequeueFirst(h) ==  \* dequeue_glthread_first
  /\ Mem.r[h] # Null /\ Store(Unlink(Mem, Mem.r[h]), h, Tail(lists[h]))
DeleteList(h) == lists[h] # << >> /\ Store(UnlinkAll(Mem, right[h]), h, << >>)

\* ITERATE_GLTHREAD_BEGIN, and one more turn of its loop
WalkStart(h) ==
  /\ walk.on = Null /\ lists[h] # << >> /\ UNCHANGED <<left, right, lists, steps>>
  /\ walk' = [on |-> h, cur |-> right[h], next |-> right[right[h]], seen |-> {right[h]},
              meant |-> Range(lists[h]), cut |-> FALSE]
WalkOn ==
  /\ walk.on # Null /\ UNCHANGED <<left, right, lists, steps>>
  /\ walk' = IF walk.next = Null THEN Idle
             ELSE [walk EXCEPT !.cur = walk.next, !.next = right[walk.next], !.seen = @ \cup {walk.next}]

Next ==
  \/ \E h \in Heads, n \in Elems : AddFirst(h, n)
  \/ \E h \in Heads, n \in Elems : AddLast(h, n)
  \/ \E h \in Heads, n \in Elems : \E k \in DOMAIN lists[h] : AddBefore(h, k, n)
  \/ \E h \in Heads, n \in Elems : PriorityInsert(h, n)
  \/ \E h \in Heads : \E k \in DOMAIN lists[h] : RemoveGlthread(h, k)
  \/ \E h \in Heads : DequeueFirst(h)
  \/ \E h \in Heads : DeleteList(h)
  \/ \E h \in Heads : WalkStart(h)
  \/ WalkOn

Spec == Init /\ [][Next]_vars

------------------------------------------------------------------------------
(* Properties *)

\* After any calls the pointers spell exactly the sequences the callers mean,
\* in both directions, and a node looks unqueued exactly when it is on no list.
\* A loop whose body removes the current node, or others behind and beyond, but
\* not the very next one, visits every node that stays; if the next one is
\* removed the loop ends with it.
ListsSound ==
  /\ \A h \in Heads :
       /\ Follow(Mem, h) = lists[h] /\ left[h] = Null
       /\ \A k \in DOMAIN lists[h] : left[lists[h][k]] = IF k = 1 THEN h ELSE lists[h][k - 1]
  /\ \A n \in Elems : Queued(Mem, n) <=> n \in Listed
  /\ walk.on # Null /\ walk.next = Null /\ ~walk.cut => walk.meant \subseteq walk.seen
=============================================================================
