------------------------------ MODULE AvlTree ------------------------------
(***************************************************************************)
(* The AVL tree with parent pointers (Tree/avl.c) that holds the LSP       *)
(* databases and TED. A node is a record of pointers, NULL is 0; rotations *)
(* and rebalancing are written once for both sides. "members" is what the  *)
(* callers inserted, which the tree itself does not keep.                  *)
(***************************************************************************)
EXTENDS Integers, Sequences, FiniteSets

CONSTANTS Nodes, \* the nodes, positive numbers
          KeyOf  \* what cmp_fn compares

VARIABLES tree, members
vars == <<tree, members>>

Side == {"left", "right"}
Other(s) == CHOOSE o \in Side : o # s
Sign(s) == IF s = "left" THEN -1 ELSE 1  \* balance = height(right) - height(left)

Blank == [left |-> 0, right |-> 0, parent |-> 0, balance |-> 0]  \* INIT_NODE
\* What a removed node still holds is read by nobody: insertion blanks it
Cleared(t, x) == [t EXCEPT !.n[x] = Blank]

\* avltree_init
Init ==
  /\ tree = [root |-> 0, first |-> 0, last |-> 0, height |-> -1,
             n |-> [x \in Nodes |-> Blank]]
  /\ members = {}

SetParent(t, p, x) == IF x = 0 THEN t ELSE [t EXCEPT !.n[x].parent = p]
Balance(t, b, x) == [t EXCEPT !.n[x].balance = b]
SideOf(t, p, x) == IF t.n[p].left = x THEN "left" ELSE "right"
Replace(t, p, x, y) == \* y takes the place of x under p, or as the root
  IF p = 0 THEN [t EXCEPT !.root = y] ELSE [t EXCEPT !.n[p][SideOf(t, p, x)] = y]

RECURSIVE End(_, _, _), Climb(_, _, _)
End(t, x, s) == IF t.n[x][s] = 0 THEN x ELSE End(t, t.n[x][s], s)  \* get_first, get_last
Climb(t, x, s) ==
  LET p == t.n[x].parent IN IF p # 0 /\ t.n[p][s] = x THEN Climb(t, p, s) ELSE p
\* avltree_next and avltree_prev: the neighbour of x in order, on the side s
Step(t, x, s) == IF t.n[x][s] # 0 THEN End(t, t.n[x][s], Other(s)) ELSE Climb(t, x, s)

\* rotate_left, rotate_right: p goes down to its side s
Rotate(t, p, s) ==
  LET o   == Other(s)
      q   == t.n[p][o]
      c   == t.n[q][s]
      top == SetParent(SetParent(Replace(t, t.n[p].parent, p, q), t.n[p].parent, q), q, p)
  IN SetParent([top EXCEPT !.n[p][o] = c, !.n[q][s] = p], p, c)

\* The heavy side s of x has a child that leans the other way: two rotations
DoubleRotate_once(t, x, s) == Rotate(t, x, Other(s))  \* mutant: the child is not rotated first
DoubleRotate(t, x, s) ==
  LET y == t.n[x][s]
      z == t.n[y][Other(s)]
      b == t.n[z].balance
      balanced == Balance(Balance(Balance(t, IF b = Sign(s) THEN -b ELSE 0, x),
                                  IF b = -Sign(s) THEN -b ELSE 0, y), 0, z)
  IN Rotate(Rotate(balanced, y, s), x, Other(s))

SingleRotate(t, x, s) == Rotate(Balance(Balance(t, 0, x), 0, t.n[x][s]), x, Other(s))

------------------------------------------------------------------------------
\* do_lookup: [found, parent, unbalanced, side], unbalanced being the lowest
\* node on the path that is not balanced, or the root
RECURSIVE Walk(_, _, _, _)
Walk(t, x, key, r) ==
  IF x = 0 THEN r
  ELSE LET here == [r EXCEPT !.unbalanced = IF t.n[x].balance # 0 THEN x ELSE @]
           s    == IF KeyOf[x] > key THEN "left" ELSE "right"
       IN IF KeyOf[x] = key THEN [here EXCEPT !.found = x]
          ELSE Walk(t, t.n[x][s], key, [here EXCEPT !.parent = x, !.side = s])
Lookup(t, key) ==
  Walk(t, t.root, key, [found |-> 0, parent |-> 0, unbalanced |-> t.root, side |-> "right"])

RECURSIVE Lean(_, _, _)
Lean(t, x, top) ==  \* the balances from the new leaf x up to top
  LET p == t.n[x].parent
      u == Balance(t, t.n[p].balance + Sign(SideOf(t, p, x)), p)
  IN IF p = top THEN u ELSE Lean(u, p, top)

Linked(t, node, at) ==
  LET clean == [t EXCEPT !.n[node].parent = at.parent,
                         !.first = IF at.side = "left" /\ at.parent = @ THEN node ELSE @,
                         !.last = IF at.side = "right" /\ at.parent = @ THEN node ELSE @]
  IN [clean EXCEPT !.n[at.parent][at.side] = node]

Rebalanced(t, x) ==
  LET b == t.n[x].balance
      s == IF b > 0 THEN "right" ELSE "left"
  IN CASE b \in {-1, 1} -> [t EXCEPT !.height = @ + 1]
       [] b = 0         -> t
       [] OTHER         -> IF t.n[t.n[x][s]].balance = Sign(s) THEN SingleRotate(t, x, s)
                           ELSE DoubleRotate(t, x, s)

\* avltree_insert; a node whose key is present is not inserted
Insert(node) ==
  LET at == Lookup(tree, KeyOf[node])
      t0 == Cleared(tree, node)
  IN /\ node \notin members
     /\ IF at.found # 0 THEN UNCHANGED vars
        ELSE /\ members' = members \cup {node}
             /\ tree' = IF at.parent = 0
                        THEN [t0 EXCEPT !.root = node, !.first = node, !.last = node, !.height = @ + 1]
                        ELSE Rebalanced(Lean(Linked(t0, node, at), node, at.unbalanced),
                                        at.unbalanced)

------------------------------------------------------------------------------
\* The loop at the end of avltree_remove: the side s of x has become lower
RECURSIVE Lower(_, _, _)
Lower(t, x, s) ==
  IF x = 0 THEN [t EXCEPT !.height = @ - 1]
  ELSE LET p    == t.n[x].parent
           ps   == IF p # 0 THEN SideOf(t, p, x) ELSE "right"
           o    == Other(s)
           u    == Balance(t, t.n[x].balance + Sign(o), x)
           y    == t.n[x][o]
       IN CASE u.n[x].balance = 0       -> Lower(u, p, ps)
            [] u.n[x].balance = Sign(o) -> u
            [] OTHER ->
               CASE t.n[y].balance = 0 ->
                      Rotate(Balance(Balance(u, Sign(o), x), -Sign(o), y), x, s)
                 [] t.n[y].balance = Sign(o) -> Lower(SingleRotate(u, x, o), p, ps)
                 [] OTHER                    -> Lower(DoubleRotate(u, x, o), p, ps)

\* avltree_remove: the successor takes the place of a node with two children
Remove(node) ==
  LET t     == tree
      l     == t.n[node].left
      r     == t.n[node].right
      up    == t.n[node].parent
      next  == IF l = 0 THEN r ELSE IF r = 0 THEN l ELSE End(t, r, "left")
      ends  == [t EXCEPT !.first = IF @ = node THEN Step(t, node, "right") ELSE @,
                         !.last = IF @ = node THEN Step(t, node, "left") ELSE @]
      out   == Replace(ends, up, node, next)
      heir  == SetParent([out EXCEPT !.n[next].left = l,
                                     !.n[next].balance = t.n[node].balance], next, l)
      deep  == LET p == t.n[next].parent
                   x == t.n[next].right
               IN SetParent(SetParent([heir EXCEPT !.n[next].parent = up, !.n[p].left = x,
                                                   !.n[next].right = r], next, r), p, x)
  IN /\ node \in members /\ members' = members \ {node}
     /\ tree' = Cleared(
                  CASE l = 0 \/ r = 0 ->
                         Lower(SetParent(out, up, next), up,
                               IF up # 0 THEN SideOf(t, up, node) ELSE "right")
                    [] next = r -> Lower(SetParent(heir, up, next), next, "right")
                    [] OTHER    -> Lower(deep, t.n[next].parent, "left"), node)

\* avltree_replace, with a node that compares equal
Exchange(old, new) ==
  LET t == tree
      u == Replace(t, t.n[old].parent, old, new)
      v == SetParent(SetParent(u, new, t.n[old].left), new, t.n[old].right)
  IN /\ old \in members /\ new \notin members /\ KeyOf[new] = KeyOf[old]
     /\ members' = (members \ {old}) \cup {new}
     /\ tree' = Cleared([v EXCEPT !.first = IF @ = old THEN new ELSE @,
                                  !.last = IF @ = old THEN new ELSE @, !.n[new] = v.n[old]], old)

Next ==
  \/ \E x \in Nodes : Insert(x)
  \/ \E x \in Nodes : Remove(x)
  \/ \E x, y \in Nodes : Exchange(x, y)

Spec == Init /\ [][Next]_vars

------------------------------------------------------------------------------
(* Properties *)

RECURSIVE Height(_, _), Walked(_, _)
Height(t, x) ==
  IF x = 0 THEN -1
  ELSE LET l == Height(t, t.n[x].left)
           r == Height(t, t.n[x].right)
       IN 1 + IF l > r THEN l ELSE r
Walked(t, x) == IF x = 0 THEN << >> ELSE <<x>> \o Walked(t, Step(t, x, "right"))

\* After any insertions, removals and replacements the iteration from first to
\* last visits exactly the members, by key, forwards and backwards; every
\* member is found by its key; parents agree with children; every balance is
\* the true difference of heights and at most 1; and the height is the height.
TreeSound ==
  LET t == tree
      w == Walked(t, t.first)
  IN /\ {w[k] : k \in DOMAIN w} = members /\ Len(w) = Cardinality(members)
     /\ \A k \in 1..(Len(w) - 1) : KeyOf[w[k]] < KeyOf[w[k + 1]] /\ Step(t, w[k + 1], "left") = w[k]
     /\ w # << >> => t.last = w[Len(w)]
     /\ w = << >> => t.root = 0 /\ t.first = 0 /\ t.last = 0
     /\ \A x \in members : Lookup(t, KeyOf[x]).found = x
     /\ \A x \in members : \A s \in Side : t.n[x][s] # 0 => t.n[t.n[x][s]].parent = x
     /\ \A x \in members : /\ t.n[x].balance = Height(t, t.n[x].right) - Height(t, t.n[x].left)
                           /\ t.n[x].balance \in -1..1
     /\ t.height = Height(t, t.root)
=============================================================================
