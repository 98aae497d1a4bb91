------------------------------ MODULE TreeNodes ------------------------------
(***************************************************************************)
(* The nodes of WS::tree_t (experimental/headeronly/tree.h).  A tree is a  *)
(* record of the root and of the nodes, each with its parent and its two   *)
(* branches; a node goes by its value.                                     *)
(***************************************************************************)
EXTENDS Integers

CONSTANT NoNode

NoTree == [root |-> NoNode, node |-> <<>>]

Sides == {"left", "right"}
other(side) == IF side = "left" THEN "right" ELSE "left"

Nodes(t) == DOMAIN t.node

-----------------------------------------------------------------------------
(***************************************************************************)
(* Questions about a branch, NoNode when it is empty.                      *)
(***************************************************************************)

weight(t, n) ==
  LET w[m \in Nodes(t) \cup {NoNode}] == IF m = NoNode THEN 0 ELSE 1 + w[t.node[m].left] + w[t.node[m].right]
  IN w[n]

deep(t, n) ==
  LET d[m \in Nodes(t) \cup {NoNode}] ==
        IF m = NoNode THEN 0
        ELSE 1 + (IF d[t.node[m].left] < d[t.node[m].right] THEN d[t.node[m].right] ELSE d[t.node[m].left])
  IN d[n]

is_balanced(t, n) == n # NoNode => deep(t, t.node[n].left) - deep(t, t.node[n].right) \in -1 .. 1

most(t, n, side) ==
  LET far[m \in Nodes(t)] == IF t.node[m][side] = NoNode THEN m ELSE far[t.node[m][side]]
  IN far[n]

\* The first ancestor that has n on the other side.
up(t, n, side) ==
  LET turns(m) == t.node[m].parent = NoNode \/ t.node[t.node[m].parent][side] # m
      above[m \in Nodes(t)] == IF turns(m) THEN t.node[m].parent ELSE above[t.node[m].parent]
  IN above[n]

find(t, n, v) ==
  LET in[m \in Nodes(t) \cup {NoNode}] ==
        IF m = NoNode \/ m = v THEN m ELSE in[IF m < v THEN t.node[m].right ELSE t.node[m].left]
  IN in[n]

\* begin() or rbegin(), and what operator++ goes on to.
First(t, side) == IF t.root = NoNode THEN NoNode ELSE most(t, t.root, side)

Following(t, n, side) ==
  LET next == t.node[n][other(side)]
  IN IF next # NoNode THEN most(t, next, side) ELSE up(t, n, other(side))

-----------------------------------------------------------------------------
(***************************************************************************)
(* Changes.  node_ptr() is the unique_ptr that holds a node: the root or a *)
(* branch of the parent.                                                   *)
(***************************************************************************)

\* The unique_ptr that holds n holds m instead.
Hang(t, n, m) ==
  LET p == t.node[n].parent
  IN IF p = NoNode THEN [t EXCEPT !.root = m]
     ELSE [t EXCEPT !.node[p][IF t.node[p].left = n THEN "left" ELSE "right"] = m]

SetParent(t, n, p) == IF n = NoNode THEN t ELSE [t EXCEPT !.node[n].parent = p]

\* _rotatefrom_: the branch of n on that side takes the place of n.
rotate(t, n, side) ==
  LET branch == t.node[n][side]
      inner == t.node[branch][other(side)]
  IN SetParent([Hang(t, n, branch) EXCEPT
         !.node[branch] = [@ EXCEPT !.parent = t.node[n].parent, ![other(side)] = n],
         !.node[n] = [@ EXCEPT !.parent = branch, ![side] = inner]], inner, n)

\* The node under which the new value belongs; the node of the value itself if
\* there is one.
Place(t, n, v) ==
  LET way(m) == IF v < m THEN "left" ELSE "right"
      under[m \in Nodes(t)] == IF v = m \/ t.node[m][way(m)] = NoNode THEN m ELSE under[t.node[m][way(m)]]
  IN under[n]

\* _add(), without balance()
add(t, v) ==
  LET p == IF t.root = NoNode THEN NoNode ELSE Place(t, t.root, v)
      leaf == [parent |-> p, left |-> NoNode, right |-> NoNode]
      g == [t EXCEPT !.node = [n \in DOMAIN @ \cup {v} |-> IF n = v THEN leaf ELSE @[n]]]
  IN IF p = v THEN t
     ELSE IF p = NoNode THEN [g EXCEPT !.root = v]
     ELSE [g EXCEPT !.node[p][IF v < p THEN "left" ELSE "right"] = v]

\* _too_heavy: the tree turned, and the node where balance() goes on.
TooHeavy(t, n, side) ==
  LET branch == t.node[n][side]
      inner == t.node[branch][other(side)]
  IN IF weight(t, t.node[branch][side]) < weight(t, inner)
     THEN [tree |-> rotate(rotate(t, branch, other(side)), n, side), node |-> inner]
     ELSE [tree |-> rotate(t, n, side), node |-> t.node[n].parent]

\* One turn of the loop of balance().  The difference of the weights is
\* unsigned: a lighter branch that is deeper counts as far too heavy.
Balanced(t, n) ==
  LET l == t.node[n].left
      r == t.node[n].right
      much(a, b) == weight(t, a) - weight(t, b) \notin {0, 1}
  IN IF deep(t, l) < deep(t, r) /\ much(r, l) THEN TooHeavy(t, n, "right")
     ELSE IF deep(t, r) < deep(t, l) /\ much(l, r) THEN TooHeavy(t, n, "left")
     ELSE [tree |-> t, node |-> t.node[n].parent]

\* The nodes below n, and the tree without some nodes.
Below(t, n) ==
  LET below[m \in Nodes(t) \cup {NoNode}] ==
        IF m = NoNode THEN {} ELSE {m} \cup below[t.node[m].left] \cup below[t.node[m].right]
  IN below[n]

CutOff(t, gone) == [t EXCEPT !.node = [n \in DOMAIN @ \ gone |-> @[n]]]

\* _exchange_cut_parent(): a terminal takes over the place, the parent and the
\* branches of n; what it held itself is deleted.
Exchange(t, n, terminal) ==
  LET cut == Hang(t, terminal, NoNode)
      at == cut.node[n]
      g == SetParent(SetParent([Hang(cut, n, terminal) EXCEPT !.node[terminal] = at], at.left, terminal), at.right, terminal)
  IN CutOff(g, (Below(cut, terminal) \cup {n}) \ {terminal})

\* Faulty: the outer end of the right branch instead of the inner one.
MutantPartner(t, n) ==
  LET l == t.node[n].left
      r == t.node[n].right
  IN IF deep(t, l) < deep(t, r) \/ (deep(t, l) = deep(t, r) /\ weight(t, l) < weight(t, r))
     THEN <<most(t, r, "right"), "left">>
     ELSE IF weight(t, r) # 0 THEN <<most(t, l, "right"), "left">> ELSE <<>>

\* The node remove() exchanges with the one it deletes, on the side of the
\* deeper branch: but the test of the left branch looks at the right one.
Partner(t, n) ==
  LET l == t.node[n].left
      r == t.node[n].right
  IN IF deep(t, l) < deep(t, r) \/ (deep(t, l) = deep(t, r) /\ weight(t, l) < weight(t, r))
     THEN <<most(t, r, "left"), "right">>
     ELSE IF weight(t, r) # 0 THEN <<most(t, l, "right"), "left">> ELSE <<>>

\* remove() of a node that is there: the tree, where balance() starts, the
\* ASSERTs that fail on the way, and the answer.
remove(t, n) ==
  LET at == t.node[n]
      partner == Partner(t, n)
      below == t.node[partner[1]][partner[2]]
      turned == IF below = NoNode THEN t ELSE rotate(t, partner[1], partner[2])
      held == turned.node[partner[1]]
  IN IF partner # <<>>
     THEN [tree |-> Exchange(turned, n, partner[1]),
           node |-> IF held.parent = n THEN partner[1] ELSE held.parent,
           failed |-> IF held.left = NoNode /\ held.right = NoNode THEN {} ELSE {"terminal"}, done |-> TRUE]
     ELSE IF at.left = NoNode /\ at.right = NoNode
     THEN [tree |-> CutOff(Hang(t, n, NoNode), {n}), node |-> at.parent, failed |-> {}, done |-> TRUE]
     ELSE [tree |-> t, node |-> NoNode, failed |-> {"no branch"}, done |-> FALSE]
-----------------------------------------------------------------------------
\* Which of two values an iterator from a side meets first, and what it meets
\* first of a set.
Precedes(v, w, side) == IF side = "left" THEN v < w ELSE w < v
Foremost(v, set, side) == IF set = {} THEN v = NoNode ELSE v \in set /\ \A w \in set \ {v} : Precedes(v, w, side)

\* The links agree in both directions, and the iterators meet the values of the
\* set in order, forward and backward: first the foremost, and after each value
\* the foremost of those behind it.
IsTreeOf(t, set) ==
  /\ Nodes(t) = set
  /\ \A n \in set, s \in Sides : t.node[n][s] # NoNode => t.node[t.node[n][s]].parent = n
  /\ t.root # NoNode => t.node[t.root].parent = NoNode
  /\ \A side \in Sides :
       /\ Foremost(First(t, side), set, side)
       /\ \A n \in set : Foremost(Following(t, n, side), {m \in set : Precedes(n, m, side)}, side)
=============================================================================
