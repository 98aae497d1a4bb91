-------------------------------- MODULE Tree --------------------------------
(***************************************************************************)
(* WS::tree_t (experimental/headeronly/tree.h), a search tree that turns   *)
(* its branches until they are balanced.                                   *)
(***************************************************************************)
EXTENDS TreeNodes, FiniteSets

CONSTANT TreeKeys

ASSUME TreeAssumption == TreeKeys \subseteq Int /\ IsFiniteSet(TreeKeys) /\ NoNode \notin TreeKeys

VARIABLES tree,
          balancing,  \* the node that balance() looks at, or NoNode
          stored,     \* the values that were added and not removed since
          failed      \* the ASSERTs of remove() that have failed

treeVars == <<tree, balancing, stored, failed>>

TreeInit == tree = NoTree /\ balancing = NoNode /\ stored = {} /\ failed = {}

Add(v) ==
  /\ balancing = NoNode
  /\ tree' = add(tree, v)
  /\ balancing' = v
  /\ stored' = stored \cup {v}
  /\ UNCHANGED failed

\* Faulty: the loop goes back to the root until every node is balanced.
MutantBalance ==
  /\ balancing # NoNode
  /\ LET b == Balanced(tree, balancing)
     IN /\ tree' = b.tree
        /\ balancing' = IF b.node = NoNode /\ \E n \in Nodes(b.tree) : ~is_balanced(b.tree, n) THEN b.tree.root ELSE b.node
  /\ UNCHANGED <<stored, failed>>

Balance ==
  /\ balancing # NoNode
  /\ LET b == Balanced(tree, balancing) IN tree' = b.tree /\ balancing' = b.node
  /\ UNCHANGED <<stored, failed>>

RemoveNode(v) ==
  /\ balancing = NoNode /\ tree.root # NoNode /\ find(tree, tree.root, v) = v
  /\ LET r == remove(tree, v)
     IN /\ tree' = r.tree /\ balancing' = r.node
        /\ stored' = IF r.done THEN stored \ {v} ELSE stored
        /\ failed' = failed \cup r.failed

TreeNext == Balance \/ \E v \in TreeKeys : Add(v) \/ RemoveNode(v)

\* For the instances that have the tree alone.
TreeSpec == TreeInit /\ [][TreeNext]_treeVars

-----------------------------------------------------------------------------
\* The terminal that remove() exchanges is a leaf: the ASSERT at tree.h:264.
TerminalIsLeaf == "terminal" \notin failed

\* As long as that ASSERT holds the tree is, after each turn of the loop of
\* balance(), a search tree of the values that were added and not removed, which
\* the iterators meet in order in both directions.
TreeIsItsSet == TerminalIsLeaf => IsTreeOf(tree, stored)

\* A tree whose balance() has ended is balanced at its root, as the tests assert
\* after each value they add (UT_Tree.cpp:91).  That is so for nine values and no
\* run checks it, since it is not for ten: added in the order 2, 1, 5, 4, 8, 7, 9,
\* 10, 6, 3 they leave branches of depth 2 and 4.
BalancedAtRest == balancing = NoNode => is_balanced(tree, tree.root)

\* The loop of balance() ends.
BalanceEnds == []<>(balancing = NoNode)
=============================================================================
