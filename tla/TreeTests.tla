----------------------------- MODULE TreeTests -----------------------------
(***************************************************************************)
(* The unit tests of WS::tree_t (UT_Tree.cpp) as scripts over the          *)
(* operators of TreeNodes: add() and remove() with the whole of balance(). *)
(***************************************************************************)
EXTENDS TreeNodes, Sequences, SequencesExt

\* What an iterator meets from a node on.
RECURSIVE Walk(_, _, _)
Walk(t, n, side) == IF n = NoNode THEN <<>> ELSE <<n>> \o Walk(t, Following(t, n, side), side)

Fresh == [tree |-> NoTree, set |-> {}, removed |-> FALSE]

RECURSIVE Settled(_, _)
Settled(t, n) == IF n = NoNode THEN t ELSE LET b == Balanced(t, n) IN Settled(b.tree, b.node)

Removed(w, v) ==
  IF w.tree.root = NoNode \/ find(w.tree, w.tree.root, v) = NoNode THEN [w EXCEPT !.removed = FALSE]
  ELSE LET r == remove(w.tree, v)
       IN [w EXCEPT !.tree = Settled(r.tree, r.node), !.set = @ \ {v}, !.removed = r.done]

\* A tree to which values are added one after the other.
RECURSIVE Grown(_)
Grown(values) ==
  IF values = <<>> THEN NoTree
  ELSE LET v == Last(values) IN Settled(add(Grown(Front(values)), v), v)

Do(w, s) ==
  CASE s[1] = "add"        -> [w EXCEPT !.tree = Settled(add(@, s[2]), s[2]), !.set = @ \cup {s[2]}]
    [] s[1] = "_add"       -> [w EXCEPT !.tree = add(@, s[2]), !.set = @ \cup {s[2]}]
    [] s[1] = "rotate"     -> [w EXCEPT !.tree = rotate(@, s[2], s[3])]
    [] s[1] = "remove"     -> Removed(w, s[2])
    [] s[1] = "removeRoot" -> Removed(w, w.tree.root)
    [] s[1] = "reset"      -> Fresh
    [] OTHER               -> w

Negated(values) == [i \in DOMAIN values |-> 0 - values[i]]

Check(w, s) ==
  CASE s[1] = "same"     -> IsTreeOf(w.tree, w.set)
    [] s[1] = "balanced" -> is_balanced(w.tree, w.tree.root)
    [] s[1] = "removed"  -> w.removed = s[2]
    [] s[1] = "empty"    -> w.tree.root = NoNode
    [] s[1] = "mirrored" -> Walk(w.tree, First(w.tree, "left"), "left") = Negated(Walk(s[2], First(s[2], "right"), "right"))
    [] OTHER             -> TRUE

-----------------------------------------------------------------------------
(***************************************************************************)
(* The tests.                                                              *)
(***************************************************************************)

Each(values, steps(_)) == FlattenSeq([i \in DOMAIN values |-> steps(values[i])])

added(v) == <<<<"add", v>>>>
checked(v) == <<<<"add", v>>, <<"same">>, <<"balanced">>>>
taken(v) == <<<<"remove", v>>, <<"removed", TRUE>>, <<"balanced">>>>

vec == <<50, 30, 100, 30, 70, 80, 90, 110, 120, 130, 140, 150, 73, 76, 78, 20, 10, 15>>
OneToEight == <<1, 2, 3, 4, 5, 6, 7, 8>>

add_some == Each(vec, checked) \o <<<<"reset">>>> \o Each(vec, checked)

\* A tree with the reversed comparator holds the values as if they were negative.
iterator == Each(vec, added) \o <<<<"mirrored", Grown(Negated(vec))>>>>

riterator == Each(vec, added) \o <<<<"same">>>>

move_rightleft ==
  <<<<"_add", 10>>, <<"_add", 20>>, <<"rotate", 10, "right">>, <<"same">>, <<"rotate", 20, "left">>, <<"same">>,
    <<"_add", 15>>, <<"same">>, <<"rotate", 10, "right">>, <<"same">>, <<"rotate", 20, "left">>, <<"same">>,
    <<"rotate", 20, "left">>, <<"same">>, <<"rotate", 15, "right">>, <<"same">>>>

trace_tree ==
  Each(<<5, 10, 3, 7>>, checked) \o Each(<<8, 9, 15, 20>>, LAMBDA v : <<<<"_add", v>>>> \o checked(v))

trace_tree2 == Each(<<1, 2>>, checked) \o <<<<"_add", 3>>>> \o Each(<<3, 4, 5>>, checked) \o <<<<"_add", 6>>>> \o checked(6)

remove_tree_1 ==
  <<<<"remove", 5>>, <<"removed", FALSE>>, <<"add", 5>>>> \o taken(5) \o Each(<<4, 5>>, added) \o Each(<<5, 4>>, taken)
    \o Each(<<4, 5>>, added) \o Each(<<4, 5>>, taken)

remove_tree_2 == Each(OneToEight, added) \o Each(OneToEight, LAMBDA v : <<<<"balanced">>, <<"removeRoot">>>>) \o <<<<"empty">>>>

remove_tree_3 == Each(OneToEight, added) \o <<<<"balanced">>>> \o Each(OneToEight, taken)

-----------------------------------------------------------------------------
Scripts == <<add_some, iterator, riterator, move_rightleft, trace_tree, trace_tree2, remove_tree_1, remove_tree_2, remove_tree_3>>
=============================================================================
