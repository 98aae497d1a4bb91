---------------------------- MODULE SignalTests ----------------------------
(***************************************************************************)
(* The combiners of WS::Signal (headeronly/combiner.h, combiner_last.h)    *)
(* and the unit tests of WS::Signal (UT_Signal.cpp) as scripts over the    *)
(* operators of SignalTable: one thread, so every operation is one step.   *)
(* A world is the table, the guard variables with the connection each      *)
(* holds, what the last emission called and returned, and whether the      *)
(* signal exists.                                                          *)
(***************************************************************************)
EXTENDS SignalTable, TLC

Fresh == [alive |-> TRUE, slots |-> NoSlots, guards |-> <<>>, blocks |-> <<>>, calls |-> <<>>, handled |-> FALSE]

-----------------------------------------------------------------------------
(***************************************************************************)
(* What a combiner makes of the calls, pairs of a connection and the value *)
(* it returned.  A std::optional is a sequence of at most one value.       *)
(***************************************************************************)

Values(calls) == {calls[i][2] : i \in DOMAIN calls}

combiner_and(calls) == IF calls = <<>> THEN <<>> ELSE <<FALSE \notin Values(calls)>>
combiner_or(calls) == IF calls = <<>> THEN <<>> ELSE <<TRUE \in Values(calls)>>
combiner_all(calls) == calls
combiner_last(calls, init_val) == IF calls = <<>> THEN init_val ELSE calls[Len(calls)][2]

-----------------------------------------------------------------------------
(***************************************************************************)
(* The steps.                                                              *)
(***************************************************************************)

Disconnect(w, g) ==
  IF g \notin DOMAIN w.guards THEN w
  ELSE [w EXCEPT !.slots = IF w.alive THEN Cut(@, w.guards[g]) ELSE @, !.guards = Cut(@, g)]

\* g = signal.connect(f, prio): the connection that g held ends afterwards.
Connect(w, g, f, prio) ==
  LET k == id_type(next_id(w.slots, prio), prio)
      old == Disconnect([w EXCEPT !.slots = Put(@, k, Entry(f, FALSE))], g)
  IN [old EXCEPT !.guards = Put(@, g, k)]

Unblock(w, b) ==
  IF b \notin DOMAIN w.blocks THEN w
  ELSE [w EXCEPT !.slots[w.blocks[b]].blocked = FALSE, !.blocks = Cut(@, b)]

\* b = g.block(): the connection that b blocked is unblocked afterwards.
Block(w, b, g) ==
  LET k == w.guards[g]
      old == Unblock([w EXCEPT !.slots[k].blocked = TRUE], b)
  IN [old EXCEPT !.blocks = Put(@, b, k)]

\* signal(...): every callback returns v, the break_at-th of them breaks the
\* emission; "handles" marks what is signalled as handled.
Emit(w, v, break_at) ==
  LET order == Emission(w.slots)
      called == IF break_at \in DOMAIN order THEN SubSeq(order, 1, break_at) ELSE order
  IN [w EXCEPT !.calls = [i \in DOMAIN called |-> <<called[i], v>>],
               !.handled = \E i \in DOMAIN called : w.slots[called[i]].fn = "handles"]

\* The number of callbacks of one priority: prio_callbacks[prio].size()
size(w, prio) == Cardinality(UsedIds(w.slots, prio))

Do(w, s) ==
  CASE s[1] = "connect"    -> Connect(w, s[2], s[3], s[4])
    [] s[1] = "disconnect" -> Disconnect(w, s[2])
    [] s[1] = "release"    -> [w EXCEPT !.guards = Cut(@, s[2])]
    [] s[1] = "block"      -> Block(w, s[2], s[3])
    [] s[1] = "unblock"    -> Unblock(w, s[2])
    [] s[1] = "emit"       -> Emit(w, s[2], s[3])
    [] s[1] = "destroy"    -> [w EXCEPT !.alive = FALSE, !.slots = NoSlots]
    [] OTHER               -> w

Check(w, s) ==
  CASE s[1] = "size"    -> size(w, s[2]) = s[3]
    [] s[1] = "and"     -> combiner_and(w.calls) = s[2]
    [] s[1] = "or"      -> combiner_or(w.calls) = s[2]
    [] s[1] = "last"    -> combiner_last(w.calls, FALSE) = s[2]
    [] s[1] = "all"     -> Len(combiner_all(w.calls)) = s[2] /\ Values(w.calls) \subseteq {s[3]}
    [] s[1] = "calls"   -> [i \in DOMAIN w.calls |-> w.slots[w.calls[i][1]].fn] = s[2]
    [] s[1] = "handled" -> w.handled = s[2]
    [] s[1] = "unknown" -> s[2] \notin DOMAIN w.slots
    [] s[1] = "gone"    -> ~w.alive
    [] s[1] = "true"    -> s[2]
    [] OTHER            -> TRUE

-----------------------------------------------------------------------------
(***************************************************************************)
(* The tests.  d is the default priority.                                  *)
(***************************************************************************)

d == DefaultPrio
true(b) == <<"true", b>>
calls(s) == [i \in DOMAIN s |-> <<i, s[i]>>]

UT_combiner_last ==
  <<true(combiner_last(<<>>, 6) = 6), true(combiner_last(<<>>, 0) = 0), true(combiner_last(calls(<<1, 2, 4, 5>>), 0) = 5)>>

UT_combiner_and ==
  <<true(combiner_and(calls(<<TRUE, TRUE, TRUE, TRUE>>)) = <<TRUE>>), true(combiner_and(calls(<<TRUE, TRUE, TRUE, FALSE>>)) = <<FALSE>>),
    true(combiner_and(calls(<<FALSE, TRUE, TRUE, TRUE>>)) = <<FALSE>>), true(combiner_and(<<>>) = <<>>)>>

UT_combiner_or ==
  <<true(combiner_or(calls(<<TRUE, TRUE, TRUE, TRUE>>)) = <<TRUE>>), true(combiner_or(calls(<<TRUE, TRUE, TRUE, FALSE>>)) = <<TRUE>>),
    true(combiner_or(calls(<<FALSE, TRUE, TRUE, TRUE>>)) = <<TRUE>>), true(combiner_or(calls(<<FALSE, FALSE, FALSE, FALSE>>)) = <<FALSE>>),
    true(combiner_or(<<>>) = <<>>)>>

FourConnections == <<<<"connect", 1, "foo1", d>>, <<"connect", 2, "foo2", d>>, <<"connect", 3, "foo3", d>>, <<"connect", 4, "foo4", d>>>>
FourGone == <<<<"disconnect", 4>>, <<"disconnect", 3>>, <<"disconnect", 2>>, <<"disconnect", 1>>>>

UT_Signal_combiner_and ==
  <<<<"emit", TRUE, 0>>, <<"and", <<>>>>>> \o FourConnections
  \o <<<<"emit", TRUE, 0>>, <<"and", <<TRUE>>>>, <<"emit", FALSE, 0>>, <<"and", <<FALSE>>>>>> \o FourGone
  \o <<<<"emit", TRUE, 0>>, <<"and", <<>>>>>>

UT_Signal_combiner_or ==
  <<<<"emit", TRUE, 0>>, <<"or", <<>>>>>> \o FourConnections
  \o <<<<"emit", TRUE, 0>>, <<"or", <<TRUE>>>>, <<"emit", FALSE, 0>>, <<"or", <<FALSE>>>>>> \o FourGone
  \o <<<<"emit", TRUE, 0>>, <<"or", <<>>>>>>

UT_Signal_standard_combinerlast ==
  <<<<"emit", TRUE, 0>>>> \o FourConnections
  \o <<<<"emit", TRUE, 0>>, <<"last", TRUE>>, <<"emit", FALSE, 0>>, <<"last", FALSE>>>> \o FourGone \o <<<<"emit", TRUE, 0>>>>

UT_disconnect_wrong_id == <<<<"unknown", <<d, 10>>>>>>

UT_Connection_multi_assign ==
  <<<<"size", d, 0>>, <<"connect", 1, "foo1", d>>, <<"size", d, 1>>, <<"connect", 1, "foo1", d>>, <<"size", d, 1>>,
    <<"connect", 1, "foo3", d>>, <<"size", d, 1>>>>

UT_id_type_lfdid_uberlauf == <<true(id_offset(0) = 1), true(id_offset(MaxId) = 0)>>

\* The guards of foo1 to foo4 end, the numbers 5 to 7 were released.
UT_Signal_own_disconnect_und_method_calling ==
  <<<<"emit", TRUE, 0>>>> \o FourConnections
  \o <<<<"connect", 5, "a", d>>, <<"release", 5>>, <<"connect", 6, "b", d>>, <<"release", 6>>, <<"connect", 7, "b", d>>, <<"release", 7>>,
       <<"emit", TRUE, 0>>, <<"last", TRUE>>, <<"calls", <<"foo1", "foo2", "foo3", "foo4", "a", "b", "b">>>>>> \o FourGone
  \o <<<<"emit", FALSE, 0>>, <<"last", FALSE>>, <<"calls", <<"a", "b", "b">>>>>>

UT_Signal_standard_void == <<<<"emit", TRUE, 0>>, <<"calls", <<>>>>>> \o FourConnections \o <<<<"emit", TRUE, 0>>, <<"emit", FALSE, 0>>>> \o FourGone \o <<<<"emit", TRUE, 0>>, <<"calls", <<>>>>>>

UT_Signal_standard_voidParameter ==
  <<<<"emit", TRUE, 0>>, <<"calls", <<>>>>, <<"connect", 1, "counts", d>>, <<"emit", TRUE, 0>>, <<"calls", <<"counts">>>>,
    <<"disconnect", 1>>, <<"emit", TRUE, 0>>, <<"calls", <<>>>>>>

UT_Signal_standard_all ==
  <<<<"emit", TRUE, 0>>, <<"all", 0, TRUE>>>> \o FourConnections
  \o <<<<"emit", TRUE, 0>>, <<"all", 4, TRUE>>, <<"emit", FALSE, 0>>, <<"all", 4, FALSE>>>> \o FourGone
  \o <<<<"emit", TRUE, 0>>, <<"all", 0, TRUE>>>>

UT_Signal_in_class_using ==
  <<<<"size", d, 0>>, <<"emit", TRUE, 0>>, <<"connect", 1, "lambda", d>>, <<"connect", 2, "bind", d>>, <<"connect", 3, "functor", d>>,
    <<"connect", 4, "operator", d>>, <<"size", d, 4>>, <<"emit", TRUE, 0>>, <<"calls", <<"lambda", "bind", "functor", "operator">>>>,
    <<"disconnect", 1>>, <<"size", d, 3>>, <<"emit", TRUE, 0>>, <<"calls", <<"bind", "functor", "operator">>>>>> \o FourGone
  \o <<<<"size", d, 0>>, <<"emit", TRUE, 0>>, <<"calls", <<>>>>>>

\* Functor and operator are called before the default priority.
UT_Signal_in_class_using_mit_prio ==
  <<<<"size", d, 0>>, <<"emit", TRUE, 0>>, <<"handled", FALSE>>, <<"connect", 1, "handles", d>>, <<"connect", 2, "bind", d>>,
    <<"connect", 3, "functor", 3>>, <<"connect", 4, "operator", 3>>, <<"size", d, 2>>, <<"size", 3, 2>>,
    <<"emit", TRUE, 0>>, <<"handled", TRUE>>, <<"calls", <<"functor", "operator", "handles", "bind">>>>, <<"disconnect", 1>>, <<"size", d, 1>>,
    <<"size", 3, 2>>, <<"emit", TRUE, 0>>, <<"handled", FALSE>>, <<"calls", <<"functor", "operator", "bind">>>>>> \o FourGone
  \o <<<<"size", d, 0>>, <<"size", 3, 0>>, <<"emit", TRUE, 0>>, <<"handled", FALSE>>>>

UT_Signal_in_class_using_block ==
  <<<<"connect", 1, "f1", d>>, <<"connect", 2, "f2", d>>, <<"connect", 3, "f3", d>>, <<"emit", TRUE, 0>>, <<"all", 3, TRUE>>,
    <<"block", "block2", 2>>, <<"emit", TRUE, 0>>, <<"all", 2, TRUE>>, <<"block", "block", 1>>, <<"emit", TRUE, 0>>, <<"all", 1, TRUE>>,
    <<"block", "block", 3>>, <<"emit", TRUE, 0>>, <<"calls", <<"f1">>>>, <<"unblock", "block2">>, <<"emit", TRUE, 0>>, <<"calls", <<"f1", "f2">>>>>>

UT_Signal_in_class_using_break_signaling ==
  <<<<"connect", 1, "f", d>>, <<"connect", 2, "f", d>>, <<"connect", 3, "f", d>>, <<"emit", TRUE, 0>>, <<"all", 3, TRUE>>,
    <<"emit", TRUE, 2>>, <<"all", 2, TRUE>>, <<"emit", TRUE, 0>>, <<"all", 3, TRUE>>>>

UT_Signal_destroy_with_connection ==
  <<<<"connect", 1, "f", d>>, <<"emit", TRUE, 0>>, <<"all", 1, TRUE>>, <<"destroy", 1>>, <<"gone", 1>>, <<"disconnect", 1>>>>

\* The priority is what lies above the bits of the number.
UT_Signal_id_t ==
  <<true(id_type(1, d) = <<d, 1>>), true(id_type(1, 1) = <<1, 1>>), true(id_type(207 * (MaxId + 1) + MaxId, d) = <<207, MaxId>>),
    true(~IdFits(207 * (MaxId + 1) + MaxId, 1)), true(~IdFits(207 * (MaxId + 1) + MaxId, 0)), true(IdFits(207 * (MaxId + 1) + MaxId, d))>>

UT_demo == <<<<"connect", 1, "handles", d>>, <<"emit", TRUE, 0>>, <<"handled", TRUE>>, <<"last", TRUE>>>>

-----------------------------------------------------------------------------
Scripts ==
  <<UT_combiner_last, UT_combiner_and, UT_combiner_or, UT_Signal_combiner_and,
    UT_Signal_combiner_or, UT_Signal_standard_combinerlast, UT_disconnect_wrong_id,
    UT_Connection_multi_assign, UT_id_type_lfdid_uberlauf,
    UT_Signal_own_disconnect_und_method_calling, UT_Signal_standard_void,
    UT_Signal_standard_voidParameter, UT_Signal_standard_all,
    UT_Signal_in_class_using, UT_Signal_in_class_using_mit_prio,
    UT_Signal_in_class_using_block, UT_Signal_in_class_using_break_signaling,
    UT_Signal_destroy_with_connection, UT_Signal_id_t, UT_demo>>
=============================================================================
