----------------------------- MODULE UnitTests -----------------------------
(***************************************************************************)
(* The unit tests of the repository, run against the models.  A module of  *)
(* tests has Scripts, each the sequence of steps of one TEST_METHOD, Do,   *)
(* which takes a world to the world after a step, and Check, what the test *)
(* asserts there.  A behaviour is one test.                                *)
(***************************************************************************)
EXTENDS Integers, Sequences

VARIABLES suite, test, steps, world   \* the steps that the test has left

testVars == <<suite, test, steps, world>>

Suites == {"auto_ptr", "Signal", "Tree", "parse", "XML", "words"}

AutoPtr == INSTANCE AutoPtrTests WITH
  Vars <- {"p", "q", "r", "s", "c1", "c2", "c3"}, Tmp <- "t", Tmp2 <- "u",
  Objects <- {"a", "b", "c", "d", "A", "B", "C", "D"}, FromThis <- {"A", "B", "C", "D"},
  NoObject <- "-", NoBlock <- 0, Blocks <- 1 .. 10, Wrap <- 256

Signal == INSTANCE SignalTests WITH MaxId <- 15, DefaultPrio <- 255

TreeT == INSTANCE TreeTests WITH NoNode <- 0

\* The tests of pure functions: their steps are what they assert.
Parse == INSTANCE ParseTests
Words_ == INSTANCE WordTests

Scripts(s) ==
  CASE s = "auto_ptr" -> AutoPtr!Scripts [] s = "Signal" -> Signal!Scripts [] s = "Tree" -> TreeT!Scripts
    [] s = "parse" -> Parse!ParseScripts [] s = "XML" -> Parse!XmlScripts
    [] s = "words" -> Words_!Scripts

Start(s) ==
  CASE s = "auto_ptr" -> AutoPtr!NewHeap [] s = "Signal" -> Signal!Fresh [] s = "Tree" -> TreeT!Fresh
    [] OTHER -> "nothing"

Do(s, w, step) ==
  CASE s = "auto_ptr" -> AutoPtr!Do(w, step)
    [] s = "Signal"   -> Signal!Do(w, step)
    [] s = "Tree"     -> TreeT!Do(w, step)
    [] OTHER          -> w

Check(s, w, step) ==
  CASE s = "auto_ptr" -> AutoPtr!Check(w, step)
    [] s = "Signal"   -> Signal!Check(w, step)
    [] s = "Tree"     -> TreeT!Check(w, step)
    [] OTHER          -> step

Here == Head(steps)

TestsInit ==
  /\ suite \in Suites
  /\ \E scripts \in {Scripts(suite)} : test \in DOMAIN scripts /\ steps = scripts[test]
  /\ world = Start(suite)

TestStep ==
  /\ steps # <<>>
  /\ world' = Do(suite, world, Here)
  /\ steps' = Tail(steps)
  /\ UNCHANGED <<suite, test>>

-----------------------------------------------------------------------------
\* Everything that the unit tests assert of the program holds of its model, and
\* no test touches a deleted object: auto_ptr.cpp, UT_Signal.cpp, UT_Tree.cpp,
\* UT_parse_helper.cpp, UT_XML.cpp, UT_bitfeld.cpp, UT_laufvar.cpp,
\* UT_rotate.cpp, tribool.cpp, ptr_array.cpp.
TestsPass ==
  /\ steps # <<>> => Check(suite, world, Here)
  /\ suite = "auto_ptr" => world.broken = {}
=============================================================================
