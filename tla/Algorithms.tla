----------------------------- MODULE Algorithms -----------------------------
(***************************************************************************)
(* The data structures and pure functions of the library, and the unit     *)
(* tests of the repository, side by side.  They share no state: a          *)
(* behaviour is one of one part, chosen at the start.                      *)
(***************************************************************************)
EXTENDS Tree, Reading, Numbers, PtrArray, UnitTests

VARIABLE part

vars == <<part, treeVars, readingVars, numbersVars, ptrArrayVars, testVars>>

\* Where the part that is not chosen stays.
NoTest == suite = "auto_ptr" /\ test = 1
NoForm == form = "text"
NoNumber == numbering = "bits" /\ number.of = {}
NoArray == array = NullArray(Min(Sizes))

Init ==
  /\ part \in {"tree", "reading", "numbers", "array", "tests"}
  /\ TreeInit
  /\ ReadingInit /\ (part # "reading" => NoForm)
  /\ NumbersInit /\ (part # "numbers" => NoNumber)
  /\ PtrArrayInit /\ (part # "array" => NoArray)
  /\ TestsInit /\ (part # "tests" => NoTest)

TreeStep == part = "tree" /\ TreeNext /\ UNCHANGED <<part, readingVars, numbersVars, ptrArrayVars, testVars>>
Turns == part = "tree" /\ Balance /\ UNCHANGED <<part, readingVars, numbersVars, ptrArrayVars, testVars>>
Read == part = "reading" /\ ReadingNext /\ UNCHANGED <<part, treeVars, numbersVars, ptrArrayVars, testVars>>
Count == part = "numbers" /\ NumbersNext /\ UNCHANGED <<part, treeVars, readingVars, ptrArrayVars, testVars>>
Point == part = "array" /\ PtrArrayNext /\ UNCHANGED <<part, treeVars, readingVars, numbersVars, testVars>>
RunTest == part = "tests" /\ TestStep /\ UNCHANGED <<part, treeVars, readingVars, numbersVars, ptrArrayVars>>

Next == TreeStep \/ Read \/ Count \/ Point \/ RunTest

\* balance() is a loop of one thread, which goes on.
Spec == Init /\ [][Next]_vars /\ WF_vars(Turns)

-----------------------------------------------------------------------------
\* What the parsing functions read is what was written, and every unit test of
\* the repository that is modelled passes.
AgreesWithReference ==
  CASE part = "reading" -> ReadsWhatIsWritten
    [] part = "tests"   -> TestsPass
    [] OTHER            -> TRUE
=============================================================================
