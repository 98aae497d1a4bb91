------------------------------ MODULE Numbers ------------------------------
(***************************************************************************)
(* Words and loop values in use: the bits of a word told one after the     *)
(* other, a value that runs to its end, and a word that is turned left and *)
(* right again and again.                                                  *)
(***************************************************************************)
EXTENDS Words, Sequences

CONSTANTS
  Width,     \* the bits of a word
  MaxTurn    \* how far a word is turned in all, to either side

\* 2 ^ Width is a number, which the provers do not find out from Width.
ASSUME NumbersAssumption == Width \in Nat \ {0} /\ MaxTurn \in Nat /\ 2 ^ Width \in Nat \ {0}

VARIABLES numbering, number, told

numbersVars == <<numbering, number, told>>

ByWidth == 2 ^ Width   \* the values of a type with that many bits

NumbersInit ==
  /\ told = <<>>
  /\ \/ /\ numbering = "bits"
        /\ \E w \in SUBSET all_bits_mask(Width) : number = [of |-> w, at |-> split_bits(w)]
     \/ /\ numbering = "loop"
        /\ \E s, e \in 0 .. ByWidth - 1, d \in BOOLEAN : number = loopvalue(s, e, d)
     \/ /\ numbering = "turn"
        /\ \E w \in SUBSET all_bits_mask(Width) : number = [of |-> w, word |-> w, by |-> 0]

\* ++ on the iterator of a bitfeld that is not at its end.
NextBit ==
  /\ numbering = "bits" /\ number.at.first_bit # {}
  /\ told' = Append(told, number.at.first_bit)
  /\ number' = [number EXCEPT !.at = getRest(@)]
  /\ UNCHANGED numbering

NextValue ==
  /\ numbering = "loop" /\ number.valid
  /\ told' = Append(told, number.i)
  /\ number' = next(number, ByWidth)
  /\ UNCHANGED numbering

Turn(n, left) ==
  /\ numbering = "turn"
  /\ LET by == IF left THEN number.by + n ELSE number.by - n
     IN /\ by \in 0 - MaxTurn .. MaxTurn
        /\ \E w \in IF left THEN rotl(number.word, n, Width) ELSE rotr(number.word, n, Width) :
             number' = [number EXCEPT !.word = w, !.by = by]
  /\ UNCHANGED <<numbering, told>>

NumbersNext == NextBit \/ NextValue \/ \E n \in 0 - MaxTurn .. MaxTurn, left \in BOOLEAN : Turn(n, left)

\* For a program that has the number alone.
NumbersSpec == NumbersInit /\ [][NumbersNext]_numbersVars

-----------------------------------------------------------------------------
\* The iterator of a bitfeld tells each bit that is set once, from the lowest
\* to the highest, also the highest bit of the type, whose successor is zero;
\* what is left is always the rest of the word (bitfeld.h:33, 55, 69).
BitsOnceAscending ==
  LET gone == UNION {told[n] : n \in DOMAIN told}
      left == number.of \ gone
  IN /\ getValue(number.at) = left
     /\ \A n \in DOMAIN told : \A b \in told[n], c \in left : b < c
     /\ is_multibit(number.at) <=> Cardinality(left) > 1
     /\ number.at.first_bit = {} <=> left = {}

\* loopvalue tells every value from its start to its end once, also where the
\* type overflows on the way or has no value behind the end, and equals end()
\* only when it has told them all (loopvalue.h:47, 60, 80).
EachValueOnce ==
  LET start == number.start_wert
      ende == number.ende_wert
      distance == (IF number.inc THEN ende - start ELSE start - ende) % ByWidth
  IN /\ \A n \in DOMAIN told : told[n] = (IF number.inc THEN start + n - 1 ELSE start + 1 - n) % ByWidth
     /\ Len(told) = distance + 1 <=> ~number.valid
     /\ Same(number, end(number)) <=> ~number.valid

\* However often a word is turned to the left and to the right, it has been
\* turned by the sum: rotl and rotr undo each other, negative turns go the
\* other way, turns by the width and more go round, and a shift that is
\* undefined changes nothing (rotate.h:50, 63).
TurnsAddUp == number.word = {(b + number.by) % Width : b \in number.of}

NumbersAreExact ==
  CASE numbering = "bits" -> BitsOnceAscending [] numbering = "loop" -> EachValueOnce [] numbering = "turn" -> TurnsAddUp
=============================================================================
