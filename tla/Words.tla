------------------------------- MODULE Words -------------------------------
(***************************************************************************)
(* Machine words and small values (bitfeld.h, rotate.h, loopvalue.h,       *)
(* tribool.h).  A word is the set of the positions of its bits that are 1; *)
(* an operator whose result depends on the type takes the type's number of *)
(* bits, WS::bits<T>(), or of values.                                      *)
(***************************************************************************)
EXTENDS Integers, FiniteSetsExt

all_bits_mask(width) == 0 .. width - 1

Union(l, r) == l \cup r
Intersect(l, r) == l \cap r
Invert(r, width) == all_bits_mask(width) \ r
Without(l, r) == l \ r

-----------------------------------------------------------------------------
(***************************************************************************)
(* The lowest bit of a word from a position on, and the other bits.  There *)
(* is no first bit once the position has left the word.                    *)
(***************************************************************************)

NoBits == [first_bit |-> {}, rest |-> {}]

bitfeld_split(bits, position) ==
  LET from == {b \in bits : b >= position}
  IN IF from = {} THEN NoBits ELSE [first_bit |-> {Min(from)}, rest |-> bits \ {Min(from)}]

split_bits(bits) == bitfeld_split(bits, 0)
getRest(s) == IF s.first_bit = {} THEN NoBits ELSE bitfeld_split(s.rest, Max(s.first_bit) + 1)
getValue(s) == s.first_bit \cup s.rest
is_multibit(s) == s.first_bit # {} /\ s.rest # {}

-----------------------------------------------------------------------------
(***************************************************************************)
(* Turning the bits in a circle.  A shift by the whole width, which occurs *)
(* whenever the turn is a multiple of the width, is undefined for the      *)
(* types from int upwards: the processor shifts by nothing, a compiler     *)
(* that evaluates it may give zero.  The results are therefore sets.       *)
(***************************************************************************)

Shifted(bits, n, width) == {b + n : b \in bits} \cap all_bits_mask(width)
ShiftsBy(bits, n, width) ==
  IF n \in {0 - width, width} THEN {bits, {}} ELSE {Shifted(bits, n, width)}

TurnedLeft(bits, n, width) ==
  IF bits = {} THEN {{}}
  ELSE {Shifted(bits, n % width, width) \cup v2 : v2 \in ShiftsBy(bits, (n % width) - width, width)}

TurnedRight(bits, n, width) ==
  IF bits = {} THEN {{}}
  ELSE {Shifted(bits, 0 - (n % width), width) \cup v2 : v2 \in ShiftsBy(bits, width - (n % width), width)}

rotl(bits, n, width) == IF n < 0 THEN TurnedRight(bits, 0 - n, width) ELSE TurnedLeft(bits, n, width)
rotr(bits, n, width) == IF n < 0 THEN TurnedLeft(bits, 0 - n, width) ELSE TurnedRight(bits, n, width)

-----------------------------------------------------------------------------
(***************************************************************************)
(* loopvalue runs from start_wert to ende_wert, both included; values is   *)
(* the number of values of its unsigned type, where it overflows.          *)
(***************************************************************************)

loopvalue(start, ende, defaultdirection) ==
  [i |-> start, start_wert |-> start, ende_wert |-> ende, valid |-> TRUE,
   inc |-> IF defaultdirection THEN ~(ende < start) ELSE ende < start]

\* Faulty: the loop ends when it arrives at its last value.
MutantNext(l, values) ==
  LET i == (IF l.inc THEN l.i + 1 ELSE l.i - 1) % values
  IN [l EXCEPT !.i = i, !.valid = i # l.ende_wert]

next(l, values) ==
  IF l.i = l.ende_wert THEN [l EXCEPT !.valid = FALSE]
  ELSE [l EXCEPT !.i = (IF l.inc THEN @ + 1 ELSE @ - 1) % values]

end(l) == [l EXCEPT !.i = l.ende_wert, !.valid = FALSE]

\* Values with other bounds or another direction are not compared: an exception.
MayCompare(l, r) == l.start_wert = r.start_wert /\ l.ende_wert = r.ende_wert /\ l.inc = r.inc
Same(l, r) == l.i = r.i /\ l.valid = r.valid

-----------------------------------------------------------------------------
(***************************************************************************)
(* tribool: false, true, or not valid, which is no bool.                   *)
(***************************************************************************)

InvalidTribool == 255
tribool(b) == IF b THEN 1 ELSE 0
valid(v) == v \in {0, 1}
IsTrue(v) == valid(v) /\ v = 1
IsNotTrue(v) == valid(v) /\ v = 0
=============================================================================
