----------------------------- MODULE WordTests -----------------------------
(***************************************************************************)
(* The unit tests of bitfeld.h, loopvalue.h, rotate.h, tribool.h and       *)
(* Ptr_Array.h.  A test is a sequence of what it asserts or prints.        *)
(***************************************************************************)
EXTENDS Words, PtrWindow, SequencesExt

\* The word of a number.
Bits(v) == {b \in 0 .. 30 : (v \div 2 ^ b) % 2 = 1}

\* What an iterator tells from s to its end.
RECURSIVE Telling(_)
Telling(s) == IF s.first_bit = {} THEN <<>> ELSE <<s.first_bit>> \o Telling(getRest(s))
BitsOf(w) == Telling(split_bits(w))
Each(positions) == [n \in DOMAIN positions |-> {positions[n]}]

\* 2 + 8 + 16 + 0x8000'0000
Sample == {1, 3, 4, 31}

begin_end == <<BitsOf(Sample) = Each(<<1, 3, 4, 31>>), BitsOf(Bits(1 + 4 + 16)) = <<Bits(1), Bits(4), Bits(16)>>>>

RestOf(w) == getRest(split_bits(w))

multibit ==
  <<~is_multibit(split_bits({})), ~is_multibit(split_bits(Bits(4))), is_multibit(split_bits(Bits(4 + 32))),
    is_multibit(split_bits(Bits(1 + 4 + 16))), is_multibit(RestOf(Bits(1 + 4 + 16))), ~is_multibit(getRest(RestOf(Bits(1 + 4 + 16))))>>

falsche_iteration == <<BitsOf(Sample) \o <<{}>> = Each(<<1, 3, 4, 31>>) \o <<{}>>>>
range_based_for == <<BitsOf(Sample) = Each(<<1, 3, 4, 31>>)>>

split_bits_test ==
  LET w == {0, 2, 3, 7}
      second == RestOf(w)
      third == getRest(second)
      fourth == getRest(third)
  IN <<getValue(split_bits(w)) = w, split_bits(w).first_bit = Bits(1), getValue(second) = {2, 3, 7},
       second.first_bit = Bits(4), getValue(third) = {3, 7}, third.first_bit = Bits(8), getValue(fourth) = {7},
       fourth.first_bit = {7}, getValue(getRest(fourth)) = {}>>

bitfeld_mit_enum ==
  LET w == {0, 2, 32}
      again == split_bits(split_bits(w).rest)
      third == split_bits(again.rest)
  IN <<split_bits(w).first_bit = {0}, again.first_bit = {2}, third.first_bit = {32},
       split_bits(third.rest).first_bit = {}, BitsOf(w) = Each(<<0, 2, 32>>)>>

bitfeld_mit_unnamed_enum == <<BitsOf(Bits(1 + 2 + 8 + 32)) = <<Bits(1), Bits(2), Bits(8), Bits(32)>>>>
bitfeld_mit_unsigned_short_class_enum == bitfeld_mit_unnamed_enum
bitfeld_mit_strongtype == <<BitsOf(Bits(1 + 4 + 16)) = <<Bits(1), Bits(4), Bits(16)>>>>

union_bitfelder ==
  <<Union(Bits(5), Bits(12)) = Bits(13), Union(Bits(1 + 8), Bits(2 + 4)) = Bits(15), Union(Bits(1), {}) = Bits(1)>>
intersect_bitfelder ==
  <<Intersect(Bits(5), Bits(12)) = Bits(4), Intersect(Bits(1 + 8), Bits(2 + 4 + 8)) = Bits(8), Intersect(Bits(7), Bits(8)) = {}>>
invert_bitfeld == <<Invert(Bits(5), 16) = Bits(65530), Invert(Bits(9), 31) = Bits(2147483638)>>
cutoff_bitfeld == <<Without(Bits(65535), Bits(192)) = Bits(65343)>>

-----------------------------------------------------------------------------
(***************************************************************************)
(* rotate.h and tribool.h.                                                 *)
(***************************************************************************)

TurnedBack(w, n, width) == UNION {rotl(v, n, width) : v \in rotr(w, n, width)}

rotiere_bits ==
  LET v == {1, 3, 5, 7}   \* 0b10101010
      ll == {0} \cup (15 .. 19) \cup (28 .. 31) \cup {32, 34, 38, 39, 42, 43, 44, 46} \cup (48 .. 51) \cup (60 .. 63)
      shifts == {1, 2, 8, -1, -2, -8, 12, -144, 0}
  IN <<rotl(Bits(1), 2, 32) = {Bits(4)}, rotr(Bits(4), 2, 32) = {Bits(1)}, rotl(v, 2, 8) = {v}, rotr(v, 2, 8) = {v},
       rotl(v, 1, 8) = {{0, 2, 4, 6}}, \A n \in shifts : TurnedBack(v, n, 8) = {v},
       \A n \in shifts : TurnedBack(ll, n, 64) = {ll}>>

tribool_compare_invalid ==
  <<InvalidTribool # tribool(TRUE), InvalidTribool # tribool(FALSE), tribool(TRUE) # tribool(FALSE),
    IsNotTrue(tribool(FALSE)), IsTrue(tribool(TRUE)), ~valid(InvalidTribool),
    ~IsTrue(InvalidTribool) /\ ~IsNotTrue(InvalidTribool)>>
tribool_compare == <<tribool(TRUE) # tribool(FALSE), IsTrue(tribool(TRUE)), ~IsNotTrue(tribool(TRUE))>>
tribool_assign ==
  LET values == {tribool(TRUE), tribool(FALSE), InvalidTribool}
  IN <<\A assigned, other \in values : (assigned = other) = ((assigned = 1 <=> other = 1) /\ (assigned = 0 <=> other = 0))>>

-----------------------------------------------------------------------------
(***************************************************************************)
(* loopvalue.h.  A loop is taken step by step along the values it tells.   *)
(***************************************************************************)

At(l, i) == [l EXCEPT !.i = i]

\* The loop tells these values, of a type with so many, and no more.
Tells(l, told, values) ==
  /\ l.i = told[1] /\ l.valid
  /\ \A n \in 1 .. Len(told) - 1 : next(At(l, told[n]), values) = At(l, told[n + 1])
  /\ ~next(At(l, Last(told)), values).valid

Loop(start, ende, default, told) == Tells(loopvalue(start, ende, default), told, 256)
Up(a, b) == [k \in 1 .. b - a + 1 |-> a + k - 1]
Down(a, b) == [k \in 1 .. a - b + 1 |-> a - k + 1]

example1 == <<Loop(7, 5, TRUE, <<7, 6, 5>>)>>
example2 == <<Loop(255, 0, TRUE, Down(255, 0))>>
example3 == <<Loop(255, 0, FALSE, <<255, 0>>)>>
iterator_comp_exception == <<~MayCompare(loopvalue(7, 5, TRUE), loopvalue(7, 6, TRUE))>>
range_based_for_loop == <<Loop(2, 5, TRUE, <<2, 3, 4, 5>>), Loop(6, 5, TRUE, <<6, 5>>)>>

iterator ==
  LET l == loopvalue(3, 0, TRUE)
  IN <<Tells(l, <<3, 2, 1, 0>>, 256), \A k \in 0 .. 3 : MayCompare(At(l, k), end(l)) /\ ~Same(At(l, k), end(l)),
       Same(next(At(l, 0), 256), end(l))>>

gesamter_wertebereich == <<Loop(0, 255, TRUE, Up(0, 255))>>
gesamter_wertebereich_high_to_low == <<Loop(255, 0, TRUE, Down(255, 0))>>
digits == <<Loop(48, 57, TRUE, Up(48, 57)), Loop(57, 48, TRUE, Down(57, 48))>>
falsche_richtung == <<Loop(3, 254, FALSE, <<3, 2, 1, 0, 255, 254>>)>>
uint_0_bis == <<Tells(loopvalue(0, 2, TRUE), <<0, 1, 2>>, 65536)>>
uint_bis_0 == <<Tells(loopvalue(2, 0, TRUE), <<2, 1, 0>>, 65536)>>
int_1_bis_1 == <<Tells(loopvalue(1, 1, TRUE), <<1>>, 65536)>>
int_0_bis_0 == <<Tells(loopvalue(0, 0, TRUE), <<0>>, 65536)>>
unsigend_short_max_bis_max == <<Tells(loopvalue(65535, 65535, TRUE), <<65535>>, 65536)>>

-----------------------------------------------------------------------------
(***************************************************************************)
(* Ptr_Array.h.                                                            *)
(***************************************************************************)

\* The array after n steps, where every one is allowed.
RECURSIVE After(_, _), Before(_, _)
After(a, n) == IF n = 0 THEN a ELSE After(Incremented(a), n - 1)
Before(a, n) == IF n = 0 THEN a ELSE Before(Decremented(a), n - 1)

charpointer ==
  LET ptr == ptr_array(0, 5, 1, 0)
      ptr2 == AsElements(ptr, 1, TRUE)
  IN <<ptr.elementcount = ptr2.elementcount, ptr.bytelen = ptr2.bytelen,
       \A n \in 0 .. 4 : MayIncrement(After(ptr, n)) /\ MayIncrement(After(ptr2, n)) /\ After(ptr, n).pointer = After(ptr2, n).pointer,
       After(ptr, 5).elementcount = 0, After(ptr2, 5).elementcount = 0, After(ptr, 5).bytelen = 0, After(ptr2, 5).bytelen = 0>>

range_Exception ==
  LET ptr == ptr_array(0, 6, 1, 0)
  IN <<~MayIncrement(NullArray(1)), ~MayDecrement(NullArray(1)), \A n \in 0 .. 5 : MayIncrement(After(ptr, n)),
       ~MayIncrement(After(ptr, 6)), \A n \in 0 .. 5 : MayDecrement(Before(After(ptr, 6), n)),
       \A n \in 1 .. 6 : Before(After(ptr, 6), n).pointer = 6 - n, ~MayDecrement(ptr)>>

\* The array that is moved from is swapped with an empty one.
Taken(data) == [from |-> NullArray(data.size), to |-> data]

uniqueArray ==
  LET memptr == Taken(ptr_array(0, 4, 4, 0)).to
      written == [n \in 0 .. 3 |-> After(memptr, n).elementcount]   \* *ptr++ = ptr.ElementCount()
  IN <<Taken(memptr).from.elementcount = 0, memptr.elementcount = 4, memptr.bytelen = 16,
       \A n \in 0 .. 3 : MayDereference(After(memptr, n)), After(memptr, 4).elementcount = 0,
       \A n \in 0 .. 3 : MayIndex(memptr, n) /\ Address(memptr, n) = After(memptr, n).pointer /\ written[n] = 4 - n>>

-----------------------------------------------------------------------------
Scripts ==
  <<begin_end, multibit, falsche_iteration, range_based_for, split_bits_test, bitfeld_mit_enum, bitfeld_mit_unnamed_enum,
    bitfeld_mit_unsigned_short_class_enum, bitfeld_mit_strongtype, union_bitfelder, intersect_bitfelder, invert_bitfeld,
    cutoff_bitfeld, rotiere_bits, tribool_compare_invalid, tribool_compare, tribool_assign, example1, example2, example3,
    iterator_comp_exception, range_based_for_loop, iterator, gesamter_wertebereich, gesamter_wertebereich_high_to_low, digits,
    falsche_richtung, uint_0_bis, uint_bis_0, int_1_bis_1, int_0_bis_0, unsigend_short_max_bis_max, charpointer,
    range_Exception, uniqueArray>>
=============================================================================
