----------------------------- MODULE PtrWindow -----------------------------
(***************************************************************************)
(* ptr_array (Ptr_Array.h): a window on a block of memory that somebody    *)
(* else owns.  Addresses count the bytes of the block.  An array of        *)
(* elements has their size and number; one of void * or void const * has   *)
(* only bytes, and its ElementCount() is 0.                                *)
(***************************************************************************)
EXTENDS Integers

ptr_array(pointer, element_count, size, membegin) ==
  [void |-> FALSE, const |-> FALSE, size |-> size, membegin |-> membegin,
   pointer |-> pointer, elementcount |-> element_count, bytelen |-> element_count * size]

\* ptr_array(), whose pointers are null.
NullArray(size) == ptr_array(0, 0, size, 0)

UsedByteLen(a) == a.pointer - a.membegin

\* How many elements, or bytes of a void, lie ahead of the pointer and behind it.
Ahead(a) == IF a.void THEN a.bytelen ELSE a.elementcount
Behind(a) == UsedByteLen(a) \div a.size

\* operator+ and operator- take elements of the constructor's length: a rest of
\* bytes that is no element is gone.
Placed(a, pointer, count) ==
  [a EXCEPT !.pointer = pointer, !.elementcount = IF a.void THEN 0 ELSE count, !.bytelen = count * a.size]

MutantMayMove(a, n) == IF n >= 0 THEN n <= Ahead(a) ELSE 0 - n <= Ahead(a)
MayMove(a, n) == IF n >= 0 THEN n <= Ahead(a) ELSE 0 - n <= Behind(a)
Moved(a, n) == Placed(a, a.pointer + n * a.size, Ahead(a) - n)

MayIncrement(a) == a.elementcount # 0
Incremented(a) == [a EXCEPT !.pointer = @ + a.size, !.elementcount = @ - 1, !.bytelen = @ - a.size]

MayDecrement(a) == a.pointer >= a.membegin + a.size
Decremented(a) == [a EXCEPT !.pointer = @ - a.size, !.elementcount = @ + 1, !.bytelen = @ + a.size]

\* The same bytes as elements of another size, or as bytes.
AsElements(a, size, const) ==
  [a EXCEPT !.void = FALSE, !.const = const, !.size = size, !.elementcount = a.bytelen \div size]
AsVoid(a, const) == [a EXCEPT !.void = TRUE, !.const = const, !.size = 1, !.elementcount = 0]

\* The whole of the block, of an array of bytes.
reset(a) == [a EXCEPT !.pointer = a.membegin, !.bytelen = UsedByteLen(a) + a.bytelen]

-----------------------------------------------------------------------------
(***************************************************************************)
(* Access.  The operator for constant arrays refuses the first element     *)
(* when it is asked for with a negative index.                             *)
(***************************************************************************)

MayDereference(a) == a.elementcount # 0
MayIndex(a, i) == i < a.elementcount /\ (i < 0 => 0 - i <= Behind(a))
MayIndexConst(a, i) == i < a.elementcount /\ (i < 0 => 0 - i < Behind(a))
Address(a, i) == a.pointer + i * a.size

\* The iterators of begin() and end(), where they point and what they may touch.
Iterator(a, i) == [first |-> a.pointer, last |-> Address(a, a.elementcount), akt |-> Address(a, i)]
MayTouch(it) == it.first <= it.akt /\ it.akt < it.last

-----------------------------------------------------------------------------
(***************************************************************************)
(* TRef: an array of bytes used as elements of a size, whose moves move    *)
(* the array itself.                                                       *)
(***************************************************************************)

MayUseAs(a, size) == a.membegin <= a.pointer /\ a.bytelen >= size
MayRefer(a, size) == a.bytelen >= size /\ a.membegin <= a.pointer
MayStep(a, size, n) == IF n >= 0 THEN a.bytelen >= n * size ELSE a.membegin <= a.pointer + n * size
Stepped(a, size, n) == [a EXCEPT !.pointer = @ + n * size, !.bytelen = @ - n * size]
=============================================================================
