------------------------------ MODULE PtrArray ------------------------------
(***************************************************************************)
(* A ptr_array on a block of memory in any sequence of its operations.     *)
(* What would leave the window throws and changes nothing.                 *)
(***************************************************************************)
EXTENDS PtrWindow

CONSTANTS
  BlockLen,   \* the bytes of the block
  Sizes       \* the sizes of elements

ASSUME PtrArrayAssumption == BlockLen \in Nat /\ Sizes \subseteq Nat \ {0}

VARIABLES array, tref   \* tref: the element size of the TRef on the array, or 0

ptrArrayVars == <<array, tref>>

\* An array over a block, its pointer at the start of the block or behind it.
PtrArrayInit ==
  /\ tref = 0
  /\ \E size \in Sizes, pointer, count \in 0 .. BlockLen :
       /\ pointer + count * size <= BlockLen
       /\ array = ptr_array(pointer, count, size, 0)

Becomes(a) == array' = a /\ UNCHANGED tref

\* operator+ and operator-, of size_t and of INT_PTR.  A ptr_array<void const*>
\* takes every number for operator+ as one that is not negative.
Plus(n) ==
  /\ MayMove(array, n)
  /\ array.void /\ array.const => n >= 0
  /\ Becomes(Moved(array, n))
Minus(n) == MayMove(array, 0 - n) /\ Becomes(Moved(array, 0 - n))

\* operator-= of a ptr_array<void*> does not change the sign of a negative number.
MinusAssign(n) ==
  /\ MayMove(array, 0 - n)
  /\ array.void /\ ~array.const => n >= 0
  /\ Becomes(Moved(array, 0 - n))

Increment == ~array.void /\ MayIncrement(array) /\ Becomes(Incremented(array))
Decrement == ~array.void /\ MayDecrement(array) /\ Becomes(Decremented(array))

\* operator+= with elements to append, of which there must be one.
AppendElements(n) == ~array.void /\ n > 0 /\ n <= array.elementcount /\ Becomes(Moved(array, n))
AppendBytes(n) == array.void /\ ~array.const /\ n <= array.bytelen /\ Becomes(Moved(array, n))

\* A new array from this one: constant memory stays constant.
ConvertTo(a) == (array.const => a.const) /\ array' = a /\ tref' = 0
Convert(size, const) == ConvertTo(AsElements(array, size, const))
ConvertToVoid(const) == ConvertTo(AsVoid(array, const))

Reset == array.void /\ Becomes(reset(array))

UseAs(size) == array.void /\ MayUseAs(array, size) /\ tref' = size /\ UNCHANGED array

RefPlus(n) == tref # 0 /\ MayStep(array, tref, n) /\ Becomes(Stepped(array, tref, n))
RefMinus(n) == tref # 0 /\ MayStep(array, tref, 0 - n) /\ Becomes(Stepped(array, tref, 0 - n))
RefIncrement == tref # 0 /\ MayStep(array, tref, 1) /\ Becomes(Stepped(array, tref, 1))
RefDecrement == tref # 0 /\ MayStep(array, tref, 0 - 1) /\ Becomes(Stepped(array, tref, 0 - 1))

PtrArrayNext ==
  \/ \E n \in 0 - BlockLen .. BlockLen : Plus(n) \/ Minus(n) \/ MinusAssign(n)
  \/ Increment \/ Decrement \/ Reset \/ RefIncrement \/ RefDecrement
  \/ \E n \in 0 .. BlockLen : AppendElements(n) \/ AppendBytes(n) \/ RefPlus(n) \/ RefMinus(n)
  \/ \E const \in BOOLEAN : ConvertToVoid(const) \/ \E size \in Sizes : Convert(size, const)
  \/ \E size \in Sizes : UseAs(size)

\* For a program that has the array alone.
PtrArraySpec == PtrArrayInit /\ [][PtrArrayNext]_ptrArrayVars

-----------------------------------------------------------------------------
Within(first, len) == array.membegin <= first /\ first + len <= array.pointer + array.bytelen

\* After any moves, conversions, and steps through a TRef, the window ends in
\* the block it was made for and its elements are whole, and no index, iterator
\* or TRef that is not refused reaches an address in front of the block or
\* behind the window: "kontrollierter, ueberwachter zugriff" (Ptr_Array.h:176).
WindowInBlock ==
  /\ 0 <= array.membegin /\ array.membegin <= array.pointer /\ array.pointer + array.bytelen <= BlockLen
  /\ array.elementcount = IF array.void THEN 0 ELSE array.bytelen \div array.size
  /\ ~array.void => \A i \in 0 - BlockLen .. BlockLen :
       /\ MayIndexConst(array, i) => MayIndex(array, i)
       /\ MayIndex(array, i) => Within(Address(array, i), array.size)
       /\ MayTouch(Iterator(array, i)) <=> i >= 0 /\ MayIndex(array, i)
  /\ tref # 0 /\ MayRefer(array, tref) => Within(array.pointer, tref)
=============================================================================
