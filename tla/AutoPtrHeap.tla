---------------------------- MODULE AutoPtrHeap ----------------------------
(***************************************************************************)
(* WS::auto_ptr (headeronly/Auto_Ptr.h): a pointer that may own its object *)
(* alone (Ptr), share it with std::shared_ptr (SharedPtr) or just look at  *)
(* it.  All pointers copied from each other share a block,                 *)
(* ReferenzCounterShare, in which the dying owner notes that the object is *)
(* gone, so that the others become nullptr.                                *)
(*                                                                         *)
(* This module has the operations as operators from a heap to the heap     *)
(* after it.  A heap is a record of                                        *)
(*   ptr      every auto_ptr: its block, the raw pointer, what it owns     *)
(*            alone and what it shares                                     *)
(*   share    the blocks that exist                                        *)
(*   alive    the objects that exist                                       *)
(*   raw      the objects a caller has to delete: fresh ones, ones that    *)
(*            are released, ones in a unique_ptr                           *)
(*   outside  the objects some std::shared_ptr elsewhere holds             *)
(*   broken   what must never happen and did                               *)
(* Objects of a class with enable_auto_ptr_from_this contain an auto_ptr   *)
(* to themselves, auto_this; it goes by the name of the object.            *)
(***************************************************************************)
EXTENDS Naturals, FiniteSets

CONSTANTS Vars,      \* the auto_ptr objects of the program
          Tmp, Tmp2, \* temporaries inside an operation, empty outside
          Objects,
          FromThis,  \* those with enable_auto_ptr_from_this
          NoObject, NoBlock,
          Blocks,    \* places for blocks
          Wrap       \* 2^16, one more than the largest counter

ASSUME HeapAssumption ==
  /\ FromThis \subseteq Objects
  /\ NoObject \notin Objects
  /\ NoBlock \notin Blocks
  /\ Tmp # Tmp2 /\ {Tmp, Tmp2} \cap (Vars \cup Objects) = {} /\ Vars \cap Objects = {}
  /\ Wrap \in Nat \ {0, 1}

Pointers == Vars \cup {Tmp, Tmp2} \cup FromThis

\* new finds a place for a block for each auto_ptr.
ASSUME SpaceAssumption ==
  /\ IsFiniteSet(Vars) /\ IsFiniteSet(FromThis) /\ IsFiniteSet(Blocks)
  /\ Cardinality(Pointers) <= Cardinality(Blocks)

Empty == [share |-> NoBlock, obj |-> NoObject, own |-> NoObject, strong |-> NoObject]

NewHeap ==
  [ptr |-> [v \in Pointers |-> Empty], share |-> <<>>,
   alive |-> {}, raw |-> {}, outside |-> {}, broken |-> {}]

-----------------------------------------------------------------------------
(***************************************************************************)
(* Questions.                                                              *)
(***************************************************************************)

valid(h, v) == h.ptr[v].share # NoBlock /\ h.ptr[v].share \in DOMAIN h.share /\ h.share[h.ptr[v].share].valid

get(h, v) == IF valid(h, v) THEN h.ptr[v].obj ELSE NoObject

is_owner(h, v) == h.ptr[v].own # NoObject
is_shared_ptr(h, v) == h.ptr[v].strong # NoObject
is_manager(h, v) == is_owner(h, v) \/ is_shared_ptr(h, v)
is_managed(h, v) == get(h, v) # NoObject /\ h.share[h.ptr[v].share].managed

\* std::shared_ptr::use_count()
use_count(h, o) ==
  Cardinality({v \in Pointers : h.ptr[v].strong = o}) + Cardinality({o} \cap h.outside)

-----------------------------------------------------------------------------
(***************************************************************************)
(* Faulty variants of operators below, none is used.                       *)
(***************************************************************************)

\* The copy is not counted.
MutantAddRef(h, b) == h

\* A move leaves the ownership with the source as well.
MutantMoveKeepsOwner(h, v, r) == h.ptr[r].own

\* release() leaves the block managed.
MutantReleaseManaged(h, v) ==
  [h EXCEPT !.ptr[v].own = NoObject, !.raw = @ \cup ({h.ptr[v].own} \cap h.alive)]

\* The destructor drops what is owned without deleting it.
MutantDropOwnLeaks(h, v) == [h EXCEPT !.ptr[v].own = NoObject]

-----------------------------------------------------------------------------
(***************************************************************************)
(* Blocks and objects.                                                     *)
(***************************************************************************)

Create(h, v, o, managed) ==
  LET b == CHOOSE x \in Blocks : x \notin DOMAIN h.share
  IN [h EXCEPT !.ptr[v].share = b, !.ptr[v].obj = o,
               !.share = [x \in DOMAIN @ \cup {b} |->
                 IF x = b THEN [counter |-> 1, valid |-> TRUE, managed |-> managed] ELSE @[x]]]

AddRef(h, b) ==
  IF b = NoBlock THEN h
  ELSE IF b \notin DOMAIN h.share THEN [h EXCEPT !.broken = @ \cup {"block"}]
  ELSE [h EXCEPT !.share[b].counter = (@ + 1) % Wrap]

\* ~ReferenzCounter: the last pointer deletes the block.
ReleaseShare(h, v) ==
  LET b == h.ptr[v].share
      g == [h EXCEPT !.ptr[v].share = NoBlock, !.ptr[v].obj = NoObject]
      left == (h.share[b].counter + Wrap - 1) % Wrap
  IN IF b = NoBlock THEN g
     ELSE IF b \notin DOMAIN h.share THEN [g EXCEPT !.broken = @ \cup {"block"}]
     ELSE IF left = 0 THEN [g EXCEPT !.share = [x \in DOMAIN @ \ {b} |-> @[x]]]
     ELSE [g EXCEPT !.share[b].counter = left]

\* Everyone who shares the block becomes nullptr, and is managed no longer.
SetNullptr(h, v) ==
  LET g == [h EXCEPT !.ptr[v].obj = NoObject]
  IN IF h.ptr[v].share \in DOMAIN h.share
     THEN [g EXCEPT !.share[h.ptr[v].share].valid = FALSE, !.share[h.ptr[v].share].managed = FALSE]
     ELSE g

\* The destructor of an object, which takes its auto_this along.
Delete(h, o) ==
  LET g == [h EXCEPT !.alive = @ \ {o}, !.raw = @ \ {o}]
  IN IF o \notin h.alive THEN [h EXCEPT !.broken = @ \cup {"delete"}]
     ELSE IF o \in FromThis THEN ReleaseShare(SetNullptr(g, o), o) ELSE g

\* Giving up a share in an object deletes it when it was the last.
DropStrong(h, v) ==
  LET o == h.ptr[v].strong
      g == [h EXCEPT !.ptr[v].strong = NoObject]
  IN IF o # NoObject /\ use_count(g, o) = 0 THEN Delete(g, o) ELSE g

DropOwn(h, v) ==
  LET g == [h EXCEPT !.ptr[v].own = NoObject]
  IN IF is_owner(h, v) THEN Delete(g, h.ptr[v].own) ELSE g

\* Faulty: the last sharer is looked for after it has gone.
MutantDrop(h, v) ==
  LET g == IF get(h, v) = NoObject THEN [h EXCEPT !.ptr[v].own = NoObject] ELSE h
      last == is_owner(g, v) \/ (is_shared_ptr(g, v) /\ use_count(g, g.ptr[v].strong) = 0)
  IN ReleaseShare(DropOwn(DropStrong(IF last THEN SetNullptr(g, v) ELSE g, v), v), v)

\* ~auto_ptr.  An owner whose object is gone already was deleted by hand.
Drop(h, v) ==
  LET g == IF get(h, v) = NoObject THEN [h EXCEPT !.ptr[v].own = NoObject] ELSE h
      last == is_owner(g, v) \/ (is_shared_ptr(g, v) /\ use_count(g, g.ptr[v].strong) = 1)
  IN ReleaseShare(DropOwn(DropStrong(IF last THEN SetNullptr(g, v) ELSE g, v), v), v)

-----------------------------------------------------------------------------
(***************************************************************************)
(* Construction of an empty v.                                             *)
(***************************************************************************)

\* The auto_this of an object, made when it is first asked for.
auto_ptr_from_this(h, o) ==
  IF get(h, o) = NoObject THEN Create(ReleaseShare(h, o), o, o, TRUE) ELSE h

\* v takes part in the block of r.
ShareWith(h, v, r) ==
  [AddRef(h, h.ptr[r].share) EXCEPT !.ptr[v].share = h.ptr[r].share, !.ptr[v].obj = h.ptr[r].obj]

\* auto_ptr(p, autodelete, managed): an object with auto_this has its block.
FromPointer(h, v, o, autodelete, managed) ==
  LET g == IF o = NoObject THEN h
           ELSE IF o \in FromThis THEN ShareWith(auto_ptr_from_this(h, o), v, o)
           ELSE Create(h, v, o, managed)
  IN IF autodelete THEN [g EXCEPT !.ptr[v].own = o, !.raw = @ \ {o}] ELSE g

FromUnique(h, v, o) == FromPointer(h, v, o, TRUE, TRUE)

\* auto_ptr(std::shared_ptr<T>): always a block of its own.
FromShared(h, v, o) == [Create(h, v, o, TRUE) EXCEPT !.ptr[v].strong = o]

\* auto_ptr(auto_ptr const &), ownerless()
Copy(h, v, r) == [ShareWith(h, v, r) EXCEPT !.ptr[v].strong = h.ptr[r].strong]

weak(h, v, r) == ShareWith(h, v, r)

\* What the source keeps of its ownership when it is moved from.
MovedFrom(h, v, r) == NoObject

\* auto_ptr(auto_ptr &&), transfer(): the source keeps the pointer and a share.
Move(h, v, r) == [Copy(h, v, r) EXCEPT !.ptr[v].own = h.ptr[r].own, !.ptr[r].own = MovedFrom(h, v, r)]

\* auto_ptr<T>(auto_ptr<U> const &): the cast may fail, a share is not copied.
Cast(h, v, r, ok) ==
  LET g == ShareWith(h, v, r)
  IN IF ok /\ valid(h, r) THEN g ELSE [g EXCEPT !.ptr[v].obj = NoObject]

\* auto_ptr<T>(auto_ptr<U> &&), trytransfer(): ownership follows the cast.
MoveCast(h, v, r, ok) ==
  LET g == Cast(h, v, r, ok)
  IN IF get(g, v) = NoObject THEN g
     ELSE [g EXCEPT !.ptr[v].own = h.ptr[r].own, !.ptr[r].own = MovedFrom(h, v, r)]

-----------------------------------------------------------------------------
(***************************************************************************)
(* Assignment: construct a temporary, swap, and destroy the temporary.     *)
(***************************************************************************)

Swap(h, v, w) == [h EXCEPT !.ptr[v] = h.ptr[w], !.ptr[w] = h.ptr[v]]

TakeOver(h, v, t) == Drop(Swap(h, v, t), t)

\* v = std::move(r)
MoveAssign(h, v, r) == TakeOver(Move(h, Tmp, r), v, Tmp)

\* v = r, from the temporary r.ownerless()
CopyAssign(h, v, r) == IF v = r THEN h ELSE Drop(MoveAssign(Copy(h, Tmp2, r), v, Tmp2), Tmp2)

CastAssign(h, v, r, ok) == TakeOver(Cast(h, Tmp, r, ok), v, Tmp)
MoveCastAssign(h, v, r, ok) == TakeOver(MoveCast(h, Tmp, r, ok), v, Tmp)

\* v = p, nothing when v has that pointer already.
PointerAssign(h, v, o) ==
  IF get(h, v) = o THEN h
  ELSE Drop(MoveAssign(FromPointer(h, Tmp2, o, FALSE, FALSE), v, Tmp2), Tmp2)

UniqueAssign(h, v, o) == Drop(MoveAssign(FromUnique(h, Tmp2, o), v, Tmp2), Tmp2)
SharedAssign(h, v, o) == Drop(MoveAssign(FromShared(h, Tmp2, o), v, Tmp2), Tmp2)

\* release() and its relatives: the caller becomes responsible, and the
\* pointers that are left are managed no longer.
release(h, v) ==
  LET g == [h EXCEPT !.ptr[v].own = NoObject, !.raw = @ \cup ({h.ptr[v].own} \cap h.alive)]
  IN IF ~is_owner(h, v) THEN h
     ELSE IF h.ptr[v].share \in DOMAIN h.share
     THEN [g EXCEPT !.share[h.ptr[v].share].managed = FALSE] ELSE g

=============================================================================
