------------------------------ MODULE AutoPtr ------------------------------
(***************************************************************************)
(* A program with WS::auto_ptr: variables that are constructed, assigned,  *)
(* released and destroyed in any order, objects that are created with new, *)
(* with make_shared or as a class with enable_auto_ptr_from_this, and      *)
(* callers that keep to the rules of C++: they delete what they own, once, *)
(* and give an auto_ptr only what they own.                                *)
(***************************************************************************)
EXTENDS AutoPtrHeap, TLC

CONSTANTS SharedObjects,  \* the objects that are made with std::make_shared
          MaxBorn         \* bound: objects a program makes

ASSUME SharedAssumption == SharedObjects \subseteq Objects /\ MaxBorn \in Nat

VARIABLES heap, born

vars == <<heap, born>>

Counters == 0 .. Wrap - 1

TypeOK ==
  /\ heap.ptr \in [Pointers -> [share : Blocks \cup {NoBlock}, obj : Objects \cup {NoObject},
                                own : Objects \cup {NoObject}, strong : Objects \cup {NoObject}]]
  /\ DOMAIN heap.share \subseteq Blocks
  /\ \A b \in DOMAIN heap.share : heap.share[b] \in [counter : Counters, valid : BOOLEAN, managed : BOOLEAN]
  /\ heap.alive \subseteq born
  /\ heap.raw \subseteq heap.alive
  /\ heap.outside \subseteq heap.alive
  /\ born \subseteq Objects

Init == heap = NewHeap /\ born = {}

Live == heap.alive

\* The program does something to its variables.
Does(h) == heap' = h /\ UNCHANGED born

-----------------------------------------------------------------------------
(***************************************************************************)
(* Objects.                                                                *)
(***************************************************************************)

New(o) ==
  /\ o \notin born \cup SharedObjects /\ Cardinality(born) < MaxBorn
  /\ heap' = [heap EXCEPT !.alive = @ \cup {o}, !.raw = @ \cup {o}]
  /\ born' = born \cup {o}

MakeShared(o) ==
  /\ o \in SharedObjects \ born /\ Cardinality(born) < MaxBorn
  /\ heap' = [heap EXCEPT !.alive = @ \cup {o}, !.outside = @ \cup {o}]
  /\ born' = born \cup {o}

\* delete, or the end of a scope.  An object with auto_this may go at any time,
\* even while an auto_ptr owns it.
DeleteByHand(o) ==
  /\ o \in heap.raw \/ (o \in FromThis \cap Live /\ o \notin SharedObjects)
  /\ Does(Delete(heap, o))

\* The std::shared_ptr outside is reset.
ResetOutside(o) ==
  LET g == [heap EXCEPT !.outside = @ \ {o}]
  IN /\ o \in heap.outside
     /\ Does(IF use_count(g, o) = 0 THEN Delete(g, o) ELSE g)

-----------------------------------------------------------------------------
(***************************************************************************)
(* Construction and destruction.                                           *)
(***************************************************************************)

Fresh(v) == heap.ptr[v] = Empty

Construct(v) ==
  /\ Fresh(v)
  /\ \/ \E o \in Live : Does(FromPointer(heap, v, o, FALSE, FALSE))
     \/ \E o \in heap.raw : Does(FromPointer(heap, v, o, TRUE, TRUE))
     \/ \E o \in heap.outside : Does(FromShared(heap, v, o))
     \/ \E o \in FromThis \cap Live : Does(ShareWith(auto_ptr_from_this(heap, o), v, o))

ConstructFrom(v, r) ==
  /\ Fresh(v) /\ v # r
  /\ \/ Does(Copy(heap, v, r))
     \/ Does(weak(heap, v, r))
     \/ Does(Move(heap, v, r))
     \/ \E ok \in BOOLEAN : Does(Cast(heap, v, r, ok))
     \/ \E ok \in BOOLEAN : Does(MoveCast(heap, v, r, ok))

Destroy(v) == Does(Drop(heap, v))

\* managed_auto_ptr(r): a pointer that is not managed is refused, unless its
\* object has auto_this.
ManagedCopy(v, r) ==
  /\ Fresh(v) /\ v # r
  /\ \/ get(heap, r) = NoObject \/ is_managed(heap, r)
     \/ get(heap, r) \in FromThis \cap Live
  /\ Does(IF get(heap, r) = NoObject \/ is_managed(heap, r) THEN Copy(heap, v, r)
          ELSE ShareWith(auto_ptr_from_this(heap, get(heap, r)), v, get(heap, r)))

-----------------------------------------------------------------------------
(***************************************************************************)
(* Assignment and release.                                                 *)
(***************************************************************************)

Assign(v) ==
  \/ \E o \in Live \cup {NoObject} : Does(PointerAssign(heap, v, o))
  \/ \E o \in heap.raw : Does(UniqueAssign(heap, v, o))
  \/ \E o \in heap.outside : Does(SharedAssign(heap, v, o))

AssignFrom(v, r) ==
  \/ Does(CopyAssign(heap, v, r))
  \/ Does(MoveAssign(heap, v, r))
  \/ \E ok \in BOOLEAN : Does(CastAssign(heap, v, r, ok))
  \/ \E ok \in BOOLEAN : Does(MoveCastAssign(heap, v, r, ok))

\* r is handed over as auto_ptr_owner_parameter and stored in v: r has to be
\* the owner, a sharer, or null.
HandOver(v, r) ==
  /\ is_manager(heap, r) \/ get(heap, r) = NoObject
  /\ Does(Drop(MoveAssign(Move(heap, Tmp2, r), v, Tmp2), Tmp2))

Release(v) == is_owner(heap, v) /\ Does(release(heap, v))

Next ==
  \/ \E o \in Objects : New(o) \/ MakeShared(o) \/ DeleteByHand(o) \/ ResetOutside(o)
  \/ \E v \in Vars : Construct(v) \/ Destroy(v) \/ Assign(v) \/ Release(v)
  \/ \E v, r \in Vars : ConstructFrom(v, r) \/ ManagedCopy(v, r) \/ AssignFrom(v, r) \/ HandOver(v, r)

Spec == Init /\ [][Next]_vars

-----------------------------------------------------------------------------

Owners(o) == {v \in Pointers : heap.ptr[v].own = o}
Sharers(o) == {v \in Pointers : heap.ptr[v].strong = o}

\* No object is deleted twice and no block is used after its last pointer has
\* deleted it, whatever the order of transfers, assignments and destructions.
NothingBroken == heap.broken = {}

\* Every object that is alive has exactly one kind of owner, and no two that
\* would delete it alone: none leaks, none has two owners.
OneOwner ==
  \A o \in Live :
    Cardinality(Owners(o)) + Cardinality({o} \cap heap.raw)
      + (IF Sharers(o) # {} \/ o \in heap.outside THEN 1 ELSE 0) = 1

\* The counter of a block is the number of pointers that share it, and a block
\* exists as long as there are any (AddRef, Release).
CountersExact ==
  /\ \A v \in Pointers : heap.ptr[v].share \in DOMAIN heap.share \cup {NoBlock}
  /\ \A b \in DOMAIN heap.share :
       heap.share[b].counter = Cardinality({v \in Pointers : heap.ptr[v].share = b})

\* ... and an owner points to the object it owns until that is deleted by hand,
\* and to nothing afterwards: it will not delete the object again.
HeapConsistent ==
  /\ TypeOK /\ CountersExact
  /\ \A v \in Pointers : is_owner(heap, v) =>
       get(heap, v) = IF heap.ptr[v].own \in Live THEN heap.ptr[v].own ELSE NoObject

\* A pointer that says it is managed has become nullptr when its object is
\* gone (Auto_Ptr.h:549), unless the object belongs to std::shared_ptr.
ManagedNeverDangles ==
  \A v \in Pointers : is_managed(heap, v) => get(heap, v) \in Live \cup SharedObjects

\* When the last auto_ptr that shares an object goes and no std::shared_ptr
\* holds it, every pointer copied from that auto_ptr has become nullptr.
LastShareTells ==
  [][\A o \in SharedObjects, v, w \in Vars :
       /\ o \in heap.alive \ heap'.alive /\ heap'.outside = heap.outside
       /\ Sharers(o) = {v} /\ w # v /\ heap.ptr[w].share = heap.ptr[v].share
       => get(heap', w) # o]_vars

-----------------------------------------------------------------------------

\* For TLC: the variables of a program may be exchanged.
Symmetric == Permutations(Vars)

=============================================================================
