--------------------------- MODULE AutoPtrProofs ---------------------------
(***************************************************************************)
(* AutoPtr for any number of variables and objects of every kind, as long  *)
(* as the counter of a block can count all the pointers there are.  The    *)
(* operations are operators from heap to heap, so nearly all lemmas are    *)
(* about two heaps, and the steps of the program come last.                *)
(***************************************************************************)
EXTENDS AutoPtr, FiniteSetTheorems, TLAPS

\* The counter is an unsigned short, which overflows beyond.
FewPointers == Cardinality(Pointers) < Wrap

-----------------------------------------------------------------------------
(***************************************************************************)
(* Heaps and their counters                                                *)
(***************************************************************************)

Pointer == [share : Blocks \cup {NoBlock}, obj : Objects \cup {NoObject},
            own : Objects \cup {NoObject}, strong : Objects \cup {NoObject}]
Block == [counter : Nat, valid : BOOLEAN, managed : BOOLEAN]

IsHeap(h) ==
  /\ h = [ptr |-> h.ptr, share |-> h.share, alive |-> h.alive, raw |-> h.raw,
          outside |-> h.outside, broken |-> h.broken]
  /\ h.ptr \in [Pointers -> Pointer]
  /\ h.share \in [DOMAIN h.share -> Block]
  /\ DOMAIN h.share \subseteq Blocks
  /\ h.alive \subseteq Objects /\ h.raw \subseteq Objects /\ h.outside \subseteq Objects

Users(h, b) == {v \in Pointers : h.ptr[v].share = b}

Counted(h) ==
  /\ h.broken = {}
  /\ \A v \in Pointers : h.ptr[v].share \in DOMAIN h.share \cup {NoBlock}
  /\ \A b \in DOMAIN h.share : Users(h, b) # {} /\ h.share[b].counter = Cardinality(Users(h, b))

\* The pointers but v, and the objects, are the same.
Only(h, g, v) == \A w \in Pointers : w # v => g.ptr[w] = h.ptr[w]
SameObjects(h, g) == g.alive = h.alive /\ g.raw = h.raw /\ g.outside = h.outside

\* The blocks of g are blocks of h and as valid and managed there.
SameFlags(h, g) ==
  \A b \in DOMAIN g.share :
    b \in DOMAIN h.share /\ g.share[b].valid = h.share[b].valid /\ g.share[b].managed = h.share[b].managed

LEMMA PointersFinite ==
  /\ IsFiniteSet(Pointers) /\ Cardinality(Pointers) \in Nat
  /\ \A S \in SUBSET Pointers :
       IsFiniteSet(S) /\ Cardinality(S) \in Nat /\ Cardinality(S) <= Cardinality(Pointers)
<1>1. IsFiniteSet({Tmp, Tmp2})
  <2>1. IsFiniteSet({Tmp}) /\ IsFiniteSet({Tmp2})
    BY FS_Singleton
  <2>2. {Tmp, Tmp2} = {Tmp} \cup {Tmp2}
    OBVIOUS
  <2>. QED
    BY <2>1, <2>2, FS_Union
<1>2. IsFiniteSet(Pointers)
  BY <1>1, SpaceAssumption, FS_Union DEF Pointers
<1>. QED
  BY <1>2, FS_Subset, FS_CardinalityType

\* A pointer without a block leaves a place for one.
LEMMA FreeBlock ==
  ASSUME NEW h, IsHeap(h), Counted(h), NEW v \in Pointers, h.ptr[v].share = NoBlock
  PROVE  \E b \in Blocks : b \notin DOMAIN h.share
<1> DEFINE D == DOMAIN h.share
           R == Pointers \ {v}
           f == [b \in D |-> CHOOSE w \in Pointers : h.ptr[w].share = b]
<1>1. \A b \in D : f[b] \in R /\ h.ptr[f[b]].share = b
  <2>1. ASSUME NEW b \in D PROVE \E w \in Pointers : h.ptr[w].share = b
    BY DEF Counted, Users
  <2>2. NoBlock \notin D
    BY HeapAssumption DEF IsHeap
  <2>. QED
    BY <2>1, <2>2
<1>2. f \in [D -> R]
  BY <1>1
<1>3. \A a, b \in D : f[a] = f[b] => a = b
  BY <1>1
<1>4. f \in Injection(D, R)
  BY <1>2, <1>3 DEF Injection, IsInjective
<1>5. IsFiniteSet(R) /\ Cardinality(R) = Cardinality(Pointers) - 1
  BY PointersFinite, FS_RemoveElement
<1>6. Cardinality(D) <= Cardinality(R)
  <2> HIDE DEF f, R, D
  <2>. QED
    BY <1>4, <1>5, FS_Injection
<1>7. Cardinality(Pointers) \in Nat /\ Cardinality(Blocks) \in Nat
  BY PointersFinite, SpaceAssumption, FS_CardinalityType
<1>8. ASSUME Blocks \subseteq D PROVE FALSE
  <2>1. D = Blocks
    BY <1>8 DEF IsHeap
  <2>. QED
    BY <1>5, <1>6, <1>7, <2>1, SpaceAssumption
<1>. QED
  BY <1>8

\* What does not move pointers between blocks keeps the counters.
LEMMA SameBlocksCounted ==
  ASSUME NEW h, Counted(h), NEW g, g.broken = {}, DOMAIN g.share = DOMAIN h.share,
         \A b \in DOMAIN h.share : g.share[b].counter = h.share[b].counter,
         \A v \in Pointers : g.ptr[v].share = h.ptr[v].share
  PROVE  Counted(g)
<1>1. \A b : Users(g, b) = Users(h, b)
  BY DEF Users
<1>. QED
  BY <1>1 DEF Counted

\* The heap with a new block b, with another counter, and a pointer with
\* another block and object.
Entered(s, b, managed) ==
  [x \in DOMAIN s \cup {b} |->
    IF x = b THEN [counter |-> 1, valid |-> TRUE, managed |-> managed] ELSE s[x]]

WithBlock(h, v, b, o, managed) ==
  [h EXCEPT !.ptr[v].share = b, !.ptr[v].obj = o,
            !.share = Entered(@, b, managed)]

WithCounter(h, b, c) == [h EXCEPT !.share[b].counter = c]

Counting(s, b, c) == [s EXCEPT ![b] = [@ EXCEPT !.counter = c]]

Pointing(x, b, o) == [x EXCEPT !.share = b, !.obj = o]

Put(p, v, x) == [p EXCEPT ![v] = x]

\* The fields of these.
LEMMA BlockFields ==
  ASSUME NEW h, IsHeap(h), NEW v, NEW b, NEW o, NEW managed, NEW g, g = WithBlock(h, v, b, o, managed)
  PROVE  /\ g.ptr = Put(h.ptr, v, Pointing(h.ptr[v], b, o))
         /\ g.share = Entered(h.share, b, managed)
         /\ g.broken = h.broken /\ SameObjects(h, g)
         /\ g = [ptr |-> g.ptr, share |-> g.share, alive |-> g.alive, raw |-> g.raw,
                 outside |-> g.outside, broken |-> g.broken]
<1>1. g.ptr = Put(h.ptr, v, Pointing(h.ptr[v], b, o))
  BY DEF IsHeap, WithBlock, Put, Pointing
<1>2. g.share = Entered(h.share, b, managed)
  BY DEF IsHeap, WithBlock
<1>3. g.broken = h.broken /\ SameObjects(h, g)
  BY DEF IsHeap, WithBlock, SameObjects
<1>4. g = [ptr |-> g.ptr, share |-> g.share, alive |-> g.alive, raw |-> g.raw,
           outside |-> g.outside, broken |-> g.broken]
  BY DEF IsHeap, WithBlock
<1>. QED
  BY <1>1, <1>2, <1>3, <1>4

LEMMA PointerPut ==
  ASSUME NEW h, IsHeap(h), NEW v \in Pointers, NEW x \in Pointer, NEW p, p = Put(h.ptr, v, x)
  PROVE  p \in [Pointers -> Pointer] /\ p[v] = x /\ \A w \in Pointers : w # v => p[w] = h.ptr[w]
BY DEF IsHeap, Put

LEMMA PointerFields ==
  ASSUME NEW x \in Pointer, NEW b \in Blocks \cup {NoBlock}, NEW o \in Objects \cup {NoObject}
  PROVE  /\ Pointing(x, b, o) \in Pointer /\ Pointing(x, b, o).share = b /\ Pointing(x, b, o).obj = o
         /\ Pointing(x, b, o).own = x.own /\ Pointing(x, b, o).strong = x.strong
BY DEF Pointer, Pointing

Created(h, g, v, o, managed) ==
  /\ IsHeap(g) /\ Counted(g) /\ Only(h, g, v) /\ SameObjects(h, g)
  /\ \E b \in Blocks \ DOMAIN h.share :
       /\ g.ptr[v] = Pointing(h.ptr[v], b, o)
       /\ DOMAIN g.share = DOMAIN h.share \cup {b}
       /\ g.share[b].valid = TRUE /\ g.share[b].managed = managed
       /\ \A x \in DOMAIN h.share : g.share[x] = h.share[x]

LEMMA CreateEffect ==
  ASSUME NEW h, IsHeap(h), Counted(h), NEW v \in Pointers, h.ptr[v].share = NoBlock,
         NEW o \in Objects, NEW managed \in BOOLEAN, NEW g, g = Create(h, v, o, managed)
  PROVE  Created(h, g, v, o, managed)
<1>1. PICK b \in Blocks : b \notin DOMAIN h.share /\ g = WithBlock(h, v, b, o, managed)
  <2> DEFINE b == CHOOSE x \in Blocks : x \notin DOMAIN h.share
  <2>1. b \in Blocks /\ b \notin DOMAIN h.share
    <3>1. \E x \in Blocks : x \notin DOMAIN h.share
      BY FreeBlock
    <3>. QED
      BY <3>1
  <2>2. g = WithBlock(h, v, b, o, managed)
    BY Zenon DEF Create, WithBlock, Entered
  <2>. QED
    BY <2>1, <2>2
<1>2. /\ g.ptr = Put(h.ptr, v, Pointing(h.ptr[v], b, o))
      /\ g.share = Entered(h.share, b, managed)
      /\ g.broken = h.broken /\ SameObjects(h, g)
      /\ g = [ptr |-> g.ptr, share |-> g.share, alive |-> g.alive, raw |-> g.raw,
              outside |-> g.outside, broken |-> g.broken]
  BY <1>1, BlockFields
<1>10. /\ DOMAIN g.share = DOMAIN h.share \cup {b}
       /\ g.share[b] = [counter |-> 1, valid |-> TRUE, managed |-> managed]
       /\ \A x \in DOMAIN h.share : g.share[x] = h.share[x]
       /\ g.share \in [DOMAIN g.share -> Block]
  <2>1. g.share = Entered(h.share, b, managed) /\ b \notin DOMAIN h.share
    BY <1>1, <1>2
  <2>2. /\ DOMAIN g.share = DOMAIN h.share \cup {b}
        /\ g.share[b] = [counter |-> 1, valid |-> TRUE, managed |-> managed]
        /\ \A x \in DOMAIN h.share : g.share[x] = h.share[x]
    BY <2>1 DEF Entered
  <2>3. \A x \in DOMAIN g.share : g.share[x] \in Block
    <3>1. [counter |-> 1, valid |-> TRUE, managed |-> managed] \in Block
      BY DEF Block
    <3>2. \A x \in DOMAIN h.share : h.share[x] \in Block
      BY DEF IsHeap
    <3>. QED
      BY <2>2, <3>1, <3>2
  <2>4. Entered(h.share, b, managed) = [x \in DOMAIN g.share |-> Entered(h.share, b, managed)[x]]
    BY <2>2 DEF Entered
  <2>. QED
    BY <2>1, <2>2, <2>3, <2>4
<1>3. /\ g.ptr[v] = Pointing(h.ptr[v], b, o) /\ Only(h, g, v)
      /\ g.ptr \in [Pointers -> Pointer]
  <2>1. h.ptr[v] \in Pointer
    BY DEF IsHeap
  <2>2. Pointing(h.ptr[v], b, o) \in Pointer
    BY <2>1, PointerFields
  <2>. QED
    BY <1>2, <2>2, PointerPut DEF Only
<1>4. IsHeap(g)
  BY <1>2, <1>3, <1>10 DEF IsHeap, SameObjects
<1>5. h.ptr[v] \in Pointer /\ g.ptr[v].share = b /\ \A w \in Pointers \ {v} : g.ptr[w].share = h.ptr[w].share
  BY <1>3, PointerFields DEF IsHeap, Only
<1>6. b # NoBlock /\ Users(h, b) = {}
  BY <1>1, HeapAssumption DEF Counted, Users
<1>7. Users(g, b) = {v} /\ Cardinality({v}) = 1
  <2>1. \A w \in Pointers : g.ptr[w].share = b <=> w = v
    BY <1>5, <1>6 DEF Users
  <2>2. Users(g, b) = {v}
    BY <2>1 DEF Users
  <2>. QED
    BY <2>2, FS_Singleton
<1>8. \A x \in DOMAIN h.share : Users(g, x) = Users(h, x)
  BY <1>5, <1>1, HeapAssumption DEF Users, IsHeap
<1>9. Counted(g)
  <2>1. \A w \in Pointers : g.ptr[w].share \in DOMAIN g.share \cup {NoBlock}
    BY <1>10, <1>5 DEF Counted
  <2>2. \A x \in DOMAIN g.share : Users(g, x) # {} /\ g.share[x].counter = Cardinality(Users(g, x))
    <3>1. ASSUME NEW x \in DOMAIN h.share
          PROVE  Users(g, x) # {} /\ g.share[x].counter = Cardinality(Users(g, x))
      <4>1. x # b /\ g.share[x] = h.share[x]
        BY <1>1, <1>10
      <4>. QED
        BY <4>1, <1>8 DEF Counted
    <3>2. g.share[b].counter = 1 /\ Users(g, b) # {}
      BY <1>10, <1>7
    <3>. QED
      BY <3>1, <3>2, <1>10, <1>7
  <2>. QED
    BY <1>2, <2>1, <2>2 DEF Counted
<1>. QED
  BY <1>1, <1>2, <1>3, <1>4, <1>9, <1>10 DEF Created

LEMMA CounterFields ==
  ASSUME NEW h, IsHeap(h), NEW b \in DOMAIN h.share, NEW c, NEW g, g = WithCounter(h, b, c)
  PROVE  /\ g.share = Counting(h.share, b, c)
         /\ g.ptr = h.ptr /\ SameObjects(h, g) /\ g.broken = h.broken
         /\ g = [ptr |-> g.ptr, share |-> g.share, alive |-> g.alive, raw |-> g.raw,
                 outside |-> g.outside, broken |-> g.broken]
<1>1. g.share = Counting(h.share, b, c)
  BY DEF IsHeap, WithCounter, Counting
<1>2. g.ptr = h.ptr /\ SameObjects(h, g) /\ g.broken = h.broken
  BY DEF IsHeap, WithCounter, SameObjects
<1>3. g = [ptr |-> g.ptr, share |-> g.share, alive |-> g.alive, raw |-> g.raw,
           outside |-> g.outside, broken |-> g.broken]
  BY DEF IsHeap, WithCounter
<1>. QED
  BY <1>1, <1>2, <1>3

\* The blocks t are s, with the counter c at b.
Recounted(s, t, b, c) ==
  /\ DOMAIN t = DOMAIN s /\ t \in [DOMAIN t -> Block]
  /\ t[b].counter = c
  /\ \A x \in DOMAIN t : t[x].valid = s[x].valid /\ t[x].managed = s[x].managed
  /\ \A x \in DOMAIN t : x # b => t[x] = s[x]

LEMMA CounterPut ==
  ASSUME NEW h, IsHeap(h), NEW b \in DOMAIN h.share, NEW c \in Nat
  PROVE  Recounted(h.share, Counting(h.share, b, c), b, c)
<1> DEFINE s == Counting(h.share, b, c)
<1>1. h.share[b] \in Block /\ DOMAIN s = DOMAIN h.share
  BY DEF IsHeap, Counting
<1>2. s[b] = [h.share[b] EXCEPT !.counter = c]
  BY DEF Counting
<1>3. s[b] \in Block /\ s[b].counter = c /\ s[b].valid = h.share[b].valid /\ s[b].managed = h.share[b].managed
  BY <1>1, <1>2 DEF Block
<1>4. \A x \in DOMAIN s : x # b => s[x] = h.share[x]
  BY DEF Counting
<1>5. \A x \in DOMAIN s : s[x] \in Block
  BY <1>1, <1>3, <1>4 DEF IsHeap
<1>6. s = [x \in DOMAIN h.share |-> s[x]]
  BY DEF Counting
<1> HIDE DEF s
<1>7. s \in [DOMAIN s -> Block]
  BY <1>1, <1>5, <1>6
<1>8. Recounted(h.share, s, b, c)
  BY <1>1, <1>3, <1>4, <1>7 DEF Recounted
<1>. QED
  BY <1>8 DEF s

\* The heap g is h, with one more user of the block c counted.
CountedUp(h, g, c) ==
  /\ IsHeap(g) /\ g.ptr = h.ptr /\ SameObjects(h, g) /\ g.broken = {}
  /\ DOMAIN g.share = DOMAIN h.share /\ SameFlags(h, g)
  /\ \A b \in DOMAIN h.share : g.share[b].counter = h.share[b].counter + (IF b = c THEN 1 ELSE 0)

LEMMA AddRefEffect ==
  ASSUME FewPointers, NEW h, IsHeap(h), Counted(h), NEW r \in Pointers, NEW v \in Pointers,
         h.ptr[v].share = NoBlock, NEW g, g = AddRef(h, h.ptr[r].share)
  PROVE  CountedUp(h, g, h.ptr[r].share)
<1> USE DEF CountedUp
<1> DEFINE b == h.ptr[r].share
<1>1. CASE b = NoBlock
  <2>1. g = h /\ NoBlock \notin DOMAIN h.share
    BY <1>1, HeapAssumption DEF AddRef, IsHeap
  <2>2. \A x \in DOMAIN h.share : h.share[x].counter \in Nat
    BY DEF IsHeap, Block
  <2>. QED
    BY <1>1, <2>1, <2>2 DEF SameObjects, SameFlags, Counted
<1>2. CASE b # NoBlock
  <2>1. b \in DOMAIN h.share /\ h.share[b] \in Block /\ h.share[b].counter \in Nat
    BY <1>2 DEF Counted, IsHeap, Block
  <2>2. h.share[b].counter + 1 < Wrap
    <3>1. Users(h, b) \subseteq Pointers \ {v}
      BY <1>2 DEF Users
    <3>2. IsFiniteSet(Pointers \ {v}) /\ Cardinality(Pointers \ {v}) = Cardinality(Pointers) - 1
      BY PointersFinite, FS_RemoveElement
    <3>3. Cardinality(Users(h, b)) <= Cardinality(Pointers) - 1
      BY <3>1, <3>2, FS_Subset
    <3>. QED
      BY <3>3, <2>1, PointersFinite, HeapAssumption DEF Counted, FewPointers
  <2>3. (h.share[b].counter + 1) % Wrap = h.share[b].counter + 1
    <3>1. ASSUME NEW c \in Nat, NEW w \in Nat, c + 1 < w PROVE (c + 1) % w = c + 1
      BY <3>1
    <3>2. Wrap \in Nat
      BY HeapAssumption
    <3>. QED
      BY <2>1, <2>2, <3>1, <3>2
  <2>4. PICK c \in Nat : c = h.share[b].counter + 1
    BY <2>1
  <2>5. g = WithCounter(h, b, c)
    <3>1. g = [h EXCEPT !.share[b].counter = (@ + 1) % Wrap]
      BY <1>2, <2>1 DEF AddRef
    <3>. QED
      BY <2>3, <2>4, <3>1 DEF IsHeap, WithCounter
  <2>6. /\ g.share = Counting(h.share, b, c)
        /\ g.ptr = h.ptr /\ SameObjects(h, g) /\ g.broken = h.broken
        /\ g = [ptr |-> g.ptr, share |-> g.share, alive |-> g.alive, raw |-> g.raw,
                outside |-> g.outside, broken |-> g.broken]
    BY <2>1, <2>5, CounterFields
  <2>7. Recounted(h.share, g.share, b, c)
    BY <2>1, <2>6, CounterPut
  <2>8. IsHeap(g)
    BY <2>6, <2>7 DEF IsHeap, SameObjects, Recounted
  <2>9. \A x \in DOMAIN h.share :
          g.share[x].counter = h.share[x].counter + (IF x = b THEN 1 ELSE 0)
    <3>1. ASSUME NEW x \in DOMAIN h.share, x # b PROVE g.share[x].counter = h.share[x].counter + 0
      <4>1. h.share[x].counter \in Nat
        BY DEF IsHeap, Block
      <4>. QED
        BY <3>1, <4>1, <2>7 DEF Recounted
    <3>. QED
      BY <3>1, <2>4, <2>7 DEF Recounted
  <2>. QED
    BY <2>6, <2>7, <2>8, <2>9 DEF Counted, SameFlags, Recounted
<1>. QED
  BY <1>1, <1>2

\* What a pointer is.
Fields(x, b, o, own, strong) == x.share = b /\ x.obj = o /\ x.own = own /\ x.strong = strong

LEMMA EmptyPointer ==
  /\ Empty \in Pointer
  /\ \A x \in Pointer : Fields(x, NoBlock, NoObject, NoObject, NoObject) => x = Empty
BY DEF Pointer, Empty, Fields

\* The heap in which v has another block and object.
Joined(h, v, b, o) == [h EXCEPT !.ptr[v].share = b, !.ptr[v].obj = o]

\* Only the pointer v of h is another one in g.
PointerChanged(h, g, v) ==
  /\ IsHeap(g) /\ Only(h, g, v) /\ SameObjects(h, g)
  /\ g.share = h.share /\ g.broken = h.broken

LEMMA JoinedFields ==
  ASSUME NEW h, IsHeap(h), NEW v \in Pointers, NEW b \in Blocks \cup {NoBlock},
         NEW o \in Objects \cup {NoObject}, NEW g, g = Joined(h, v, b, o)
  PROVE  /\ PointerChanged(h, g, v)
         /\ Fields(g.ptr[v], b, o, h.ptr[v].own, h.ptr[v].strong)
<1>1. g.ptr = Put(h.ptr, v, Pointing(h.ptr[v], b, o))
  BY DEF IsHeap, Joined, Put, Pointing
<1>2. g.share = h.share /\ g.broken = h.broken /\ SameObjects(h, g)
  BY DEF IsHeap, Joined, SameObjects
<1>3. g = [ptr |-> g.ptr, share |-> g.share, alive |-> g.alive, raw |-> g.raw,
           outside |-> g.outside, broken |-> g.broken]
  BY DEF IsHeap, Joined
<1>4. h.ptr[v] \in Pointer
  BY DEF IsHeap
<1> DEFINE x == Pointing(h.ptr[v], b, o)
<1>5. x \in Pointer /\ Fields(x, b, o, h.ptr[v].own, h.ptr[v].strong)
  BY <1>4, PointerFields DEF Fields
<1> HIDE DEF x
<1>6. g.ptr \in [Pointers -> Pointer] /\ g.ptr[v] = x /\ Only(h, g, v)
  BY <1>1, <1>5, PointerPut DEF Only, x
<1>7. IsHeap(g)
  BY <1>2, <1>3, <1>6 DEF IsHeap, SameObjects
<1>. QED
  BY <1>2, <1>5, <1>6, <1>7 DEF PointerChanged

LEMMA ShareWithEffect ==
  ASSUME FewPointers, NEW h, IsHeap(h), Counted(h), NEW v \in Pointers, NEW r \in Pointers, v # r,
         h.ptr[v].share = NoBlock, NEW g, g = ShareWith(h, v, r)
  PROVE  /\ IsHeap(g) /\ Counted(g) /\ Only(h, g, v) /\ SameObjects(h, g)
         /\ Fields(g.ptr[v], h.ptr[r].share, h.ptr[r].obj, h.ptr[v].own, h.ptr[v].strong)
         /\ DOMAIN g.share = DOMAIN h.share /\ SameFlags(h, g)
<1> DEFINE b == h.ptr[r].share
<1>0. PICK k : k = AddRef(h, b)
  OBVIOUS
<1>1. /\ IsHeap(k) /\ k.ptr = h.ptr /\ SameObjects(h, k) /\ k.broken = {}
      /\ DOMAIN k.share = DOMAIN h.share /\ SameFlags(h, k)
      /\ \A x \in DOMAIN h.share : k.share[x].counter = h.share[x].counter + (IF x = b THEN 1 ELSE 0)
  <2>1. CountedUp(h, k, b)
    BY <1>0, AddRefEffect
  <2>. QED
    BY <2>1 DEF CountedUp
<1>2. h.ptr[r] \in Pointer /\ b \in Blocks \cup {NoBlock} /\ h.ptr[r].obj \in Objects \cup {NoObject}
  BY DEF IsHeap, Pointer
<1>3. g = Joined(k, v, b, h.ptr[r].obj)
  BY <1>0 DEF ShareWith, Joined
<1>4. PointerChanged(k, g, v) /\ Fields(g.ptr[v], b, h.ptr[r].obj, h.ptr[v].own, h.ptr[v].strong)
  BY <1>1, <1>2, <1>3, JoinedFields
<1>5. Only(h, g, v) /\ SameObjects(h, g) /\ IsHeap(g) /\ g.share = k.share /\ g.broken = {}
  BY <1>1, <1>4 DEF PointerChanged, Only, SameObjects
<1>6. SameFlags(h, g) /\ DOMAIN g.share = DOMAIN h.share
  BY <1>1, <1>5 DEF SameFlags
<1>7. \A w \in Pointers : g.ptr[w].share = IF w = v THEN b ELSE h.ptr[w].share
  BY <1>4, <1>5 DEF Only, Fields
<1>8. Counted(g)
  <2>1. \A w \in Pointers : g.ptr[w].share \in DOMAIN g.share \cup {NoBlock}
    BY <1>6, <1>7 DEF Counted
  <2>2. ASSUME NEW x \in DOMAIN h.share
        PROVE  Users(g, x) # {} /\ g.share[x].counter = Cardinality(Users(g, x))
    <3>1. Users(h, x) # {} /\ h.share[x].counter = Cardinality(Users(h, x)) /\ x # NoBlock
      BY HeapAssumption DEF Counted, IsHeap
    <3>2. IsFiniteSet(Users(h, x)) /\ Cardinality(Users(h, x)) \in Nat
      BY PointersFinite DEF Users
    <3>3. CASE x = b
      <4>1. v \notin Users(h, x) /\ Users(g, x) = Users(h, x) \cup {v}
        BY <1>7, <3>1, <3>3 DEF Users
      <4>2. Cardinality(Users(h, x) \cup {v}) = Cardinality(Users(h, x)) + 1
        BY <3>2, <4>1, FS_AddElement
      <4>. QED
        BY <1>1, <1>5, <3>1, <3>3, <4>1, <4>2
    <3>4. CASE x # b
      <4>1. Users(g, x) = Users(h, x)
        BY <1>7, <3>1, <3>4 DEF Users
      <4>. QED
        BY <1>1, <1>5, <3>1, <3>2, <3>4, <4>1
    <3>. QED
      BY <3>3, <3>4
  <2>. QED
    BY <1>5, <1>6, <2>1, <2>2 DEF Counted
<1>. QED
  BY <1>4, <1>5, <1>6, <1>8

Removed(h, b) == [h EXCEPT !.share = [x \in DOMAIN @ \ {b} |-> @[x]]]

LEMMA RemovedFields ==
  ASSUME NEW h, IsHeap(h), NEW b, NEW g, g = Removed(h, b)
  PROVE  /\ IsHeap(g) /\ g.ptr = h.ptr /\ SameObjects(h, g) /\ g.broken = h.broken
         /\ DOMAIN g.share = DOMAIN h.share \ {b}
         /\ \A x \in DOMAIN g.share : g.share[x] = h.share[x]
<1> DEFINE s == [x \in DOMAIN h.share \ {b} |-> h.share[x]]
<1>1. g.share = s
  BY DEF IsHeap, Removed
<1>2. g.ptr = h.ptr /\ g.broken = h.broken /\ SameObjects(h, g)
  BY DEF IsHeap, Removed, SameObjects
<1>3. g = [ptr |-> g.ptr, share |-> g.share, alive |-> g.alive, raw |-> g.raw,
           outside |-> g.outside, broken |-> g.broken]
  BY DEF IsHeap, Removed
<1>4. /\ DOMAIN s = DOMAIN h.share \ {b} /\ \A x \in DOMAIN s : s[x] = h.share[x]
      /\ s \in [DOMAIN s -> Block]
  BY DEF IsHeap
<1> HIDE DEF s
<1>5. IsHeap(g)
  BY <1>1, <1>2, <1>3, <1>4 DEF IsHeap, SameObjects
<1>. QED
  BY <1>1, <1>2, <1>4, <1>5

\* v leaves its block, which goes with its last pointer.
Released(h, g, v) ==
  /\ IsHeap(g) /\ Counted(g) /\ Only(h, g, v) /\ SameObjects(h, g) /\ SameFlags(h, g)
  /\ Fields(g.ptr[v], NoBlock, NoObject, h.ptr[v].own, h.ptr[v].strong)

LEMMA ReleaseShareEffect ==
  ASSUME FewPointers, NEW h, IsHeap(h), Counted(h), NEW v \in Pointers
  PROVE  Released(h, ReleaseShare(h, v), v)
<1> DEFINE b == h.ptr[v].share
<1>0. PICK g : g = ReleaseShare(h, v)
  OBVIOUS
<1>1. PICK k : k = Joined(h, v, NoBlock, NoObject)
  OBVIOUS
<1>2. PointerChanged(h, k, v) /\ Fields(k.ptr[v], NoBlock, NoObject, h.ptr[v].own, h.ptr[v].strong)
  BY <1>1, JoinedFields
<1>3. /\ IsHeap(k) /\ Only(h, k, v) /\ SameObjects(h, k) /\ k.share = h.share /\ k.broken = {}
      /\ \A w \in Pointers : k.ptr[w].share = IF w = v THEN NoBlock ELSE h.ptr[w].share
  BY <1>2 DEF PointerChanged, Only, Fields, Counted
<1>4. CASE b = NoBlock
  <2>1. g = k
    BY <1>0, <1>1, <1>4 DEF ReleaseShare, Joined
  <2>2. Counted(k)
    BY <1>3, <1>4, SameBlocksCounted
  <2>3. SameFlags(h, k)
    BY <1>3 DEF SameFlags
  <2>. QED
    BY <1>0, <1>2, <1>3, <2>1, <2>2, <2>3 DEF Released
<1>5. CASE b # NoBlock
  <2>1. b \in DOMAIN h.share /\ h.share[b] \in Block /\ h.share[b].counter = Cardinality(Users(h, b))
    BY <1>5 DEF Counted, IsHeap
  <2>2. v \in Users(h, b) /\ IsFiniteSet(Users(h, b)) /\ Cardinality(Users(h, b)) \in Nat
        /\ Cardinality(Users(h, b)) < Wrap
    <3>1. Users(h, b) \in SUBSET Pointers /\ v \in Users(h, b)
      BY DEF Users
    <3>. QED
      BY <3>1, PointersFinite, HeapAssumption DEF FewPointers
  <2>3. PICK c \in Nat : c + 1 = h.share[b].counter
    <3>1. Cardinality(Users(h, b)) # 0
      BY <2>2, FS_EmptySet
    <3>2. Cardinality(Users(h, b)) - 1 \in Nat
      BY <2>2, <3>1
    <3>. QED
      BY <2>1, <3>2, <2>2
  <2>4. (h.share[b].counter + Wrap - 1) % Wrap = c
    <3>1. ASSUME NEW w \in Nat, NEW d \in Nat, d + 1 < w PROVE (d + 1 + w - 1) % w = d
      <4>1. d + 1 + w - 1 = w * 1 + d /\ d \in 0 .. w - 1
        BY <3>1
      <4>. QED
        BY <3>1, <4>1
    <3>2. Wrap \in Nat /\ c + 1 < Wrap
      BY <2>1, <2>2, <2>3, HeapAssumption
    <3>. QED
      BY <2>3, <3>1, <3>2
  <2>5. ASSUME NEW x \in DOMAIN h.share, x # b PROVE Users(k, x) = Users(h, x)
    <3>1. x # NoBlock
      BY HeapAssumption DEF IsHeap
    <3>. QED
      BY <1>3, <2>5, <3>1 DEF Users
  <2>6. Users(k, b) = Users(h, b) \ {v} /\ Cardinality(Users(k, b)) = c
    <3>1. Users(k, b) = Users(h, b) \ {v}
      BY <1>3, <1>5 DEF Users
    <3>2. Cardinality(Users(h, b) \ {v}) = Cardinality(Users(h, b)) - 1
      BY <2>2, FS_RemoveElement
    <3>. QED
      BY <2>1, <2>2, <2>3, <3>1, <3>2
  <2>7. Users(k, b) = {} <=> c = 0
    <3>1. IsFiniteSet(Users(k, b))
      BY PointersFinite DEF Users
    <3>. QED
      BY <2>6, <3>1, FS_EmptySet
  <2>8. CASE c = 0
    <3>1. g = Removed(k, b)
      BY <1>0, <1>1, <1>5, <2>1, <2>4, <2>8 DEF ReleaseShare, Removed, Joined
    <3>2. /\ IsHeap(g) /\ g.ptr = k.ptr /\ SameObjects(k, g) /\ g.broken = k.broken
          /\ DOMAIN g.share = DOMAIN k.share \ {b}
          /\ \A x \in DOMAIN g.share : g.share[x] = k.share[x]
      BY <1>3, <3>1, RemovedFields
    <3>3. \A x : Users(g, x) = Users(k, x)
      BY <3>2 DEF Users
    <3>4. \A w \in Pointers : g.ptr[w].share \in DOMAIN g.share \cup {NoBlock}
      <4>1. \A w \in Pointers : k.ptr[w].share # b
        BY <2>7, <2>8 DEF Users
      <4>2. \A w \in Pointers : k.ptr[w].share \in DOMAIN h.share \cup {NoBlock}
        BY <1>3 DEF Counted
      <4>. QED
        BY <1>3, <3>2, <4>1, <4>2
    <3>5. \A x \in DOMAIN g.share : Users(g, x) # {} /\ g.share[x].counter = Cardinality(Users(g, x))
      BY <1>3, <2>5, <3>2, <3>3 DEF Counted
    <3>6. Counted(g)
      BY <1>3, <3>2, <3>4, <3>5 DEF Counted
    <3>7. SameFlags(h, g) /\ Only(h, g, v) /\ SameObjects(h, g)
      BY <1>3, <3>2 DEF SameFlags, Only, SameObjects
    <3>. QED
      BY <1>0, <1>2, <3>2, <3>6, <3>7 DEF Released
  <2>9. CASE c # 0
    <3>1. g = WithCounter(k, b, c)
      BY <1>0, <1>1, <1>5, <2>1, <2>4, <2>9 DEF ReleaseShare, WithCounter, Joined
    <3>2. g.share = Counting(k.share, b, c) /\ g.ptr = k.ptr /\ SameObjects(k, g) /\ g.broken = k.broken
          /\ g = [ptr |-> g.ptr, share |-> g.share, alive |-> g.alive, raw |-> g.raw,
                  outside |-> g.outside, broken |-> g.broken]
      BY <1>3, <2>1, <3>1, CounterFields
    <3>3. Recounted(k.share, g.share, b, c)
      BY <1>3, <2>1, <3>2, CounterPut
    <3>4. IsHeap(g)
      BY <1>3, <3>2, <3>3 DEF IsHeap, SameObjects, Recounted
    <3>5. \A x : Users(g, x) = Users(k, x)
      BY <3>2 DEF Users
    <3>6. \A w \in Pointers : g.ptr[w].share \in DOMAIN g.share \cup {NoBlock}
      BY <1>3, <3>2, <3>3 DEF Counted, Recounted
    <3>7. \A x \in DOMAIN g.share : Users(g, x) # {} /\ g.share[x].counter = Cardinality(Users(g, x))
      BY <1>3, <2>5, <2>6, <2>7, <2>9, <3>3, <3>5 DEF Counted, Recounted
    <3>8. Counted(g)
      BY <1>3, <3>2, <3>6, <3>7 DEF Counted
    <3>9. SameFlags(h, g) /\ Only(h, g, v) /\ SameObjects(h, g)
      BY <1>3, <3>2, <3>3 DEF SameFlags, Only, SameObjects, Recounted
    <3>. QED
      BY <1>0, <1>2, <3>2, <3>4, <3>8, <3>9 DEF Released
  <2>. QED
    BY <2>8, <2>9
<1>. QED
  BY <1>4, <1>5

-----------------------------------------------------------------------------
(***************************************************************************)
(* One field                                                               *)
(***************************************************************************)
SetObj(h, v, o) == [h EXCEPT !.ptr[v].obj = o]
SetOwn(h, v, o) == [h EXCEPT !.ptr[v].own = o]
SetStrong(h, v, o) == [h EXCEPT !.ptr[v].strong = o]
SetObjects(h, A, R, U) == [h EXCEPT !.alive = A, !.raw = R, !.outside = U]

LEMMA SetObjFields ==
  ASSUME NEW h, IsHeap(h), NEW v \in Pointers, NEW o \in Objects \cup {NoObject}
  PROVE  /\ PointerChanged(h, SetObj(h, v, o), v)
         /\ Fields(SetObj(h, v, o).ptr[v], h.ptr[v].share, o, h.ptr[v].own, h.ptr[v].strong)
<1>0. PICK g : g = SetObj(h, v, o)
  OBVIOUS
<1>1. PICK x : x = [h.ptr[v] EXCEPT !.obj = o]
  OBVIOUS
<1>2. g.ptr = Put(h.ptr, v, x)
  BY <1>0, <1>1 DEF IsHeap, SetObj, Put
<1>3. g.share = h.share /\ g.broken = h.broken /\ SameObjects(h, g)
  BY <1>0 DEF IsHeap, SetObj, SameObjects
<1>4. g = [ptr |-> g.ptr, share |-> g.share, alive |-> g.alive, raw |-> g.raw,
           outside |-> g.outside, broken |-> g.broken]
  BY <1>0 DEF IsHeap, SetObj
<1>5. h.ptr[v] \in Pointer
  BY DEF IsHeap
<1>6. x \in Pointer /\ Fields(x, h.ptr[v].share, o, h.ptr[v].own, h.ptr[v].strong)
  BY <1>1, <1>5 DEF Pointer, Fields
<1>7. g.ptr \in [Pointers -> Pointer] /\ g.ptr[v] = x /\ Only(h, g, v)
  BY <1>2, <1>6, PointerPut DEF Only
<1>8. IsHeap(g)
  BY <1>3, <1>4, <1>7 DEF IsHeap, SameObjects
<1>. QED
  BY <1>0, <1>3, <1>6, <1>7, <1>8 DEF PointerChanged

LEMMA SetOwnFields ==
  ASSUME NEW h, IsHeap(h), NEW v \in Pointers, NEW o \in Objects \cup {NoObject}
  PROVE  /\ PointerChanged(h, SetOwn(h, v, o), v)
         /\ Fields(SetOwn(h, v, o).ptr[v], h.ptr[v].share, h.ptr[v].obj, o, h.ptr[v].strong)
<1>0. PICK g : g = SetOwn(h, v, o)
  OBVIOUS
<1>1. PICK x : x = [h.ptr[v] EXCEPT !.own = o]
  OBVIOUS
<1>2. g.ptr = Put(h.ptr, v, x)
  BY <1>0, <1>1 DEF IsHeap, SetOwn, Put
<1>3. g.share = h.share /\ g.broken = h.broken /\ SameObjects(h, g)
  BY <1>0 DEF IsHeap, SetOwn, SameObjects
<1>4. g = [ptr |-> g.ptr, share |-> g.share, alive |-> g.alive, raw |-> g.raw,
           outside |-> g.outside, broken |-> g.broken]
  BY <1>0 DEF IsHeap, SetOwn
<1>5. h.ptr[v] \in Pointer
  BY DEF IsHeap
<1>6. x \in Pointer /\ Fields(x, h.ptr[v].share, h.ptr[v].obj, o, h.ptr[v].strong)
  BY <1>1, <1>5 DEF Pointer, Fields
<1>7. g.ptr \in [Pointers -> Pointer] /\ g.ptr[v] = x /\ Only(h, g, v)
  BY <1>2, <1>6, PointerPut DEF Only
<1>8. IsHeap(g)
  BY <1>3, <1>4, <1>7 DEF IsHeap, SameObjects
<1>. QED
  BY <1>0, <1>3, <1>6, <1>7, <1>8 DEF PointerChanged

LEMMA SetStrongFields ==
  ASSUME NEW h, IsHeap(h), NEW v \in Pointers, NEW o \in Objects \cup {NoObject}
  PROVE  /\ PointerChanged(h, SetStrong(h, v, o), v)
         /\ Fields(SetStrong(h, v, o).ptr[v], h.ptr[v].share, h.ptr[v].obj, h.ptr[v].own, o)
<1>0. PICK g : g = SetStrong(h, v, o)
  OBVIOUS
<1>1. PICK x : x = [h.ptr[v] EXCEPT !.strong = o]
  OBVIOUS
<1>2. g.ptr = Put(h.ptr, v, x)
  BY <1>0, <1>1 DEF IsHeap, SetStrong, Put
<1>3. g.share = h.share /\ g.broken = h.broken /\ SameObjects(h, g)
  BY <1>0 DEF IsHeap, SetStrong, SameObjects
<1>4. g = [ptr |-> g.ptr, share |-> g.share, alive |-> g.alive, raw |-> g.raw,
           outside |-> g.outside, broken |-> g.broken]
  BY <1>0 DEF IsHeap, SetStrong
<1>5. h.ptr[v] \in Pointer
  BY DEF IsHeap
<1>6. x \in Pointer /\ Fields(x, h.ptr[v].share, h.ptr[v].obj, h.ptr[v].own, o)
  BY <1>1, <1>5 DEF Pointer, Fields
<1>7. g.ptr \in [Pointers -> Pointer] /\ g.ptr[v] = x /\ Only(h, g, v)
  BY <1>2, <1>6, PointerPut DEF Only
<1>8. IsHeap(g)
  BY <1>3, <1>4, <1>7 DEF IsHeap, SameObjects
<1>. QED
  BY <1>0, <1>3, <1>6, <1>7, <1>8 DEF PointerChanged

LEMMA ObjectsFields ==
  ASSUME NEW h, IsHeap(h), NEW A \in SUBSET Objects, NEW R \in SUBSET Objects, NEW U \in SUBSET Objects,
         NEW g, g = SetObjects(h, A, R, U)
  PROVE  /\ IsHeap(g) /\ g.alive = A /\ g.raw = R /\ g.outside = U
         /\ g.ptr = h.ptr /\ g.share = h.share /\ g.broken = h.broken
<1>1. /\ g.alive = A /\ g.raw = R /\ g.outside = U
      /\ g.ptr = h.ptr /\ g.share = h.share /\ g.broken = h.broken
  BY DEF IsHeap, SetObjects
<1>2. g = [ptr |-> g.ptr, share |-> g.share, alive |-> g.alive, raw |-> g.raw,
           outside |-> g.outside, broken |-> g.broken]
  BY DEF IsHeap, SetObjects
<1>. QED
  BY <1>1, <1>2 DEF IsHeap

\* Changing what v points to or owns does not change the counters.
LEMMA ChangedCounted ==
  ASSUME NEW h, NEW g, NEW v \in Pointers, PointerChanged(h, g, v), Counted(h),
         g.ptr[v].share = h.ptr[v].share
  PROVE  Counted(g)
<1>1. /\ g.broken = {} /\ g.share = h.share
      /\ \A w \in Pointers : g.ptr[w].share = h.ptr[w].share
  BY DEF PointerChanged, Only, Counted
<1>. QED
  BY <1>1, SameBlocksCounted

\* v and all who share its block become nullptr.
Nulled(h, g, v) ==
  /\ IsHeap(g) /\ Counted(g) /\ Only(h, g, v) /\ SameObjects(h, g)
  /\ Fields(g.ptr[v], h.ptr[v].share, NoObject, h.ptr[v].own, h.ptr[v].strong)
  /\ DOMAIN g.share = DOMAIN h.share
  /\ \A b \in DOMAIN h.share :
       IF b = h.ptr[v].share THEN ~g.share[b].valid /\ ~g.share[b].managed
       ELSE g.share[b].valid = h.share[b].valid /\ g.share[b].managed = h.share[b].managed

SetFlags(h, b, f, m) == [h EXCEPT !.share[b].valid = f, !.share[b].managed = m]

\* The heap g is h, with these flags at b.
Flagged(h, g, b, f, m) ==
  /\ IsHeap(g) /\ g.ptr = h.ptr /\ SameObjects(h, g) /\ g.broken = h.broken
  /\ DOMAIN g.share = DOMAIN h.share
  /\ \A x \in DOMAIN h.share : x # b => g.share[x] = h.share[x]
  /\ g.share[b].valid = f /\ g.share[b].managed = m /\ g.share[b].counter = h.share[b].counter

LEMMA FlagsFields ==
  ASSUME NEW h, IsHeap(h), NEW b \in DOMAIN h.share, NEW f \in BOOLEAN, NEW m \in BOOLEAN,
         NEW g, g = SetFlags(h, b, f, m)
  PROVE  Flagged(h, g, b, f, m)
<1> USE DEF Flagged
<1>1. PICK y : y = [h.share[b] EXCEPT !.valid = f, !.managed = m]
  OBVIOUS
<1>2. h.share[b] \in Block
  BY DEF IsHeap
<1>3. y \in Block /\ y.valid = f /\ y.managed = m /\ y.counter = h.share[b].counter
  BY <1>1, <1>2 DEF Block
<1>4. g.share = Put(h.share, b, y)
  BY <1>1 DEF IsHeap, SetFlags, Put
<1>5. g.ptr = h.ptr /\ g.broken = h.broken /\ SameObjects(h, g)
  BY DEF IsHeap, SetFlags, SameObjects
<1>6. g = [ptr |-> g.ptr, share |-> g.share, alive |-> g.alive, raw |-> g.raw,
           outside |-> g.outside, broken |-> g.broken]
  BY DEF IsHeap, SetFlags
<1>7. /\ DOMAIN g.share = DOMAIN h.share /\ g.share[b] = y
      /\ \A x \in DOMAIN h.share : x # b => g.share[x] = h.share[x]
  BY <1>4 DEF Put
<1>8. g.share \in [DOMAIN g.share -> Block]
  BY <1>3, <1>4 DEF IsHeap, Put
<1>9. IsHeap(g)
  BY <1>5, <1>6, <1>7, <1>8 DEF IsHeap, SameObjects
<1>. QED
  BY <1>3, <1>5, <1>7, <1>9

LEMMA SetNullptrEffect ==
  ASSUME NEW h, IsHeap(h), Counted(h), NEW v \in Pointers
  PROVE  Nulled(h, SetNullptr(h, v), v)
<1> DEFINE b == h.ptr[v].share
<1>0. PICK g : g = SetNullptr(h, v)
  OBVIOUS
<1>1. PICK k : k = SetObj(h, v, NoObject)
  OBVIOUS
<1>2. PointerChanged(h, k, v) /\ Fields(k.ptr[v], b, NoObject, h.ptr[v].own, h.ptr[v].strong)
  BY <1>1, SetObjFields
<1>3. Counted(k) /\ IsHeap(k) /\ k.share = h.share /\ Only(h, k, v) /\ SameObjects(h, k)
  BY <1>2, ChangedCounted DEF PointerChanged, Fields
<1>4. CASE b \notin DOMAIN h.share
  <2>1. g = k
    BY <1>0, <1>1, <1>4 DEF SetNullptr, SetObj
  <2>. QED
    BY <1>0, <1>2, <1>3, <1>4, <2>1 DEF Nulled
<1>5. CASE b \in DOMAIN h.share
  <2>1. g = SetFlags(k, b, FALSE, FALSE)
    BY <1>0, <1>1, <1>5 DEF SetNullptr, SetObj, SetFlags
  <2>2. /\ IsHeap(g) /\ g.ptr = k.ptr /\ SameObjects(k, g) /\ g.broken = k.broken
        /\ DOMAIN g.share = DOMAIN k.share
        /\ \A x \in DOMAIN k.share : x # b => g.share[x] = k.share[x]
        /\ ~g.share[b].valid /\ ~g.share[b].managed /\ g.share[b].counter = k.share[b].counter
    <3>1. Flagged(k, g, b, FALSE, FALSE)
      BY <1>3, <1>5, <2>1, FlagsFields
    <3>. QED
      BY <3>1 DEF Flagged
  <2>3. /\ g.broken = {} /\ \A x \in DOMAIN k.share : g.share[x].counter = k.share[x].counter
        /\ \A w \in Pointers : g.ptr[w].share = k.ptr[w].share
    BY <1>3, <2>2 DEF Counted
  <2>4. Counted(g)
    BY <1>3, <2>2, <2>3, SameBlocksCounted
  <2>5. Only(h, g, v) /\ SameObjects(h, g)
    BY <1>3, <2>2 DEF Only, SameObjects
  <2>6. \A x \in DOMAIN h.share :
          IF x = b THEN ~g.share[x].valid /\ ~g.share[x].managed
          ELSE g.share[x].valid = h.share[x].valid /\ g.share[x].managed = h.share[x].managed
    BY <1>3, <2>2
  <2>. QED
    BY <1>0, <1>2, <1>3, <2>2, <2>4, <2>5, <2>6 DEF Nulled
<1>. QED
  BY <1>4, <1>5

-----------------------------------------------------------------------------
(***************************************************************************)
(* What pointers, blocks and objects have to do with each other            *)
(***************************************************************************)

\* The pointers a program or an operation handles; the others are auto_this.
Plain == Vars \cup {Tmp, Tmp2}

\* The pointers of a block point to one object, or to none.
Agree(h) ==
  \A v, w \in Pointers :
    /\ h.ptr[v].share = h.ptr[w].share /\ h.ptr[v].share # NoBlock
    /\ h.ptr[v].obj # NoObject /\ h.ptr[w].obj # NoObject
    => h.ptr[v].obj = h.ptr[w].obj

\* An owner points to its object as long as that is alive, in the block of its
\* auto_this, and nobody else has to delete it.
Owning(h) ==
  /\ \A v \in Pointers : h.ptr[v].own # NoObject =>
       /\ h.ptr[v].own \notin SharedObjects \cup h.raw
       /\ h.ptr[v].own \in h.alive => get(h, v) = h.ptr[v].own
       /\ h.ptr[v].own \notin h.alive => get(h, v) = NoObject
       /\ h.ptr[v].own \in h.alive \cap FromThis => h.ptr[v].share = h.ptr[h.ptr[v].own].share
  /\ \A v, w \in Pointers : h.ptr[v].own = h.ptr[w].own /\ h.ptr[v].own # NoObject => v = w

\* A sharer points to its object, which is alive.
Sharing(h) ==
  \A v \in Pointers : h.ptr[v].strong # NoObject =>
    h.ptr[v].strong \in SharedObjects \cap h.alive /\ get(h, v) = h.ptr[v].strong

\* An auto_this points to its object, if to anything.
SelfPointers(h) ==
  \A o \in FromThis :
    \/ h.ptr[o] = Empty
    \/ /\ o \in h.alive /\ valid(h, o)
       /\ h.ptr[o].obj = o /\ h.ptr[o].own = NoObject /\ h.ptr[o].strong = NoObject

\* An object that is alive has somebody who deletes it ...
Owned(h) ==
  /\ \A o \in h.alive \cap SharedObjects : o \in h.outside \/ \E v \in Pointers : h.ptr[v].strong = o
  /\ \A o \in h.alive \ SharedObjects : o \in h.raw \/ \E v \in Pointers : h.ptr[v].own = o

\* ... callers only what is alive and of the kind.
Callers(h) ==
  /\ h.raw \subseteq h.alive \ SharedObjects
  /\ h.outside \subseteq h.alive \cap SharedObjects

\* Objects belong to those that were made.
Within(h, B) ==
  /\ h.alive \subseteq B
  /\ \A v \in Pointers : h.ptr[v].own \in B \cup {NoObject}

Solid(h, B) ==
  /\ IsHeap(h) /\ Counted(h)
  /\ Agree(h) /\ Owning(h) /\ Sharing(h) /\ SelfPointers(h) /\ Owned(h) /\ Callers(h) /\ Within(h, B)

\* A managed pointer has the owner or the auto_this of its object in its block.
Keeps(h, w, v) ==
  /\ h.ptr[w].share = h.ptr[v].share /\ get(h, w) = get(h, v)
  /\ h.ptr[w].own = get(h, v) \/ w = get(h, v)

ManagedBut(h, b) ==
  \A v \in Pointers : h.ptr[v].share # b /\ is_managed(h, v) /\ get(h, v) \notin SharedObjects =>
    \E w \in Pointers : Keeps(h, w, v)

Managed(h) == ManagedBut(h, NoBlock)

Sound(h, B) == Solid(h, B) /\ Managed(h)

\* An empty pointer gets a place in a new block, or in the block of r.
PlacedNew(h, g, v, o, managed) ==
  /\ IsHeap(g) /\ Counted(g) /\ Only(h, g, v) /\ SameObjects(h, g)
  /\ \E b \in Blocks \ DOMAIN h.share :
       /\ Fields(g.ptr[v], b, o, NoObject, NoObject)
       /\ DOMAIN g.share = DOMAIN h.share \cup {b}
       /\ g.share[b].valid = TRUE /\ g.share[b].managed = managed
       /\ \A x \in DOMAIN h.share : g.share[x] = h.share[x]

PlacedWith(h, g, v, r, o) ==
  /\ IsHeap(g) /\ Counted(g) /\ Only(h, g, v) /\ SameObjects(h, g)
  /\ Fields(g.ptr[v], h.ptr[r].share, o, NoObject, NoObject)
  /\ DOMAIN g.share = DOMAIN h.share /\ SameFlags(h, g)

LEMMA PlacedNewSolid ==
  ASSUME NEW B, NEW h, Solid(h, B), NEW v \in Pointers, h.ptr[v] = Empty, NEW o \in h.alive,
         v \in Plain \/ v = o, NEW managed \in BOOLEAN, NEW g, PlacedNew(h, g, v, o, managed)
  PROVE  /\ Solid(g, B)
         /\ \A w \in Pointers : w # v => g.ptr[w] = h.ptr[w] /\ get(g, w) = get(h, w)
         /\ get(g, v) = o /\ Fields(g.ptr[v], g.ptr[v].share, o, NoObject, NoObject)
         /\ Managed(h) => ManagedBut(g, g.ptr[v].share)
         /\ Managed(h) /\ (managed => o \in SharedObjects \cup {v}) => Managed(g)
<1>1. PICK b \in Blocks \ DOMAIN h.share :
        /\ Fields(g.ptr[v], b, o, NoObject, NoObject)
        /\ DOMAIN g.share = DOMAIN h.share \cup {b}
        /\ g.share[b].valid = TRUE /\ g.share[b].managed = managed
        /\ \A x \in DOMAIN h.share : g.share[x] = h.share[x]
  BY DEF PlacedNew
<1>2. /\ IsHeap(g) /\ Counted(g) /\ Only(h, g, v)
      /\ g.alive = h.alive /\ g.raw = h.raw /\ g.outside = h.outside
  BY DEF PlacedNew, SameObjects
<1>3. b # NoBlock /\ o # NoObject /\ o \in Objects
  BY HeapAssumption DEF Solid, IsHeap
<1>4. \A w \in Pointers : w # v =>
        /\ g.ptr[w] = h.ptr[w] /\ g.ptr[w].share # b /\ get(g, w) = get(h, w) /\ (valid(g, w) <=> valid(h, w))
        /\ (is_managed(g, w) <=> is_managed(h, w))
  <2>1. ASSUME NEW w \in Pointers, w # v PROVE g.ptr[w] = h.ptr[w] /\ h.ptr[w].share \in DOMAIN h.share \cup {NoBlock}
    BY <1>2, <2>1 DEF Only, Solid, Counted
  <2>2. ASSUME NEW w \in Pointers, w # v PROVE g.ptr[w].share # b
    BY <1>3, <2>1, <2>2
  <2>3. ASSUME NEW w \in Pointers, w # v PROVE get(g, w) = get(h, w) /\ (valid(g, w) <=> valid(h, w))
    BY <1>1, <2>1, <2>2, <2>3 DEF get, valid
  <2>4. ASSUME NEW w \in Pointers, w # v PROVE is_managed(g, w) <=> is_managed(h, w)
    <3>1. CASE get(h, w) = NoObject
      BY <2>3, <2>4, <3>1 DEF is_managed
    <3>2. CASE get(h, w) # NoObject
      <4>1. h.ptr[w].share \in DOMAIN h.share
        BY <3>2 DEF get, valid
      <4>. QED
        BY <1>1, <2>1, <2>3, <2>4, <4>1 DEF is_managed
    <3>. QED
      BY <3>1, <3>2
  <2>. QED
    BY <2>1, <2>2, <2>3, <2>4
<1>5. /\ get(g, v) = o /\ valid(g, v) /\ g.ptr[v].share = b /\ g.ptr[v].obj = o
      /\ g.ptr[v].own = NoObject /\ g.ptr[v].strong = NoObject
  BY <1>1, <1>3 DEF get, valid, Fields
<1>6. Agree(g)
  BY <1>4, <1>5 DEF Agree, Solid
<1>7. Owning(g)
  <2>1. \A w \in Pointers : g.ptr[w].own # NoObject => w # v
    BY <1>5
  <2>2. \A w \in Pointers : g.ptr[w].own # NoObject /\ g.ptr[w].own \in g.alive \cap FromThis =>
          g.ptr[w].share = g.ptr[g.ptr[w].own].share
    <3>1. ASSUME NEW w \in Pointers, g.ptr[w].own # NoObject, g.ptr[w].own \in h.alive \cap FromThis
          PROVE  g.ptr[w].share = g.ptr[g.ptr[w].own].share
      <4>1. /\ w # v /\ g.ptr[w] = h.ptr[w]
            /\ h.ptr[w].share = h.ptr[h.ptr[w].own].share /\ get(h, w) = h.ptr[w].own
        BY <3>1, <2>1, <1>4 DEF Solid, Owning
      <4>2. h.ptr[w].share # NoBlock
        BY <4>1, <3>1 DEF get, valid
      <4>3. h.ptr[w].own # v
        BY <4>1, <4>2 DEF Empty
      <4>. QED
        BY <4>1, <4>3, <3>1, <1>4 DEF Pointers
    <3>. QED
      BY <3>1, <1>2
  <2>. QED
    BY <1>2, <1>4, <1>5, <2>1, <2>2 DEF Owning, Solid
<1>8. Sharing(g)
  BY <1>2, <1>4, <1>5 DEF Sharing, Solid
<1>9. SelfPointers(g)
  <2>1. v \in FromThis => v = o
    BY HeapAssumption DEF Plain
  <2>. QED
    BY <1>2, <1>4, <1>5, <2>1 DEF SelfPointers, Solid, Pointers
<1>10. Owned(g)
  BY <1>2, <1>4, <1>5, <1>3 DEF Owned, Solid, Empty
<1>11. Callers(g) /\ Within(g, B)
  BY <1>2, <1>4, <1>5 DEF Callers, Within, Solid
<1>12. Solid(g, B)
  BY <1>2, <1>6, <1>7, <1>8, <1>9, <1>10, <1>11 DEF Solid
<1>13. ASSUME Managed(h), NEW w \in Pointers, w # v, is_managed(g, w), get(g, w) \notin SharedObjects
       PROVE  \E x \in Pointers : Keeps(g, x, w)
  <2>1. g.ptr[w] = h.ptr[w] /\ get(g, w) = get(h, w) /\ is_managed(h, w)
    BY <1>4, <1>13
  <2>2. get(h, w) # NoObject /\ h.ptr[w].share # NoBlock
    BY <2>1 DEF is_managed, get, valid
  <2>3. PICK x \in Pointers : Keeps(h, x, w)
    BY <1>13, <2>1, <2>2 DEF Managed, ManagedBut
  <2>4. x # v
    BY <2>2, <2>3 DEF Empty, Keeps
  <2>5. g.ptr[x] = h.ptr[x] /\ get(g, x) = get(h, x)
    BY <1>4, <2>4
  <2>6. Keeps(g, x, w)
    BY <2>1, <2>3, <2>5 DEF Keeps
  <2>. QED
    BY <2>6
<1>14. Managed(h) => ManagedBut(g, b)
  BY <1>5, <1>13 DEF ManagedBut
<1>15. Managed(h) /\ (managed => o \in SharedObjects \cup {v}) => Managed(g)
  <2> SUFFICES ASSUME Managed(h), managed => o \in SharedObjects \cup {v},
                      NEW w \in Pointers, is_managed(g, w), get(g, w) \notin SharedObjects
               PROVE  \E x \in Pointers : Keeps(g, x, w)
    BY DEF Managed, ManagedBut
  <2>1. CASE w = v
    <3>1. o = v
      BY <2>1, <1>1, <1>5 DEF is_managed
    <3>. QED
      BY <2>1, <3>1, <1>5 DEF Keeps
  <2>2. CASE w # v
    BY <2>2, <1>13
  <2>. QED
    BY <2>1, <2>2
<1>. QED
  BY <1>4, <1>5, <1>12, <1>14, <1>15 DEF Fields

LEMMA PlacedWithSound ==
  ASSUME NEW B, NEW h, Sound(h, B), NEW v \in Plain, h.ptr[v] = Empty, NEW r \in Pointers, r # v,
         NEW o \in {h.ptr[r].obj, NoObject}, NEW g, PlacedWith(h, g, v, r, o)
  PROVE  /\ Sound(g, B)
         /\ \A w \in Pointers : w # v => g.ptr[w] = h.ptr[w] /\ get(g, w) = get(h, w)
         /\ get(g, v) = IF o = NoObject THEN NoObject ELSE get(h, r)
<1>1. /\ Fields(g.ptr[v], h.ptr[r].share, o, NoObject, NoObject)
      /\ DOMAIN g.share = DOMAIN h.share /\ SameFlags(h, g)
  BY DEF PlacedWith
<1>2. /\ IsHeap(g) /\ Counted(g) /\ Only(h, g, v)
      /\ g.alive = h.alive /\ g.raw = h.raw /\ g.outside = h.outside
  BY DEF PlacedWith, SameObjects
<1>3. v \in Pointers /\ v \notin Objects
  BY HeapAssumption DEF Plain, Pointers
<1>4. \A w \in Pointers : w # v => g.ptr[w] = h.ptr[w]
  BY <1>2 DEF Only
<1>5. \A w \in Pointers : w # v =>
        /\ get(g, w) = get(h, w) /\ (valid(g, w) <=> valid(h, w)) /\ (is_managed(g, w) <=> is_managed(h, w))
  <2>1. ASSUME NEW w \in Pointers, w # v PROVE get(g, w) = get(h, w) /\ (valid(g, w) <=> valid(h, w))
    BY <1>1, <1>4, <2>1 DEF get, valid, SameFlags
  <2>2. ASSUME NEW w \in Pointers, w # v PROVE is_managed(g, w) <=> is_managed(h, w)
    <3>1. CASE get(h, w) = NoObject
      BY <2>1, <2>2, <3>1 DEF is_managed
    <3>2. CASE get(h, w) # NoObject
      <4>1. h.ptr[w].share \in DOMAIN h.share
        BY <3>2 DEF get, valid
      <4>. QED
        BY <1>1, <1>4, <2>1, <2>2, <4>1 DEF is_managed, SameFlags
    <3>. QED
      BY <3>1, <3>2
  <2>. QED
    BY <2>1, <2>2
<1>6. /\ g.ptr[v].share = h.ptr[r].share /\ g.ptr[v].obj = o
      /\ g.ptr[v].own = NoObject /\ g.ptr[v].strong = NoObject
  BY <1>1 DEF Fields
<1>7. get(g, v) = IF o = NoObject THEN NoObject ELSE get(h, r)
  BY <1>1, <1>6 DEF get, valid, SameFlags
<1>8. is_managed(g, v) => is_managed(h, r) /\ get(g, v) = get(h, r)
  <2>1. ASSUME is_managed(g, v) PROVE is_managed(h, r) /\ get(g, v) = get(h, r)
    <3>1. get(g, v) = get(h, r) /\ get(h, r) # NoObject
      BY <2>1, <1>7 DEF is_managed
    <3>2. h.ptr[r].share \in DOMAIN h.share
      BY <3>1 DEF get, valid
    <3>. QED
      BY <1>1, <1>6, <2>1, <3>1, <3>2 DEF is_managed, SameFlags
  <2>. QED
    BY <2>1
<1>9. Agree(g)
  BY <1>4, <1>6 DEF Agree, Sound, Solid
<1>10. Owning(g)
  <2>1. \A w \in Pointers : g.ptr[w].own # NoObject => w # v
    BY <1>6
  <2>2. \A p \in g.alive : p # v
    BY <1>2, <1>3 DEF IsHeap
  <2>. QED
    BY <1>2, <1>4, <1>5, <1>6, <2>1, <2>2 DEF Owning, Sound, Solid, Pointers
<1>11. Sharing(g)
  BY <1>2, <1>4, <1>5, <1>6 DEF Sharing, Sound, Solid
<1>12. SelfPointers(g)
  <2>1. v \notin FromThis
    BY <1>3, HeapAssumption
  <2>. QED
    BY <1>2, <1>4, <1>5, <2>1 DEF SelfPointers, Sound, Solid, Pointers
<1>13. Owned(g)
  <2>1. NoObject \notin h.alive
    BY HeapAssumption DEF Sound, Solid, IsHeap
  <2>. QED
    BY <1>2, <1>4, <1>6, <2>1 DEF Owned, Sound, Solid, Empty
<1>14. Callers(g) /\ Within(g, B)
  BY <1>2, <1>4, <1>6 DEF Callers, Within, Sound, Solid
<1>15. Managed(g)
  <2>1. ASSUME NEW w \in Pointers, NEW u \in Pointers, is_managed(h, u), get(h, u) \notin SharedObjects,
               g.ptr[w].share = h.ptr[u].share, get(g, w) = get(h, u)
        PROVE  \E x \in Pointers : Keeps(g, x, w)
    <3>1. get(h, u) # NoObject /\ h.ptr[u].share # NoBlock
      BY <2>1 DEF is_managed, get, valid
    <3>2. PICK x \in Pointers : Keeps(h, x, u)
      BY <2>1, <3>1 DEF Sound, Managed, ManagedBut
    <3>3. x # v
      BY <3>1, <3>2 DEF Empty, Keeps
    <3>4. Keeps(g, x, w)
      BY <1>4, <1>5, <2>1, <3>2, <3>3 DEF Keeps
    <3>. QED
      BY <3>4
  <2>2. ASSUME NEW w \in Pointers, is_managed(g, w), get(g, w) \notin SharedObjects
        PROVE  \E x \in Pointers : Keeps(g, x, w)
    <3>1. CASE w = v
      BY <1>6, <1>8, <2>1, <2>2, <3>1
    <3>2. CASE w # v
      BY <1>4, <1>5, <2>1, <2>2, <3>2
    <3>. QED
      BY <3>1, <3>2
  <2>. QED
    BY <2>2 DEF Managed, ManagedBut
<1>. QED
  BY <1>2, <1>4, <1>5, <1>7, <1>9, <1>10, <1>11, <1>12, <1>13, <1>14, <1>15 DEF Sound, Solid

\* What depends on blocks and objects only does not change with owners.
SameSight(h, g) ==
  \A w \in Pointers :
    /\ g.ptr[w].share = h.ptr[w].share /\ g.ptr[w].obj = h.ptr[w].obj
    /\ get(g, w) = get(h, w) /\ (valid(g, w) <=> valid(h, w)) /\ (is_managed(g, w) <=> is_managed(h, w))

LEMMA SightKept ==
  ASSUME NEW h, NEW g, g.share = h.share,
         \A w \in Pointers : g.ptr[w].share = h.ptr[w].share /\ g.ptr[w].obj = h.ptr[w].obj
  PROVE  SameSight(h, g) /\ (Agree(h) => Agree(g))
<1>1. \A w \in Pointers : get(g, w) = get(h, w) /\ (valid(g, w) <=> valid(h, w))
  BY DEF get, valid
<1>2. \A w \in Pointers : is_managed(g, w) <=> is_managed(h, w)
  BY <1>1 DEF is_managed
<1>3. Agree(h) => Agree(g)
  BY DEF Agree
<1>. QED
  BY <1>1, <1>2, <1>3 DEF SameSight

LEMMA ManagedPoints ==
  ASSUME NEW h, NEW v
  PROVE  /\ get(h, v) # NoObject => valid(h, v) /\ get(h, v) = h.ptr[v].obj
         /\ valid(h, v) => h.ptr[v].share # NoBlock /\ h.ptr[v].share \in DOMAIN h.share
         /\ is_managed(h, v) => get(h, v) # NoObject
BY DEF get, valid, is_managed

\* A share in the object that v points to.
LEMMA StrongSound ==
  ASSUME NEW B, NEW h, Sound(h, B), NEW v \in Plain, NEW o \in SharedObjects \cap h.alive,
         get(h, v) = o, h.ptr[v].strong = NoObject, NEW g, g = SetStrong(h, v, o)
  PROVE  Sound(g, B) /\ PointerChanged(h, g, v) /\ SameSight(h, g) /\ g.ptr[v].own = h.ptr[v].own
<1>1. v \in Pointers /\ v \notin Objects
  BY HeapAssumption DEF Plain, Pointers
<1>2. IsHeap(h) /\ Counted(h) /\ o \in Objects
  BY DEF Sound, Solid, IsHeap
<1>3. /\ PointerChanged(h, g, v)
      /\ Fields(g.ptr[v], h.ptr[v].share, h.ptr[v].obj, h.ptr[v].own, o)
  BY <1>1, <1>2, SetStrongFields
<1>4. /\ IsHeap(g) /\ g.alive = h.alive /\ g.raw = h.raw /\ g.outside = h.outside /\ g.share = h.share
      /\ \A w \in Pointers : w # v => g.ptr[w] = h.ptr[w]
  BY <1>3 DEF PointerChanged, Only, SameObjects
<1>5. Counted(g)
  BY <1>1, <1>2, <1>3, ChangedCounted DEF Fields
<1>6. \A w \in Pointers : /\ g.ptr[w].share = h.ptr[w].share /\ g.ptr[w].obj = h.ptr[w].obj
                         /\ g.ptr[w].own = h.ptr[w].own
  BY <1>3, <1>4 DEF Fields
<1>7. SameSight(h, g) /\ Agree(g)
  BY <1>4, <1>6, SightKept DEF Sound, Solid
<1>8. \A w \in Pointers : get(g, w) = get(h, w) /\ (valid(g, w) <=> valid(h, w)) /\ (is_managed(g, w) <=> is_managed(h, w))
  BY <1>7 DEF SameSight
<1>9. Owning(g)
  BY <1>4, <1>6, <1>8 DEF Owning, Sound, Solid, Pointers
<1>10. Sharing(g)
  BY <1>3, <1>4, <1>8 DEF Sharing, Sound, Solid, Fields
<1>11. SelfPointers(g)
  <2>1. v \notin FromThis
    BY <1>1, HeapAssumption
  <2>. QED
    BY <1>4, <1>8, <2>1 DEF SelfPointers, Sound, Solid, Pointers
<1>12. Owned(g)
  <2>1. NoObject \notin h.alive
    BY HeapAssumption DEF Sound, Solid, IsHeap
  <2>2. \A p \in h.alive : \A w \in Pointers : h.ptr[w].strong = p => g.ptr[w].strong = p
    BY <1>4, <2>1
  <2>. QED
    BY <1>4, <1>6, <2>2 DEF Owned, Sound, Solid
<1>13. Callers(g) /\ Within(g, B)
  BY <1>4, <1>6 DEF Callers, Within, Sound, Solid
<1>14. Managed(g)
  BY <1>6, <1>8 DEF Managed, ManagedBut, Keeps, Sound
<1>. QED
  BY <1>1, <1>3, <1>4, <1>5, <1>6, <1>7, <1>9, <1>10, <1>11, <1>12, <1>13, <1>14 DEF Sound, Solid

\* The caller's object becomes v's own.
Takes(h, v, o) == SetObjects(SetOwn(h, v, o), h.alive, h.raw \ {o}, h.outside)

Taken(h, g, v, o) ==
  /\ IsHeap(g) /\ g.alive = h.alive /\ g.raw = h.raw \ {o} /\ g.outside = h.outside
  /\ g.share = h.share /\ g.broken = h.broken
  /\ \A w \in Pointers : w # v => g.ptr[w] = h.ptr[w]
  /\ Fields(g.ptr[v], h.ptr[v].share, h.ptr[v].obj, o, h.ptr[v].strong)

LEMMA TakesFields ==
  ASSUME NEW h, IsHeap(h), NEW v \in Pointers, NEW o \in Objects
  PROVE  Taken(h, Takes(h, v, o), v, o)
<1>1. PICK k : k = SetOwn(h, v, o)
  OBVIOUS
<1>2. /\ PointerChanged(h, k, v)
      /\ Fields(k.ptr[v], h.ptr[v].share, h.ptr[v].obj, o, h.ptr[v].strong)
  BY <1>1, SetOwnFields
<1>3. /\ IsHeap(k) /\ k.share = h.share /\ k.broken = h.broken
      /\ \A w \in Pointers : w # v => k.ptr[w] = h.ptr[w]
  BY <1>2 DEF PointerChanged, Only
<1>4. h.alive \in SUBSET Objects /\ h.raw \ {o} \in SUBSET Objects /\ h.outside \in SUBSET Objects
  BY DEF IsHeap
<1>5. PICK R \in SUBSET Objects : R = h.raw \ {o}
  BY <1>4
<1>6. PICK g : g = SetObjects(k, h.alive, R, h.outside)
  OBVIOUS
<1>7. /\ IsHeap(g) /\ g.alive = h.alive /\ g.raw = R /\ g.outside = h.outside
      /\ g.ptr = k.ptr /\ g.share = k.share /\ g.broken = k.broken
  BY <1>3, <1>4, <1>6, ObjectsFields
<1>8. Taken(h, g, v, o)
  BY <1>2, <1>3, <1>5, <1>7 DEF Taken
<1>. QED
  BY <1>1, <1>5, <1>6, <1>8 DEF Takes

LEMMA OwnSound ==
  ASSUME NEW B, NEW h, Solid(h, B), NEW v \in Plain, NEW o \in h.raw,
         get(h, v) = o, h.ptr[v].own = NoObject, o \in FromThis => h.ptr[v].share = h.ptr[o].share,
         ManagedBut(h, h.ptr[v].share), NEW g, Taken(h, g, v, o)
  PROVE  Sound(g, B) /\ Only(h, g, v) /\ g.alive = h.alive
<1>1. v \in Pointers /\ v \notin Objects
  BY HeapAssumption DEF Plain, Pointers
<1>2. IsHeap(h) /\ Counted(h) /\ o \in Objects /\ o \in h.alive /\ o \notin SharedObjects
  BY DEF Solid, IsHeap, Callers
<1>7. /\ IsHeap(g) /\ g.alive = h.alive /\ g.raw = h.raw \ {o} /\ g.outside = h.outside
      /\ g.share = h.share /\ g.broken = h.broken
  BY DEF Taken
<1>8. /\ \A w \in Pointers : w # v => g.ptr[w] = h.ptr[w]
      /\ Fields(g.ptr[v], h.ptr[v].share, h.ptr[v].obj, o, h.ptr[v].strong)
  BY DEF Taken
<1>9. \A w \in Pointers : /\ g.ptr[w].share = h.ptr[w].share /\ g.ptr[w].obj = h.ptr[w].obj
                         /\ g.ptr[w].strong = h.ptr[w].strong
                         /\ g.ptr[w].own = IF w = v THEN o ELSE h.ptr[w].own
  BY <1>8 DEF Fields
<1>10. Counted(g)
  <2>1. /\ g.broken = {} /\ DOMAIN g.share = DOMAIN h.share
        /\ \A b \in DOMAIN h.share : g.share[b].counter = h.share[b].counter
        /\ \A w \in Pointers : g.ptr[w].share = h.ptr[w].share
    BY <1>2, <1>7, <1>9 DEF Counted
  <2>. QED
    BY <1>2, <2>1, SameBlocksCounted
<1>11. SameSight(h, g) /\ Agree(g)
  BY <1>7, <1>9, SightKept DEF Solid
<1>12. \A w \in Pointers : get(g, w) = get(h, w) /\ (valid(g, w) <=> valid(h, w)) /\ (is_managed(g, w) <=> is_managed(h, w))
  BY <1>11 DEF SameSight
<1>13. Owning(g)
  <2>0. Owning(h) /\ o # NoObject
    BY <1>2, HeapAssumption DEF Solid
  <2>1. \A w \in Pointers : h.ptr[w].own # o
    BY <2>0 DEF Owning
  <2>2. \A w, x \in Pointers : g.ptr[w].own = g.ptr[x].own /\ g.ptr[w].own # NoObject => w = x
    <3>1. \A w, x \in Pointers : h.ptr[w].own = h.ptr[x].own /\ h.ptr[w].own # NoObject => w = x
      BY <2>0 DEF Owning
    <3>. QED
      BY <1>9, <2>1, <3>1
  <2>3. ASSUME NEW w \in Pointers, g.ptr[w].own # NoObject
        PROVE  /\ g.ptr[w].own \notin SharedObjects \cup g.raw
               /\ g.ptr[w].own \in g.alive => get(g, w) = g.ptr[w].own
               /\ g.ptr[w].own \notin g.alive => get(g, w) = NoObject
               /\ g.ptr[w].own \in g.alive \cap FromThis => g.ptr[w].share = g.ptr[g.ptr[w].own].share
    <3>1. CASE w = v
      BY <1>2, <1>7, <1>9, <1>12, <3>1 DEF Pointers
    <3>2. CASE w # v
      <4>1. h.ptr[w].own # NoObject /\ g.ptr[w].own = h.ptr[w].own
        BY <1>9, <2>3, <3>2
      <4>2. /\ h.ptr[w].own \notin SharedObjects \cup h.raw
            /\ h.ptr[w].own \in h.alive => get(h, w) = h.ptr[w].own
            /\ h.ptr[w].own \notin h.alive => get(h, w) = NoObject
            /\ h.ptr[w].own \in h.alive \cap FromThis => h.ptr[w].share = h.ptr[h.ptr[w].own].share
        BY <4>1, <2>0 DEF Owning
      <4>3. h.ptr[w].own \in FromThis => g.ptr[h.ptr[w].own].share = h.ptr[h.ptr[w].own].share
        BY <1>9 DEF Pointers
      <4>4. g.ptr[w].share = h.ptr[w].share /\ get(g, w) = get(h, w)
        BY <1>9, <1>12
      <4>. QED
        BY <1>7, <4>1, <4>2, <4>3, <4>4
    <3>. QED
      BY <3>1, <3>2
  <2>. QED
    BY <2>2, <2>3 DEF Owning
<1>14. Sharing(g)
  BY <1>7, <1>9, <1>12 DEF Sharing, Solid
<1>15. SelfPointers(g)
  <2>1. v \notin FromThis
    BY <1>1, HeapAssumption
  <2>. QED
    BY <1>7, <1>8, <1>12, <2>1 DEF SelfPointers, Solid, Pointers, Fields
<1>16. Owned(g)
  <2>0. Owned(h)
    BY DEF Solid
  <2>1. ASSUME NEW p \in h.alive \ SharedObjects, p # o
        PROVE  p \in g.raw \/ \E w \in Pointers : g.ptr[w].own = p
    <3>1. p # NoObject
      BY HeapAssumption, <1>2 DEF IsHeap
    <3>2. p \in h.raw \/ \E w \in Pointers : h.ptr[w].own = p
      BY <2>0 DEF Owned
    <3>3. ASSUME NEW w \in Pointers, h.ptr[w].own = p PROVE g.ptr[w].own = p
      BY <1>9, <3>1, <3>3
    <3>. QED
      BY <1>7, <2>1, <3>2, <3>3
  <2>2. g.ptr[v].own = o
    BY <1>9, <1>1
  <2>3. ASSUME NEW p \in h.alive \cap SharedObjects
        PROVE  p \in g.outside \/ \E w \in Pointers : g.ptr[w].strong = p
    <3>1. p \in h.outside \/ \E w \in Pointers : h.ptr[w].strong = p
      BY <2>0 DEF Owned
    <3>2. ASSUME NEW w \in Pointers, h.ptr[w].strong = p PROVE g.ptr[w].strong = p
      BY <1>9, <3>2
    <3>. QED
      BY <1>7, <3>1, <3>2
  <2>. QED
    BY <1>1, <1>2, <1>7, <2>1, <2>2, <2>3 DEF Owned
<1>17. Callers(g) /\ Within(g, B)
  BY <1>2, <1>7, <1>9 DEF Callers, Within, Solid
<1>18. Managed(g)
  <2>1. ASSUME NEW w \in Pointers, is_managed(g, w), get(g, w) \notin SharedObjects
        PROVE  \E x \in Pointers : Keeps(g, x, w)
    <3>0. is_managed(h, w) /\ get(h, w) # NoObject
      BY <1>12, <2>1 DEF is_managed
    <3>1. CASE h.ptr[w].share = h.ptr[v].share
      <4>1. get(h, w) = h.ptr[w].obj /\ h.ptr[v].obj = o /\ h.ptr[w].share # NoBlock /\ o # NoObject
        BY <3>0, <1>2, HeapAssumption DEF get, valid
      <4>2. get(h, w) = o
        BY <1>1, <3>0, <3>1, <4>1 DEF Solid, Agree
      <4>3. Keeps(g, v, w)
        BY <1>1, <1>9, <1>12, <3>1, <4>2 DEF Keeps
      <4>. QED
        BY <1>1, <4>3
    <3>2. CASE h.ptr[w].share # h.ptr[v].share
      <4>1. PICK x \in Pointers : Keeps(h, x, w)
        BY <1>12, <2>1, <3>2, <3>0 DEF ManagedBut
      <4>2. x # v
        BY <3>2, <4>1 DEF Keeps
      <4>3. Keeps(g, x, w)
        BY <1>9, <1>12, <4>1, <4>2 DEF Keeps
      <4>. QED
        BY <4>3
    <3>. QED
      BY <3>1, <3>2
  <2>. QED
    BY <2>1 DEF Managed, ManagedBut
<1>. QED
  BY <1>7, <1>8, <1>10, <1>11, <1>13, <1>14, <1>15, <1>16, <1>17, <1>18 DEF Sound, Solid, Only

\* What r owns becomes v's.
Transfers(h, v, r) == SetOwn(SetOwn(h, v, h.ptr[r].own), r, NoObject)

Transferred(h, g, v, r) ==
  /\ IsHeap(g) /\ SameObjects(h, g) /\ g.share = h.share /\ g.broken = h.broken
  /\ \A w \in Pointers : w \notin {v, r} => g.ptr[w] = h.ptr[w]
  /\ Fields(g.ptr[v], h.ptr[v].share, h.ptr[v].obj, h.ptr[r].own, h.ptr[v].strong)
  /\ Fields(g.ptr[r], h.ptr[r].share, h.ptr[r].obj, NoObject, h.ptr[r].strong)

LEMMA TransfersFields ==
  ASSUME NEW h, IsHeap(h), NEW v \in Pointers, NEW r \in Pointers, v # r
  PROVE  Transferred(h, Transfers(h, v, r), v, r)
<1>0. PICK o \in Objects \cup {NoObject} : o = h.ptr[r].own
  BY DEF IsHeap, Pointer
<1>1. PICK k : k = SetOwn(h, v, o)
  OBVIOUS
<1>2. PICK g : g = SetOwn(k, r, NoObject)
  OBVIOUS
<1>3. /\ PointerChanged(h, k, v)
      /\ Fields(k.ptr[v], h.ptr[v].share, h.ptr[v].obj, o, h.ptr[v].strong)
  BY <1>1, SetOwnFields
<1>4. IsHeap(k)
  BY <1>3 DEF PointerChanged
<1>5. /\ PointerChanged(k, g, r)
      /\ Fields(g.ptr[r], k.ptr[r].share, k.ptr[r].obj, NoObject, k.ptr[r].strong)
  BY <1>2, <1>4, SetOwnFields
<1>6. Transferred(h, g, v, r)
  BY <1>0, <1>3, <1>5 DEF Transferred, PointerChanged, Only, SameObjects
<1>. QED
  BY <1>0, <1>1, <1>2, <1>6 DEF Transfers

LEMMA TransferSound ==
  ASSUME NEW B, NEW h, Sound(h, B), NEW v \in Plain, NEW r \in Plain, v # r,
         h.ptr[v].share = h.ptr[r].share, get(h, v) = get(h, r), h.ptr[v].own = NoObject,
         NEW g, Transferred(h, g, v, r)
  PROVE  Sound(g, B)
<1>1. v \in Pointers /\ r \in Pointers /\ v \notin Objects /\ r \notin Objects
  BY HeapAssumption DEF Plain, Pointers
<1>2. /\ IsHeap(g) /\ g.alive = h.alive /\ g.raw = h.raw /\ g.outside = h.outside
      /\ g.share = h.share /\ g.broken = h.broken
  BY DEF Transferred, SameObjects
<1>3. \A w \in Pointers : /\ g.ptr[w].share = h.ptr[w].share /\ g.ptr[w].obj = h.ptr[w].obj
                         /\ g.ptr[w].strong = h.ptr[w].strong
  BY DEF Transferred, Fields
<1>4. /\ \A w \in Pointers : w \notin {v, r} => g.ptr[w] = h.ptr[w] /\ g.ptr[w].own = h.ptr[w].own
      /\ g.ptr[v].own = h.ptr[r].own /\ g.ptr[r].own = NoObject
  BY DEF Transferred, Fields
<1>5. Counted(g)
  <2>1. /\ g.broken = {} /\ DOMAIN g.share = DOMAIN h.share
        /\ \A b \in DOMAIN h.share : g.share[b].counter = h.share[b].counter
        /\ \A w \in Pointers : g.ptr[w].share = h.ptr[w].share
    BY <1>2, <1>3 DEF Counted, Sound, Solid
  <2>. QED
    BY <2>1, SameBlocksCounted DEF Sound, Solid
<1>6. SameSight(h, g) /\ Agree(g)
  BY <1>2, <1>3, SightKept DEF Sound, Solid
<1>7. \A w \in Pointers : get(g, w) = get(h, w) /\ (valid(g, w) <=> valid(h, w)) /\ (is_managed(g, w) <=> is_managed(h, w))
  BY <1>6 DEF SameSight
\* The owner u of what w owns now.
<1>8. \A w \in Pointers : g.ptr[w].own # NoObject =>
        \E u \in Pointers : /\ g.ptr[w].own = h.ptr[u].own /\ h.ptr[w].share = h.ptr[u].share /\ get(h, w) = get(h, u)
                            /\ u = IF w = v THEN r ELSE w
  BY <1>1, <1>4
<1>9. Owning(g)
  <2>1. Owning(h)
    BY DEF Sound, Solid
  <2>2. ASSUME NEW w \in Pointers, NEW x \in Pointers, g.ptr[w].own = g.ptr[x].own, g.ptr[w].own # NoObject
        PROVE  w = x
    <3>1. h.ptr[IF w = v THEN r ELSE w].own = h.ptr[IF x = v THEN r ELSE x].own
          /\ h.ptr[IF w = v THEN r ELSE w].own # NoObject
      BY <1>4, <2>2
    <3>2. (IF w = v THEN r ELSE w) = (IF x = v THEN r ELSE x)
      BY <1>1, <2>1, <3>1 DEF Owning
    <3>. QED
      BY <1>4, <2>2, <3>2
  <2>3. ASSUME NEW w \in Pointers, g.ptr[w].own # NoObject
        PROVE  /\ g.ptr[w].own \notin SharedObjects \cup g.raw
               /\ g.ptr[w].own \in g.alive => get(g, w) = g.ptr[w].own
               /\ g.ptr[w].own \notin g.alive => get(g, w) = NoObject
               /\ g.ptr[w].own \in g.alive \cap FromThis => g.ptr[w].share = g.ptr[g.ptr[w].own].share
    <3>1. PICK u \in Pointers : /\ g.ptr[w].own = h.ptr[u].own /\ h.ptr[w].share = h.ptr[u].share
                               /\ get(h, w) = get(h, u)
      BY <1>8, <2>3
    <3>2. /\ h.ptr[u].own \notin SharedObjects \cup h.raw
          /\ h.ptr[u].own \in h.alive => get(h, u) = h.ptr[u].own
          /\ h.ptr[u].own \notin h.alive => get(h, u) = NoObject
          /\ h.ptr[u].own \in h.alive \cap FromThis => h.ptr[u].share = h.ptr[h.ptr[u].own].share
      BY <2>1, <2>3, <3>1 DEF Owning
    <3>3. h.ptr[u].own \in FromThis => g.ptr[h.ptr[u].own].share = h.ptr[h.ptr[u].own].share
      BY <1>3 DEF Pointers
    <3>4. g.ptr[w].share = h.ptr[w].share /\ get(g, w) = get(h, w)
      BY <1>3, <1>7
    <3>. QED
      BY <1>2, <3>1, <3>2, <3>3, <3>4
  <2>. QED
    BY <2>2, <2>3 DEF Owning
<1>10. Sharing(g)
  BY <1>2, <1>3, <1>7 DEF Sharing, Sound, Solid
<1>11. SelfPointers(g)
  <2>1. v \notin FromThis /\ r \notin FromThis
    BY <1>1, HeapAssumption
  <2>. QED
    BY <1>2, <1>4, <1>7, <2>1 DEF SelfPointers, Sound, Solid, Pointers
<1>12. Owned(g)
  <2>0. Owned(h)
    BY DEF Sound, Solid
  <2>1. ASSUME NEW p \in h.alive \ SharedObjects
        PROVE  p \in g.raw \/ \E w \in Pointers : g.ptr[w].own = p
    <3>1. p # NoObject
      BY HeapAssumption DEF Sound, Solid, IsHeap
    <3>2. p \in h.raw \/ \E w \in Pointers : h.ptr[w].own = p
      BY <2>0 DEF Owned
    <3>3. ASSUME NEW w \in Pointers, h.ptr[w].own = p PROVE \E x \in Pointers : g.ptr[x].own = p
      BY <1>1, <1>4, <3>1, <3>3
    <3>. QED
      BY <1>2, <2>1, <3>2, <3>3
  <2>3. ASSUME NEW p \in h.alive \cap SharedObjects
        PROVE  p \in g.outside \/ \E w \in Pointers : g.ptr[w].strong = p
    <3>1. p \in h.outside \/ \E w \in Pointers : h.ptr[w].strong = p
      BY <2>0 DEF Owned
    <3>. QED
      BY <1>2, <1>3, <3>1
  <2>. QED
    BY <1>2, <2>1, <2>3 DEF Owned
<1>13. Callers(g) /\ Within(g, B)
  BY <1>1, <1>2, <1>4 DEF Callers, Within, Sound, Solid
<1>14. Managed(g)
  <2>1. ASSUME NEW w \in Pointers, is_managed(g, w), get(g, w) \notin SharedObjects
        PROVE  \E x \in Pointers : Keeps(g, x, w)
    <3>1. is_managed(h, w) /\ get(h, w) # NoObject /\ h.ptr[w].share # NoBlock
      BY <1>7, <2>1, ManagedPoints
    <3>2. PICK x \in Pointers : Keeps(h, x, w)
      BY <1>7, <2>1, <3>1 DEF Sound, Managed, ManagedBut
    <3>3. CASE h.ptr[x].own = get(h, w) /\ x = r
      <4>1. Keeps(g, v, w)
        BY <1>1, <1>3, <1>4, <1>7, <3>2, <3>3 DEF Keeps
      <4>. QED
        BY <1>1, <4>1
    <3>4. CASE x = get(h, w) \/ x # r
      <4>1. x # r \/ x = get(g, w)
        BY <1>7, <3>4
      <4>2. h.ptr[x].own = get(h, w) => x # v
        BY <3>1
      <4>3. x = get(g, w) \/ (x \notin {v, r} /\ g.ptr[x].own = get(g, w))
        BY <1>4, <1>7, <3>2, <4>1, <4>2 DEF Keeps
      <4>4. Keeps(g, x, w)
        BY <1>3, <1>7, <3>2, <4>3 DEF Keeps
      <4>. QED
        BY <4>4
    <3>. QED
      BY <3>2, <3>3, <3>4 DEF Keeps
  <2>. QED
    BY <2>1 DEF Managed, ManagedBut
<1>. QED
  BY <1>2, <1>5, <1>6, <1>9, <1>10, <1>11, <1>12, <1>13, <1>14 DEF Sound, Solid

-----------------------------------------------------------------------------
(***************************************************************************)
(* Leaving blocks, giving up objects                                       *)
(***************************************************************************)

\* On the way from h to g the pointers K gave up what they owned, the blocks C
\* became nullptr, at most T changed what they point to, and E became empty.
Shrunk(h, g, K, C, T, E) ==
  /\ IsHeap(g) /\ Counted(g)
  /\ \A w \in Pointers :
       /\ g.ptr[w].own = (IF w \in K THEN NoObject ELSE h.ptr[w].own)
       /\ g.ptr[w].strong = (IF w \in K THEN NoObject ELSE h.ptr[w].strong)
       /\ g.ptr[w].share \in {h.ptr[w].share, NoBlock} /\ g.ptr[w].obj \in {h.ptr[w].obj, NoObject}
       /\ w \in E => g.ptr[w].share = NoBlock /\ g.ptr[w].obj = NoObject
       /\ w \notin T => g.ptr[w].share = h.ptr[w].share /\ g.ptr[w].obj = h.ptr[w].obj
  /\ \A b \in DOMAIN g.share :
       /\ b \in DOMAIN h.share
       /\ b \in C => ~g.share[b].valid /\ ~g.share[b].managed
       /\ b \notin C => g.share[b].valid = h.share[b].valid /\ g.share[b].managed = h.share[b].managed

LEMMA ShrunkTwice ==
  ASSUME NEW h, NEW k, NEW g, NEW K, NEW C, NEW T, NEW E, NEW K2, NEW C2, NEW T2, NEW E2,
         Shrunk(h, k, K, C, T, E), Shrunk(k, g, K2, C2, T2, E2)
  PROVE  Shrunk(h, g, K \cup K2, C \cup C2, T \cup T2, E \cup E2)
<1>1. IsHeap(g) /\ Counted(g)
  BY DEF Shrunk
<1>2. ASSUME NEW w \in Pointers
      PROVE  /\ g.ptr[w].own = (IF w \in K \cup K2 THEN NoObject ELSE h.ptr[w].own)
             /\ g.ptr[w].strong = (IF w \in K \cup K2 THEN NoObject ELSE h.ptr[w].strong)
             /\ g.ptr[w].share \in {h.ptr[w].share, NoBlock} /\ g.ptr[w].obj \in {h.ptr[w].obj, NoObject}
             /\ w \in E \cup E2 => g.ptr[w].share = NoBlock /\ g.ptr[w].obj = NoObject
             /\ w \notin T \cup T2 => g.ptr[w].share = h.ptr[w].share /\ g.ptr[w].obj = h.ptr[w].obj
  BY DEF Shrunk
<1>3. ASSUME NEW b \in DOMAIN g.share
      PROVE  /\ b \in DOMAIN h.share
             /\ b \in C \cup C2 => ~g.share[b].valid /\ ~g.share[b].managed
             /\ b \notin C \cup C2 => g.share[b].valid = h.share[b].valid /\ g.share[b].managed = h.share[b].managed
  BY DEF Shrunk
<1>. QED
  BY <1>1, <1>2, <1>3 DEF Shrunk

LEMMA NulledShrunk ==
  ASSUME NEW h, NEW g, NEW v \in Pointers, Nulled(h, g, v)
  PROVE  Shrunk(h, g, {}, {h.ptr[v].share}, {v}, {})
BY DEF Nulled, Shrunk, Only, Fields

LEMMA ReleasedShrunk ==
  ASSUME NEW h, NEW g, NEW v \in Pointers, Released(h, g, v)
  PROVE  Shrunk(h, g, {}, {}, {v}, {v})
BY DEF Released, Shrunk, Only, Fields, SameFlags

LEMMA SameShrunk ==
  ASSUME NEW h, IsHeap(h), Counted(h)
  PROVE  Shrunk(h, h, {}, {}, {}, {})
BY DEF Shrunk

LEMMA OwnShrunk ==
  ASSUME NEW h, IsHeap(h), Counted(h), NEW v \in Pointers, NEW g, g = SetOwn(h, v, NoObject)
  PROVE  /\ SameObjects(h, g)
         /\ h.ptr[v].own = NoObject => Shrunk(h, g, {}, {}, {}, {})
         /\ h.ptr[v].strong = NoObject => Shrunk(h, g, {v}, {}, {}, {})
<1>1. /\ PointerChanged(h, g, v)
      /\ Fields(g.ptr[v], h.ptr[v].share, h.ptr[v].obj, NoObject, h.ptr[v].strong)
  BY SetOwnFields
<1>2. Counted(g)
  BY <1>1, ChangedCounted DEF Fields
<1>3. IsHeap(g) /\ SameObjects(h, g) /\ g.share = h.share /\ \A w \in Pointers : w # v => g.ptr[w] = h.ptr[w]
  BY <1>1 DEF PointerChanged, Only
<1>. QED
  BY <1>1, <1>2, <1>3 DEF Shrunk, Fields

LEMMA StrongShrunk ==
  ASSUME NEW h, IsHeap(h), Counted(h), NEW v \in Pointers, NEW g, g = SetStrong(h, v, NoObject)
  PROVE  /\ SameObjects(h, g)
         /\ h.ptr[v].strong = NoObject => Shrunk(h, g, {}, {}, {}, {})
         /\ h.ptr[v].own = NoObject => Shrunk(h, g, {v}, {}, {}, {})
<1>1. /\ PointerChanged(h, g, v)
      /\ Fields(g.ptr[v], h.ptr[v].share, h.ptr[v].obj, h.ptr[v].own, NoObject)
  BY SetStrongFields
<1>2. Counted(g)
  BY <1>1, ChangedCounted DEF Fields
<1>3. IsHeap(g) /\ SameObjects(h, g) /\ g.share = h.share /\ \A w \in Pointers : w # v => g.ptr[w] = h.ptr[w]
  BY <1>1 DEF PointerChanged, Only
<1>. QED
  BY <1>1, <1>2, <1>3 DEF Shrunk, Fields

LEMMA ObjectsShrunk ==
  ASSUME NEW h, IsHeap(h), Counted(h), NEW A \in SUBSET Objects, NEW R \in SUBSET Objects, NEW U \in SUBSET Objects,
         NEW g, g = SetObjects(h, A, R, U)
  PROVE  Shrunk(h, g, {}, {}, {}, {}) /\ g.alive = A /\ g.raw = R /\ g.outside = U
<1>1. /\ IsHeap(g) /\ g.alive = A /\ g.raw = R /\ g.outside = U
      /\ g.ptr = h.ptr /\ g.share = h.share /\ g.broken = h.broken
  BY ObjectsFields
<1>2. Counted(g)
  <2>1. \A b : Users(g, b) = Users(h, b)
    BY <1>1 DEF Users
  <2>2. g.broken = {} /\ \A w \in Pointers : g.ptr[w].share \in DOMAIN g.share \cup {NoBlock}
    BY <1>1 DEF Counted
  <2>3. \A b \in DOMAIN g.share : Users(g, b) # {} /\ g.share[b].counter = Cardinality(Users(g, b))
    BY <1>1, <2>1 DEF Counted
  <2>. QED
    BY <2>2, <2>3 DEF Counted
<1>. QED
  BY <1>1, <1>2 DEF Shrunk

\* The objects D are gone with that: what the pointers E and the blocks C have
\* to do with D so that nothing is left behind.
Leaving(h, g, K, C, E, D) ==
  /\ Shrunk(h, g, K, C, E, E)
  /\ g.alive = h.alive \ D /\ g.raw = h.raw \ D /\ g.outside \subseteq h.outside \ D
  /\ D \subseteq h.alive /\ D \cap FromThis \subseteq E /\ E \cap FromThis \subseteq D
  /\ \A w \in E \cap Pointers : w \in K \/ (h.ptr[w].own = NoObject /\ h.ptr[w].strong = NoObject)
  /\ \A w \in K \cap Pointers : h.ptr[w].own \in D \/ h.ptr[w].own \notin h.alive
  /\ \A w \in Pointers : h.ptr[w].share \in C /\ get(h, w) # NoObject => get(h, w) \in D
  /\ \A w \in Pointers :
       get(h, w) \in D /\ (h.ptr[w].own = get(h, w) \/ w = get(h, w)) => h.ptr[w].share \in C
  /\ \A w \in Pointers : w \notin K => h.ptr[w].strong \notin D
  /\ \A p \in g.alive \cap SharedObjects : p \in g.outside \/ \E w \in Pointers : g.ptr[w].strong = p

LEMMA LeavingSound ==
  ASSUME NEW B, NEW h, Sound(h, B), NEW K, NEW C, NEW E, NEW D, NEW g, Leaving(h, g, K, C, E, D)
  PROVE  Sound(g, B)
<1>1. IsHeap(g) /\ Counted(g)
  BY DEF Leaving, Shrunk
<1>2. \A w \in Pointers :
        /\ g.ptr[w].own = (IF w \in K THEN NoObject ELSE h.ptr[w].own)
        /\ g.ptr[w].strong = (IF w \in K THEN NoObject ELSE h.ptr[w].strong)
        /\ g.ptr[w].share \in {h.ptr[w].share, NoBlock} /\ g.ptr[w].obj \in {h.ptr[w].obj, NoObject}
        /\ w \in E => g.ptr[w].share = NoBlock /\ g.ptr[w].obj = NoObject
        /\ w \notin E => g.ptr[w].share = h.ptr[w].share /\ g.ptr[w].obj = h.ptr[w].obj
  BY DEF Leaving, Shrunk
<1>3. \A b \in DOMAIN g.share :
        /\ b \in DOMAIN h.share
        /\ b \in C => ~g.share[b].valid /\ ~g.share[b].managed
        /\ b \notin C => g.share[b].valid = h.share[b].valid /\ g.share[b].managed = h.share[b].managed
  BY DEF Leaving, Shrunk
<1>4. /\ g.alive = h.alive \ D /\ g.raw = h.raw \ D /\ g.outside \subseteq h.outside \ D
      /\ D \subseteq h.alive /\ D \cap FromThis \subseteq E /\ E \cap FromThis \subseteq D
  BY DEF Leaving
<1>5. \A w \in E \cap Pointers : w \in K \/ (h.ptr[w].own = NoObject /\ h.ptr[w].strong = NoObject)
  BY DEF Leaving
<1>6. \A w \in K \cap Pointers : h.ptr[w].own \in D \/ h.ptr[w].own \notin h.alive
  BY DEF Leaving
<1>7. \A w \in Pointers : h.ptr[w].share \in C /\ get(h, w) # NoObject => get(h, w) \in D
  BY DEF Leaving
<1>8. \A w \in Pointers :
        get(h, w) \in D /\ (h.ptr[w].own = get(h, w) \/ w = get(h, w)) => h.ptr[w].share \in C
  BY DEF Leaving
<1>9. \A w \in Pointers : w \notin K => h.ptr[w].strong \notin D
  BY DEF Leaving
<1>10. /\ Agree(h) /\ Owning(h) /\ Sharing(h) /\ SelfPointers(h) /\ Owned(h) /\ Callers(h)
       /\ Within(h, B) /\ Managed(h) /\ NoObject \notin h.alive
  BY HeapAssumption DEF Sound, Solid, IsHeap
<1>11. ASSUME NEW w \in Pointers
       PROVE  /\ get(g, w) = IF w \in E \/ h.ptr[w].share \in C THEN NoObject ELSE get(h, w)
              /\ w \notin E /\ h.ptr[w].share \notin C => (valid(g, w) <=> valid(h, w))
  <2>1. CASE w \in E
    BY <1>2, <2>1 DEF get, valid
  <2>2. CASE w \notin E /\ h.ptr[w].share \in C
    BY <1>2, <1>3, <2>2 DEF get, valid
  <2>3. CASE w \notin E /\ h.ptr[w].share \notin C
    <3>1. g.ptr[w].share = h.ptr[w].share /\ g.ptr[w].obj = h.ptr[w].obj
      BY <1>2, <2>3
    <3>2. g.ptr[w].share # NoBlock => g.ptr[w].share \in DOMAIN g.share
      BY <1>1 DEF Counted
    <3>3. valid(g, w) <=> valid(h, w)
      BY <1>3, <2>3, <3>1, <3>2 DEF valid
    <3>. QED
      BY <2>3, <3>1, <3>3 DEF get
  <2>. QED
    BY <2>1, <2>2, <2>3
\* A pointer to what is left has not changed.
<1>12. ASSUME NEW w \in Pointers, get(h, w) # NoObject, get(h, w) \notin D
       PROVE  /\ h.ptr[w].share \notin C
              /\ w \notin E => get(g, w) = get(h, w) /\ g.ptr[w].share = h.ptr[w].share
  BY <1>2, <1>7, <1>11, <1>12
<1>13. Agree(g)
  BY <1>2, <1>10 DEF Agree
<1>14. Owning(g)
  <2>1. \A w, x \in Pointers : g.ptr[w].own = g.ptr[x].own /\ g.ptr[w].own # NoObject => w = x
    <3>1. ASSUME NEW w \in Pointers, NEW x \in Pointers, g.ptr[w].own = g.ptr[x].own, g.ptr[w].own # NoObject
          PROVE  w = x
      <4>1. h.ptr[w].own = h.ptr[x].own /\ h.ptr[w].own # NoObject
        BY <1>2, <3>1
      <4>. QED
        BY <1>10, <4>1 DEF Owning
    <3>. QED
      BY <3>1
  <2>2. ASSUME NEW w \in Pointers, g.ptr[w].own # NoObject
        PROVE  /\ g.ptr[w].own \notin SharedObjects \cup g.raw
               /\ g.ptr[w].own \in g.alive => get(g, w) = g.ptr[w].own
               /\ g.ptr[w].own \notin g.alive => get(g, w) = NoObject
               /\ g.ptr[w].own \in g.alive \cap FromThis => g.ptr[w].share = g.ptr[g.ptr[w].own].share
    <3> DEFINE p == h.ptr[w].own
    <3>1. g.ptr[w].own = p /\ p # NoObject /\ w \notin K
      BY <1>2, <2>2
    <3>2. /\ p \notin SharedObjects \cup h.raw
          /\ p \in h.alive => get(h, w) = p
          /\ p \notin h.alive => get(h, w) = NoObject
          /\ p \in h.alive \cap FromThis => h.ptr[w].share = h.ptr[p].share
      BY <1>10, <3>1 DEF Owning
    <3>3. w \notin E
      BY <1>5, <3>1
    <3>4. p \in g.alive => get(g, w) = p /\ g.ptr[w].share = h.ptr[w].share
      BY <1>4, <1>12, <3>1, <3>2, <3>3
    <3>5. p \notin g.alive => get(g, w) = NoObject
      <4>1. CASE p \notin h.alive
        BY <1>11, <3>2, <4>1
      <4>2. CASE p \in D
        <5>1. get(h, w) = p
          BY <1>4, <3>2, <4>2
        <5>2. h.ptr[w].share \in C
          BY <1>8, <4>2, <5>1
        <5>. QED
          BY <1>11, <5>2
      <4>. QED
        BY <1>4, <4>1, <4>2
    <3>6. p \in g.alive \cap FromThis => g.ptr[p].share = h.ptr[p].share
      <4>1. p \in g.alive \cap FromThis => p \notin E /\ p \in Pointers
        BY <1>4 DEF Pointers
      <4>. QED
        BY <1>2, <4>1
    <3>. QED
      BY <1>4, <3>1, <3>2, <3>4, <3>5, <3>6
  <2>. QED
    BY <2>1, <2>2 DEF Owning
<1>15. Sharing(g)
  <2>1. ASSUME NEW w \in Pointers, g.ptr[w].strong # NoObject
        PROVE  g.ptr[w].strong \in SharedObjects \cap g.alive /\ get(g, w) = g.ptr[w].strong
    <3>1. g.ptr[w].strong = h.ptr[w].strong /\ h.ptr[w].strong # NoObject /\ w \notin K
      BY <1>2, <2>1
    <3>2. h.ptr[w].strong \in SharedObjects \cap h.alive /\ get(h, w) = h.ptr[w].strong
      BY <1>10, <3>1 DEF Sharing
    <3>3. h.ptr[w].strong \notin D /\ w \notin E
      BY <1>5, <1>9, <3>1
    <3>. QED
      BY <1>4, <1>12, <3>1, <3>2, <3>3
  <2>. QED
    BY <2>1 DEF Sharing
<1>16. SelfPointers(g)
  <2>1. ASSUME NEW o \in FromThis
        PROVE  \/ g.ptr[o] = Empty
               \/ /\ o \in g.alive /\ valid(g, o)
                  /\ g.ptr[o].obj = o /\ g.ptr[o].own = NoObject /\ g.ptr[o].strong = NoObject
    <3>1. o \in Pointers /\ g.ptr[o] \in Pointer
      BY <1>1 DEF Pointers, IsHeap
    <3>2. h.ptr[o].own = NoObject /\ h.ptr[o].strong = NoObject
      BY <1>10, <2>1 DEF SelfPointers, Empty
    <3>3. g.ptr[o].own = NoObject /\ g.ptr[o].strong = NoObject
      BY <1>2, <3>1, <3>2
    <3>4. CASE g.ptr[o].share = NoBlock /\ g.ptr[o].obj = NoObject
      BY <3>1, <3>3, <3>4, EmptyPointer DEF Fields
    <3>5. CASE ~(g.ptr[o].share = NoBlock /\ g.ptr[o].obj = NoObject)
      <4>1. o \notin E /\ g.ptr[o].share = h.ptr[o].share /\ g.ptr[o].obj = h.ptr[o].obj
        BY <1>2, <3>1, <3>5
      <4>2. o \notin D
        BY <1>4, <4>1
      <4>3. h.ptr[o] # Empty
        BY <3>5, <4>1 DEF Empty
      <4>4. o \in h.alive /\ valid(h, o) /\ h.ptr[o].obj = o
        BY <1>10, <4>3 DEF SelfPointers
      <4>5. get(h, o) = o /\ o # NoObject
        BY <1>10, <4>4 DEF get
      <4>. QED
        BY <1>4, <1>11, <1>12, <3>1, <3>3, <4>1, <4>2, <4>4, <4>5
    <3>. QED
      BY <3>4, <3>5
  <2>. QED
    BY <2>1 DEF SelfPointers
<1>17. Owned(g)
  <2>1. ASSUME NEW p \in g.alive \ SharedObjects
        PROVE  p \in g.raw \/ \E w \in Pointers : g.ptr[w].own = p
    <3>1. p \in h.alive \ SharedObjects /\ p \notin D /\ p # NoObject
      BY <1>4, <1>10
    <3>2. p \in h.raw \/ \E w \in Pointers : h.ptr[w].own = p
      BY <1>10, <3>1 DEF Owned
    <3>3. ASSUME NEW w \in Pointers, h.ptr[w].own = p PROVE g.ptr[w].own = p
      BY <1>2, <1>6, <3>1, <3>3
    <3>. QED
      BY <1>4, <3>1, <3>2, <3>3
  <2>2. \A p \in g.alive \cap SharedObjects : p \in g.outside \/ \E w \in Pointers : g.ptr[w].strong = p
    BY DEF Leaving
  <2>. QED
    BY <2>1, <2>2 DEF Owned
<1>18. Callers(g)
  BY <1>4, <1>10 DEF Callers
<1>19. Within(g, B)
  BY <1>2, <1>4, <1>10 DEF Within
<1>20. Managed(g)
  <2>1. ASSUME NEW w \in Pointers, is_managed(g, w), get(g, w) \notin SharedObjects
        PROVE  \E x \in Pointers : Keeps(g, x, w)
    <3>1. get(g, w) # NoObject
      BY <2>1, ManagedPoints
    <3>2. w \notin E /\ h.ptr[w].share \notin C /\ get(g, w) = get(h, w) /\ g.ptr[w].share = h.ptr[w].share
      BY <1>2, <1>11, <3>1
    <3>3. g.ptr[w].share \in DOMAIN g.share /\ h.ptr[w].share # NoBlock
      BY <3>1, <3>2, ManagedPoints
    <3>4. is_managed(h, w)
      BY <1>3, <2>1, <3>1, <3>2, <3>3 DEF is_managed
    <3>5. PICK x \in Pointers : Keeps(h, x, w)
      BY <1>10, <2>1, <3>2, <3>3, <3>4 DEF Managed, ManagedBut
    <3>6. /\ h.ptr[x].share = h.ptr[w].share /\ get(h, x) = get(h, w)
          /\ h.ptr[x].own = get(h, w) \/ x = get(h, w)
      BY <3>5 DEF Keeps
    <3>7. get(h, x) # NoObject /\ get(h, x) \notin D
      BY <1>8, <3>1, <3>2, <3>6
    <3>8. x \notin E
      <4>1. ASSUME x \in E PROVE FALSE
        <5>1. CASE h.ptr[x].own = get(h, w)
          <6>1. x \in K
            BY <1>5, <3>1, <3>2, <4>1, <5>1
          <6>2. h.ptr[x].own \notin h.alive
            BY <1>6, <3>6, <3>7, <5>1, <6>1
          <6>3. get(h, x) = NoObject
            BY <1>10, <3>1, <3>2, <5>1, <6>2 DEF Owning
          <6>. QED
            BY <3>7, <6>3
        <5>2. CASE x = get(h, w)
          <6>1. x \notin D
            BY <3>6, <3>7, <5>2
          <6>2. x \notin FromThis
            BY <1>4, <4>1, <6>1
          <6>3. get(h, w) \in Objects
            <7>1. get(h, w) = h.ptr[w].obj
              BY <3>1, <3>2, ManagedPoints
            <7>2. h.ptr[w].obj \in Objects \cup {NoObject}
              BY DEF Sound, Solid, IsHeap, Pointer
            <7>. QED
              BY <7>1, <7>2, <3>1, <3>2
          <6>. QED
            BY <5>2, <6>2, <6>3, HeapAssumption DEF Pointers
        <5>. QED
          BY <3>6, <5>1, <5>2
      <4>. QED
        BY <4>1
    <3>9. get(g, x) = get(h, x) /\ g.ptr[x].share = h.ptr[x].share
      BY <1>12, <3>7, <3>8
    <3>10. h.ptr[x].own = get(h, w) => g.ptr[x].own = get(h, w)
      <4>1. ASSUME h.ptr[x].own = get(h, w), x \in K PROVE FALSE
        <5>1. h.ptr[x].own \notin h.alive
          BY <1>6, <3>6, <3>7, <4>1
        <5>2. get(h, x) = NoObject
          BY <1>10, <3>1, <3>2, <4>1, <5>1 DEF Owning
        <5>. QED
          BY <3>7, <5>2
      <4>. QED
        BY <1>2, <4>1
    <3>11. Keeps(g, x, w)
      BY <3>2, <3>6, <3>9, <3>10 DEF Keeps
    <3>. QED
      BY <3>11
  <2>. QED
    BY <2>1 DEF Managed, ManagedBut
<1>. QED
  BY <1>1, <1>13, <1>14, <1>15, <1>16, <1>17, <1>18, <1>19, <1>20 DEF Sound, Solid

\* A step that changes nothing of this, and sets that are equal.
LEMMA ShrunkSame ==
  ASSUME NEW h, NEW k, NEW g, NEW K, NEW C, NEW T, NEW E,
         Shrunk(h, k, K, C, T, E), Shrunk(k, g, {}, {}, {}, {})
  PROVE  Shrunk(h, g, K, C, T, E)
<1>1. Shrunk(h, g, K \cup {}, C \cup {}, T \cup {}, E \cup {})
  BY ShrunkTwice
<1>2. K \cup {} = K /\ C \cup {} = C /\ T \cup {} = T /\ E \cup {} = E
  OBVIOUS
<1>. QED
  BY <1>1, <1>2

SelfOf(o) == {o} \cap FromThis
BlocksOf(h, S) == {h.ptr[x].share : x \in S}

\* An object goes, and its auto_this with it.
Deleted(h, g, o) ==
  /\ Shrunk(h, g, {}, BlocksOf(h, SelfOf(o)), SelfOf(o), SelfOf(o))
  /\ g.alive = h.alive \ {o} /\ g.raw = h.raw \ {o} /\ g.outside = h.outside

LEMMA DeleteEffect ==
  ASSUME FewPointers, NEW h, IsHeap(h), Counted(h), NEW o \in h.alive
  PROVE  Deleted(h, Delete(h, o), o)
<1>1. /\ h.alive \in SUBSET Objects /\ h.raw \in SUBSET Objects /\ h.outside \in SUBSET Objects
  BY DEF IsHeap
<1>2. PICK A \in SUBSET Objects, R \in SUBSET Objects, U \in SUBSET Objects :
        A = h.alive \ {o} /\ R = h.raw \ {o} /\ U = h.outside
  <2>1. h.alive \ {o} \in SUBSET Objects /\ h.raw \ {o} \in SUBSET Objects
    BY <1>1
  <2>. QED
    BY <1>1, <2>1
<1>3. PICK k : k = SetObjects(h, A, R, U)
  OBVIOUS
<1>4. Shrunk(h, k, {}, {}, {}, {}) /\ k.alive = A /\ k.raw = R /\ k.outside = U /\ k.ptr = h.ptr
  BY <1>3, ObjectsShrunk, ObjectsFields
<1>5. IsHeap(k) /\ Counted(k)
  BY <1>4 DEF Shrunk
<1>6. [h EXCEPT !.alive = @ \ {o}, !.raw = @ \ {o}] = k
  BY <1>2, <1>3 DEF SetObjects, IsHeap
<1>7. Delete(h, o) = IF o \in FromThis THEN ReleaseShare(SetNullptr(k, o), o) ELSE k
  BY <1>6 DEF Delete
<1>8. CASE o \notin FromThis
  <2>1. SelfOf(o) = {} /\ BlocksOf(h, SelfOf(o)) = {}
    BY <1>8 DEF SelfOf, BlocksOf
  <2>. QED
    BY <1>2, <1>4, <1>7, <1>8, <2>1 DEF Deleted
<1>9. CASE o \in FromThis
  <2>0. o \in Pointers
    BY <1>9 DEF Pointers
  <2>1. PICK m : m = SetNullptr(k, o)
    OBVIOUS
  <2>2. Nulled(k, m, o)
    BY <1>5, <2>0, <2>1, SetNullptrEffect
  <2>3. IsHeap(m) /\ Counted(m) /\ SameObjects(k, m)
    BY <2>2 DEF Nulled
  <2>4. PICK g : g = ReleaseShare(m, o)
    OBVIOUS
  <2>5. Released(m, g, o)
    BY <2>0, <2>3, <2>4, ReleaseShareEffect
  <2>6. Shrunk(k, m, {}, {k.ptr[o].share}, {o}, {}) /\ Shrunk(m, g, {}, {}, {o}, {o})
    BY <2>0, <2>2, <2>5, NulledShrunk, ReleasedShrunk
  <2>7. Shrunk(h, m, {} \cup {}, {} \cup {k.ptr[o].share}, {} \cup {o}, {} \cup {})
    BY <1>4, <2>6, ShrunkTwice
  <2>8. Shrunk(h, g, ({} \cup {}) \cup {}, ({} \cup {k.ptr[o].share}) \cup {}, ({} \cup {o}) \cup {o}, ({} \cup {}) \cup {o})
    BY <2>6, <2>7, ShrunkTwice
  <2>9. /\ SelfOf(o) = {o} /\ BlocksOf(h, SelfOf(o)) = {k.ptr[o].share}
        /\ ({} \cup {}) \cup {} = {} /\ ({} \cup {k.ptr[o].share}) \cup {} = {k.ptr[o].share}
        /\ ({} \cup {o}) \cup {o} = {o} /\ ({} \cup {}) \cup {o} = {o}
    BY <1>4, <1>9 DEF SelfOf, BlocksOf
  <2>10. Shrunk(h, g, {}, BlocksOf(h, SelfOf(o)), SelfOf(o), SelfOf(o))
    BY <2>8, <2>9
  <2>11. SameObjects(m, g)
    BY <2>5 DEF Released
  <2>. QED
    BY <1>2, <1>4, <1>7, <1>9, <2>1, <2>3, <2>4, <2>10, <2>11 DEF Deleted, SameObjects
<1>. QED
  BY <1>8, <1>9

\* The std::shared_ptr that are left.
LEMMA UseCount ==
  ASSUME NEW h, NEW o
  PROVE  /\ use_count(h, o) = 0 <=> o \notin h.outside /\ \A w \in Pointers : h.ptr[w].strong # o
         /\ \A v \in Pointers : h.ptr[v].strong = o =>
              (use_count(h, o) = 1 <=> o \notin h.outside /\ \A w \in Pointers \ {v} : h.ptr[w].strong # o)
<1> DEFINE S == {v \in Pointers : h.ptr[v].strong = o}
           U == {o} \cap h.outside
<1>1. IsFiniteSet(S) /\ Cardinality(S) \in Nat
  BY PointersFinite
<1>2. IsFiniteSet(U) /\ Cardinality(U) = IF o \in h.outside THEN 1 ELSE 0
  <2>1. IsFiniteSet({o}) /\ Cardinality({o}) = 1 /\ IsFiniteSet({}) /\ Cardinality({}) = 0
    BY FS_Singleton, FS_EmptySet
  <2>2. U = IF o \in h.outside THEN {o} ELSE {}
    OBVIOUS
  <2>. QED
    BY <2>1, <2>2
<1>3. use_count(h, o) = Cardinality(S) + Cardinality(U)
  BY DEF use_count
<1>4. Cardinality(S) = 0 <=> \A w \in Pointers : h.ptr[w].strong # o
  <2>1. Cardinality(S) = 0 <=> S = {}
    BY <1>1, FS_EmptySet
  <2>. QED
    BY <2>1
<1>5. ASSUME NEW v \in Pointers, h.ptr[v].strong = o
      PROVE  Cardinality(S) # 0 /\ (Cardinality(S) = 1 <=> \A w \in Pointers \ {v} : h.ptr[w].strong # o)
  <2>1. v \in S /\ IsFiniteSet(S \ {v}) /\ Cardinality(S \ {v}) = Cardinality(S) - 1
    BY <1>1, <1>5, FS_RemoveElement
  <2>2. Cardinality(S \ {v}) = 0 <=> S \ {v} = {}
    BY <2>1, FS_EmptySet
  <2>3. S \ {v} = {} <=> \A w \in Pointers \ {v} : h.ptr[w].strong # o
    OBVIOUS
  <2>. QED
    BY <1>1, <1>4, <1>5, <2>1, <2>2, <2>3
<1> HIDE DEF S, U
<1>6. use_count(h, o) = 0 <=> o \notin h.outside /\ \A w \in Pointers : h.ptr[w].strong # o
  BY <1>1, <1>2, <1>3, <1>4
<1>7. ASSUME NEW v \in Pointers, h.ptr[v].strong = o
      PROVE  use_count(h, o) = 1 <=> o \notin h.outside /\ \A w \in Pointers \ {v} : h.ptr[w].strong # o
  <2>1. Cardinality(S) # 0 /\ (Cardinality(S) = 1 <=> \A w \in Pointers \ {v} : h.ptr[w].strong # o)
    BY <1>5, <1>7
  <2>. QED
    BY <1>1, <1>2, <1>3, <2>1
<1>. QED
  BY <1>6, <1>7

LEMMA SamePointer ==
  ASSUME NEW x \in Pointer, NEW y \in Pointer, Fields(x, y.share, y.obj, y.own, y.strong)
  PROVE  x = y
BY DEF Pointer, Fields

\* The pointers a program handles that are not changed.
Others(h, g, S) == \A w \in Plain \ S : g.ptr[w] = h.ptr[w]

LEMMA ShrunkOthers ==
  ASSUME NEW h, IsHeap(h), NEW g, NEW K, NEW C, NEW T, NEW E, Shrunk(h, g, K, C, T, E)
  PROVE  Others(h, g, K \cup T)
<1>1. ASSUME NEW w \in Plain, w \notin K, w \notin T PROVE g.ptr[w] = h.ptr[w]
  <2>1. w \in Pointers
    BY DEF Plain, Pointers
  <2>2. g.ptr[w] \in Pointer /\ h.ptr[w] \in Pointer
    BY <2>1 DEF Shrunk, IsHeap
  <2>3. Fields(g.ptr[w], h.ptr[w].share, h.ptr[w].obj, h.ptr[w].own, h.ptr[w].strong)
    BY <1>1, <2>1 DEF Shrunk, Fields
  <2>. QED
    BY <2>2, <2>3, SamePointer
<1>. QED
  BY <1>1 DEF Others

\* Pointers other than v that a program handles point to what they pointed to,
\* or to nothing.  When an object of std::shared_ptr goes with v, those of its
\* block point to nothing.
Fades(h, g, v) == \A w \in Plain : w # v => get(g, w) \in {get(h, w), NoObject}

Tells(h, g, v) ==
  \A o \in SharedObjects : o \in h.alive /\ o \notin g.alive =>
    /\ h.ptr[v].strong = o
    /\ \A w \in Plain : w # v /\ h.ptr[w].share = h.ptr[v].share => get(g, w) = NoObject

\* What is left when v is destroyed: v is empty, others are as they were.
Dropped(h, g, B, v) ==
  /\ Sound(g, B) /\ g.ptr[v] = Empty /\ Others(h, g, {v}) /\ g.alive \subseteq h.alive
  /\ Fades(h, g, v) /\ Tells(h, g, v)

\* A block that is there still is as valid as it was, or invalid.
LEMMA ShrunkFades ==
  ASSUME NEW h, NEW g, NEW K, NEW C, NEW T, NEW E, Shrunk(h, g, K, C, T, E), NEW w \in Pointers, w \notin T
  PROVE  get(g, w) \in {get(h, w), NoObject} /\ (h.ptr[w].share \in C => get(g, w) = NoObject)
<1>1. g.ptr[w].share = h.ptr[w].share /\ g.ptr[w].obj = h.ptr[w].obj
  BY DEF Shrunk
<1>2. CASE ~valid(g, w)
  BY <1>2 DEF get
<1>3. CASE valid(g, w)
  <2>1. h.ptr[w].share # NoBlock /\ h.ptr[w].share \in DOMAIN g.share /\ g.share[h.ptr[w].share].valid
    BY <1>1, <1>3 DEF valid
  <2>2. h.ptr[w].share \notin C /\ h.ptr[w].share \in DOMAIN h.share /\ h.share[h.ptr[w].share].valid
    BY <2>1 DEF Shrunk
  <2>3. valid(h, w)
    BY <2>1, <2>2 DEF valid
  <2>. QED
    BY <1>1, <1>3, <2>2, <2>3 DEF get
<1>. QED
  BY <1>2, <1>3

\* v gives up what others hold as well, or nothing.
LEMMA GivenUp ==
  ASSUME NEW B, NEW h, Sound(h, B), NEW v \in Plain, NEW g,
         Shrunk(h, g, {v}, {}, {v}, {v}), SameObjects(h, g), h.ptr[v].own \notin h.alive,
         h.ptr[v].strong # NoObject =>
           h.ptr[v].strong \in h.outside \/ \E w \in Pointers \ {v} : h.ptr[w].strong = h.ptr[v].strong
  PROVE  Dropped(h, g, B, v)
<1>1. v \in Pointers /\ v \notin FromThis /\ NoObject \notin h.alive
  BY HeapAssumption DEF Plain, Pointers, Sound, Solid, IsHeap
<1>2. /\ \A w \in Pointers : w # v => g.ptr[w].strong = h.ptr[w].strong
      /\ Fields(g.ptr[v], NoBlock, NoObject, NoObject, NoObject)
  BY <1>1 DEF Shrunk, Fields
<1>3. \A p \in g.alive \cap SharedObjects : p \in g.outside \/ \E w \in Pointers : g.ptr[w].strong = p
  <2>1. ASSUME NEW p \in h.alive \cap SharedObjects
        PROVE  p \in h.outside \/ \E w \in Pointers \ {v} : h.ptr[w].strong = p
    <3>1. p \in h.outside \/ \E w \in Pointers : h.ptr[w].strong = p
      BY DEF Sound, Solid, Owned
    <3>. QED
      BY <1>1, <3>1
  <2>. QED
    BY <1>2, <2>1 DEF SameObjects
<1>4. Leaving(h, g, {v}, {}, {v}, {})
  BY <1>1, <1>3 DEF Leaving, SameObjects
<1>5. Sound(g, B)
  BY <1>4, LeavingSound
<1>6. g.ptr[v] = Empty
  BY <1>1, <1>2, <1>5, EmptyPointer DEF Sound, Solid, IsHeap
<1>7. Others(h, g, {v} \cup {v})
  BY ShrunkOthers DEF Sound, Solid
<1>8. Fades(h, g, v) /\ Tells(h, g, v)
  <2>1. ASSUME NEW w \in Plain, w # v PROVE get(g, w) \in {get(h, w), NoObject}
    BY <2>1, ShrunkFades DEF Plain, Pointers
  <2>. QED
    BY <2>1 DEF Fades, Tells, SameObjects
<1>. QED
  BY <1>5, <1>6, <1>7, <1>8 DEF Dropped, Others, SameObjects

\* The last that holds o goes, and o with it.
LEMMA GivenUpLast ==
  ASSUME NEW B, NEW h, Sound(h, B), NEW v \in Plain, NEW o \in h.alive, NEW g,
         Shrunk(h, g, {v}, {h.ptr[v].share} \cup BlocksOf(h, SelfOf(o)), {v} \cup SelfOf(o), {v} \cup SelfOf(o)),
         g.alive = h.alive \ {o} /\ g.raw = h.raw \ {o} /\ g.outside = h.outside, o \notin h.outside,
         get(h, v) = o, h.ptr[v].own \in {o, NoObject},
         \A w \in Pointers \ {v} : h.ptr[w].own # o /\ h.ptr[w].strong # o,
         h.ptr[v].strong \in {o, NoObject}
  PROVE  Dropped(h, g, B, v)
<1> DEFINE C == {h.ptr[v].share} \cup BlocksOf(h, SelfOf(o))
           E == {v} \cup SelfOf(o)
<1>0. /\ Agree(h) /\ Owning(h) /\ Sharing(h) /\ SelfPointers(h) /\ Owned(h) /\ IsHeap(h)
  BY DEF Sound, Solid
<1>1. v \in Pointers /\ v \notin FromThis /\ NoObject \notin h.alive /\ v # o
  BY <1>0, HeapAssumption DEF Plain, Pointers, IsHeap
<1>2. /\ \A w \in Pointers : w # v => g.ptr[w].strong = h.ptr[w].strong
      /\ Fields(g.ptr[v], NoBlock, NoObject, NoObject, NoObject)
  BY <1>1 DEF Shrunk, Fields
<1>3. \A p \in g.alive \cap SharedObjects : p \in g.outside \/ \E w \in Pointers : g.ptr[w].strong = p
  <2>1. ASSUME NEW p \in h.alive \cap SharedObjects, p # o
        PROVE  p \in h.outside \/ \E w \in Pointers \ {v} : h.ptr[w].strong = p
    <3>1. p \in h.outside \/ \E w \in Pointers : h.ptr[w].strong = p
      BY <1>0 DEF Owned
    <3>. QED
      BY <1>1, <2>1, <3>1
  <2>. QED
    BY <1>2, <2>1
<1>4. ASSUME NEW w \in Pointers, h.ptr[w].share \in C, get(h, w) # NoObject PROVE get(h, w) = o
  <2>1. PICK x \in Pointers : h.ptr[w].share = h.ptr[x].share /\ h.ptr[x].obj \in {o, NoObject} /\ (x = v \/ x = o)
    <3>1. CASE h.ptr[w].share = h.ptr[v].share
      <4>1. h.ptr[v].obj = o
        BY <1>1, ManagedPoints
      <4>. QED
        BY <1>1, <3>1, <4>1
    <3>2. CASE h.ptr[w].share \in BlocksOf(h, SelfOf(o))
      <4>1. o \in FromThis /\ h.ptr[w].share = h.ptr[o].share
        BY <3>2 DEF BlocksOf, SelfOf
      <4>2. h.ptr[o].obj \in {o, NoObject}
        BY <1>0, <4>1 DEF SelfPointers, Empty
      <4>. QED
        BY <4>1, <4>2 DEF Pointers
    <3>. QED
      BY <1>4, <3>1, <3>2
  <2>2. get(h, w) = h.ptr[w].obj /\ h.ptr[w].share # NoBlock
    BY <1>4, ManagedPoints
  <2>3. h.ptr[x].obj # NoObject
    <3>1. CASE x = v
      BY <1>1, <3>1, ManagedPoints
    <3>2. CASE x = o
      <4>1. o \in FromThis
        BY <3>2, HeapAssumption, <1>0 DEF Pointers, IsHeap
      <4>2. h.ptr[o] # Empty
        BY <2>1, <2>2, <3>2 DEF Empty
      <4>. QED
        BY <1>0, <1>1, <3>2, <4>1, <4>2 DEF SelfPointers
    <3>. QED
      BY <2>1, <3>1, <3>2
  <2>. QED
    BY <1>0, <1>4, <2>1, <2>2, <2>3 DEF Agree
<1>5. ASSUME NEW w \in Pointers, get(h, w) = o, h.ptr[w].own = o \/ w = o PROVE h.ptr[w].share \in C
  <2>1. CASE w = v
    BY <2>1
  <2>2. CASE w # v
    <3>1. w = o
      BY <1>5, <2>2
    <3>2. o \in FromThis
      BY <3>1, HeapAssumption, <1>0 DEF Pointers, IsHeap
    <3>. QED
      BY <3>1, <3>2 DEF BlocksOf, SelfOf
  <2>. QED
    BY <2>1, <2>2
<1>6. \A w \in E \cap Pointers : w \in {v} \/ (h.ptr[w].own = NoObject /\ h.ptr[w].strong = NoObject)
  BY <1>0 DEF SelfOf, SelfPointers, Empty
<1>7. {o} \cap FromThis \subseteq E /\ E \cap FromThis \subseteq {o} /\ {o} \subseteq h.alive
  BY <1>1 DEF SelfOf
<1>8. g.outside \subseteq h.outside \ {o}
  OBVIOUS
<1> HIDE DEF C, E
<1>9. Leaving(h, g, {v}, C, E, {o})
  <2>1. Shrunk(h, g, {v}, C, E, E)
    BY DEF C, E
  <2>2. /\ \A w \in {v} \cap Pointers : h.ptr[w].own \in {o} \/ h.ptr[w].own \notin h.alive
        /\ \A w \in Pointers : w \notin {v} => h.ptr[w].strong \notin {o}
    BY <1>1
  <2>3. /\ \A w \in Pointers : h.ptr[w].share \in C /\ get(h, w) # NoObject => get(h, w) \in {o}
        /\ \A w \in Pointers :
             get(h, w) \in {o} /\ (h.ptr[w].own = get(h, w) \/ w = get(h, w)) => h.ptr[w].share \in C
    BY <1>4, <1>5
  <2>. QED
    BY <1>3, <1>6, <1>7, <1>8, <2>1, <2>2, <2>3 DEF Leaving
<1>10. Sound(g, B)
  BY <1>9, LeavingSound
<1>11. g.ptr[v] = Empty
  BY <1>1, <1>2, <1>10, EmptyPointer DEF Sound, Solid, IsHeap
<1>12. Others(h, g, {v} \cup E)
  BY <1>0, ShrunkOthers DEF E
<1>13. Others(h, g, {v})
  <2>1. \A w \in Plain : w \in E => w = v
    BY <1>0, HeapAssumption DEF E, SelfOf, Plain, IsHeap
  <2>. QED
    BY <1>12, <2>1 DEF Others
<1>14. ASSUME NEW w \in Plain, w # v
       PROVE  get(g, w) \in {get(h, w), NoObject} /\ (h.ptr[w].share = h.ptr[v].share => get(g, w) = NoObject)
  <2>1. w \notin E /\ w \in Pointers
    BY <1>0, <1>14, HeapAssumption DEF E, SelfOf, Plain, Pointers, IsHeap
  <2>2. Shrunk(h, g, {v}, C, E, E) /\ h.ptr[v].share \in C
    BY DEF C, E
  <2>. QED
    BY <2>1, <2>2, ShrunkFades
<1>15. Fades(h, g, v)
  BY <1>14 DEF Fades
<1>16. Tells(h, g, v)
  <2>1. ASSUME NEW p \in SharedObjects, p \in h.alive, p \notin g.alive
        PROVE  h.ptr[v].strong = p
    <3>1. p = o
      BY <2>1
    <3>2. \E w \in Pointers : h.ptr[w].strong = o
      BY <1>0, <2>1, <3>1 DEF Owned
    <3>. QED
      BY <3>1, <3>2
  <2>. QED
    BY <1>14, <2>1 DEF Tells
<1>. QED
  BY <1>10, <1>11, <1>13, <1>15, <1>16 DEF Dropped

\* The end of every way through the destructor.
LEMMA DropEnd ==
  ASSUME FewPointers, NEW h, NEW k, NEW g, NEW v \in Pointers, NEW K, NEW C, NEW T, NEW E,
         Shrunk(h, k, K, C, T, E), g = ReleaseShare(k, v)
  PROVE  Shrunk(h, g, K, C, T \cup {v}, E \cup {v}) /\ SameObjects(k, g)
<1>1. IsHeap(k) /\ Counted(k)
  BY DEF Shrunk
<1>2. Released(k, g, v)
  BY <1>1, ReleaseShareEffect
<1>3. Shrunk(k, g, {}, {}, {v}, {v})
  BY <1>2, ReleasedShrunk
<1>4. Shrunk(h, g, K \cup {}, C \cup {}, T \cup {v}, E \cup {v})
  BY <1>3, ShrunkTwice
<1>5. K \cup {} = K /\ C \cup {} = C
  OBVIOUS
<1>. QED
  BY <1>2, <1>4, <1>5 DEF Released

LEMMA DropSound ==
  ASSUME FewPointers, NEW B, NEW h, Sound(h, B), NEW v \in Plain
  PROVE  Dropped(h, Drop(h, v), B, v)
<1> DEFINE own == h.ptr[v].own
           o == h.ptr[v].strong
<1>0. PICK g : g = Drop(h, v)
  OBVIOUS
<1>1. v \in Pointers /\ v \notin Objects
  BY HeapAssumption DEF Plain, Pointers
<1>2. /\ IsHeap(h) /\ Counted(h) /\ Owning(h) /\ Sharing(h) /\ Callers(h) /\ NoObject \notin h.alive
      /\ h.alive \subseteq Objects
  BY HeapAssumption DEF Sound, Solid, IsHeap
<1>3. /\ own # NoObject => own \notin SharedObjects \cup h.raw
      /\ own # NoObject /\ own \in h.alive => get(h, v) = own
      /\ own # NoObject /\ own \notin h.alive => get(h, v) = NoObject
      /\ \A w \in Pointers : own # NoObject /\ w # v => h.ptr[w].own # own
  BY <1>1, <1>2 DEF Owning
<1>4. o # NoObject => o \in SharedObjects \cap h.alive /\ get(h, v) = o
  BY <1>1, <1>2 DEF Sharing
\* v has nothing that others do not have.
<1>5. ASSUME own \notin h.alive, NEW k, Shrunk(h, k, {v}, {}, {}, {}), SameObjects(h, k), g = ReleaseShare(k, v),
             o # NoObject => o \in h.outside \/ \E w \in Pointers \ {v} : h.ptr[w].strong = o
      PROVE  Dropped(h, g, B, v)
  <2>1. Shrunk(h, g, {v}, {}, {} \cup {v}, {} \cup {v}) /\ SameObjects(k, g)
    BY <1>1, <1>5, DropEnd
  <2>2. {} \cup {v} = {v} /\ SameObjects(h, g)
    BY <1>5, <2>1 DEF SameObjects
  <2>. QED
    BY <1>5, <2>1, <2>2, GivenUp
<1>6. CASE get(h, v) = NoObject
  <2>1. o = NoObject /\ own \notin h.alive
    BY <1>2, <1>3, <1>4, <1>6
  <2>2. PICK k : k = SetOwn(h, v, NoObject)
    OBVIOUS
  <2>3. SameObjects(h, k) /\ Shrunk(h, k, {v}, {}, {}, {})
    BY <1>1, <1>2, <2>1, <2>2, OwnShrunk
  <2>4. IsHeap(k) /\ Counted(k) /\ k.ptr[v].own = NoObject /\ k.ptr[v].strong = NoObject
    BY <1>1, <2>3 DEF Shrunk
  <2>5. PICK l : l = SetStrong(k, v, NoObject)
    OBVIOUS
  <2>6. SameObjects(k, l) /\ Shrunk(k, l, {}, {}, {}, {})
    BY <1>1, <2>4, <2>5, StrongShrunk
  <2>7. IsHeap(l) /\ Counted(l) /\ l.ptr[v].own = NoObject
    BY <1>1, <2>4, <2>6 DEF Shrunk
  <2>8. PICK m : m = SetOwn(l, v, NoObject)
    OBVIOUS
  <2>9. SameObjects(l, m) /\ Shrunk(l, m, {}, {}, {}, {})
    BY <1>1, <2>7, <2>8, OwnShrunk
  <2>10. Shrunk(h, l, {v}, {}, {}, {})
    BY <2>3, <2>6, ShrunkSame
  <2>11. Shrunk(h, m, {v}, {}, {}, {}) /\ SameObjects(h, m)
    BY <2>3, <2>6, <2>9, <2>10, ShrunkSame DEF SameObjects
  <2>12. g = ReleaseShare(m, v)
    <3>1. ~is_owner(k, v) /\ ~is_shared_ptr(k, v)
      BY <2>4 DEF is_owner, is_shared_ptr
    <3>2. g = ReleaseShare(DropOwn(DropStrong(k, v), v), v)
      BY <1>0, <1>6, <2>2, <3>1 DEF Drop, SetOwn
    <3>3. DropStrong(k, v) = l
      BY <2>4, <2>5 DEF DropStrong, SetStrong
    <3>4. DropOwn(l, v) = m
      BY <2>7, <2>8 DEF DropOwn, SetOwn, is_owner
    <3>. QED
      BY <3>2, <3>3, <3>4
  <2>. QED
    BY <1>0, <1>5, <2>1, <2>11, <2>12
<1>7. CASE get(h, v) # NoObject /\ own = NoObject /\ (o = NoObject \/ use_count(h, o) # 1)
  <2>1. g = ReleaseShare(DropOwn(DropStrong(h, v), v), v)
    BY <1>0, <1>7 DEF Drop, is_owner, is_shared_ptr
  <2>2. PICK k : k = SetStrong(h, v, NoObject)
    OBVIOUS
  <2>3. SameObjects(h, k) /\ Shrunk(h, k, {v}, {}, {}, {})
    BY <1>1, <1>2, <1>7, <2>2, StrongShrunk
  <2>4. IsHeap(k) /\ Counted(k) /\ k.ptr[v].own = NoObject /\ \A w \in Pointers \ {v} : k.ptr[w].strong = h.ptr[w].strong
    BY <1>1, <2>3 DEF Shrunk
  <2>5. PICK m : m = SetOwn(k, v, NoObject)
    OBVIOUS
  <2>6. SameObjects(k, m) /\ Shrunk(k, m, {}, {}, {}, {})
    BY <1>1, <2>4, <2>5, OwnShrunk
  <2>7. Shrunk(h, m, {v}, {}, {}, {}) /\ SameObjects(h, m)
    BY <2>3, <2>6, ShrunkSame DEF SameObjects
  <2>8. o # NoObject => o \in h.outside \/ \E w \in Pointers \ {v} : h.ptr[w].strong = o
    BY <1>1, <1>7, UseCount
  <2>9. o # NoObject => use_count(k, o) # 0
    BY <2>3, <2>4, <2>8, UseCount DEF SameObjects
  <2>10. DropStrong(h, v) = k
    BY <2>2, <2>9 DEF DropStrong, SetStrong
  <2>11. DropOwn(k, v) = m
    BY <2>4, <2>5 DEF DropOwn, SetOwn, is_owner
  <2>. QED
    BY <1>0, <1>2, <1>5, <1>7, <2>1, <2>7, <2>8, <2>10, <2>11
\* v is the last that has p.
<1>8. ASSUME NEW p \in h.alive, get(h, v) = p, own \in {p, NoObject}, o \in {p, NoObject}, p \notin h.outside,
             \A w \in Pointers \ {v} : h.ptr[w].own # p /\ h.ptr[w].strong # p,
             NEW m, Shrunk(h, m, {v}, {h.ptr[v].share} \cup BlocksOf(h, SelfOf(p)), {v} \cup SelfOf(p), SelfOf(p)),
             m.alive = h.alive \ {p}, m.raw = h.raw \ {p}, m.outside = h.outside, g = ReleaseShare(m, v)
      PROVE  Dropped(h, g, B, v)
  <2>1. /\ Shrunk(h, g, {v}, {h.ptr[v].share} \cup BlocksOf(h, SelfOf(p)), ({v} \cup SelfOf(p)) \cup {v}, SelfOf(p) \cup {v})
        /\ SameObjects(m, g)
    BY <1>1, <1>8, DropEnd
  <2>2. ({v} \cup SelfOf(p)) \cup {v} = {v} \cup SelfOf(p) /\ SelfOf(p) \cup {v} = {v} \cup SelfOf(p)
    OBVIOUS
  <2>3. Shrunk(h, g, {v}, {h.ptr[v].share} \cup BlocksOf(h, SelfOf(p)), {v} \cup SelfOf(p), {v} \cup SelfOf(p))
    BY <2>1, <2>2
  <2>4. g.alive = h.alive \ {p} /\ g.raw = h.raw \ {p} /\ g.outside = h.outside
    BY <1>8, <2>1 DEF SameObjects
  <2>. QED
    BY <1>8, <2>3, <2>4, GivenUpLast
\* The block becomes nullptr, v gives up p, and p goes.
<1>9. ASSUME NEW p \in h.alive, NEW k, Nulled(h, k, v), NEW l, Shrunk(k, l, {v}, {}, {}, {}), SameObjects(k, l)
      PROVE  /\ Shrunk(h, Delete(l, p), {v}, {h.ptr[v].share} \cup BlocksOf(h, SelfOf(p)), {v} \cup SelfOf(p), SelfOf(p))
             /\ Delete(l, p).alive = h.alive \ {p} /\ Delete(l, p).raw = h.raw \ {p} /\ Delete(l, p).outside = h.outside
  <2>1. PICK d : d = Delete(l, p)
    OBVIOUS
  <2>2. IsHeap(l) /\ Counted(l) /\ l.alive = h.alive /\ l.raw = h.raw /\ l.outside = h.outside
    BY <1>9 DEF Shrunk, SameObjects, Nulled
  <2>3. Deleted(l, d, p)
    BY <2>1, <2>2, DeleteEffect
  <2>4. Shrunk(h, k, {}, {h.ptr[v].share}, {v}, {})
    BY <1>1, <1>9, NulledShrunk
  <2>5. Shrunk(h, l, {} \cup {v}, {h.ptr[v].share} \cup {}, {v} \cup {}, {} \cup {})
    BY <1>9, <2>4, ShrunkTwice
  <2>6. Shrunk(h, d, ({} \cup {v}) \cup {}, ({h.ptr[v].share} \cup {}) \cup BlocksOf(l, SelfOf(p)),
               ({v} \cup {}) \cup SelfOf(p), ({} \cup {}) \cup SelfOf(p))
    BY <2>3, <2>5, ShrunkTwice DEF Deleted
  <2>7. BlocksOf(l, SelfOf(p)) = BlocksOf(h, SelfOf(p))
    <3>1. ASSUME NEW x \in SelfOf(p) PROVE l.ptr[x].share = h.ptr[x].share
      <4>1. x \in Pointers /\ x # v
        BY <1>1, <1>2 DEF SelfOf, Pointers
      <4>2. k.ptr[x].share = h.ptr[x].share
        BY <1>9, <4>1 DEF Nulled, Only
      <4>3. l.ptr[x].share = k.ptr[x].share
        BY <1>9, <4>1 DEF Shrunk
      <4>. QED
        BY <4>2, <4>3
    <3>. QED
      BY <3>1 DEF BlocksOf
  <2>8. /\ ({} \cup {v}) \cup {} = {v} /\ ({h.ptr[v].share} \cup {}) = {h.ptr[v].share}
        /\ ({v} \cup {}) \cup SelfOf(p) = {v} \cup SelfOf(p) /\ ({} \cup {}) \cup SelfOf(p) = SelfOf(p)
    OBVIOUS
  <2>9. Shrunk(h, d, {v}, {h.ptr[v].share} \cup BlocksOf(h, SelfOf(p)), {v} \cup SelfOf(p), SelfOf(p))
    BY <2>6, <2>7, <2>8
  <2>. QED
    BY <2>1, <2>2, <2>3, <2>9 DEF Deleted
<1>10. PICK k : k = SetNullptr(h, v)
  OBVIOUS
<1>11. Nulled(h, k, v)
  BY <1>1, <1>2, <1>10, SetNullptrEffect
<1>12. /\ IsHeap(k) /\ Counted(k) /\ SameObjects(h, k) /\ k.ptr[v].own = own /\ k.ptr[v].strong = o
       /\ \A w \in Pointers : w # v => k.ptr[w] = h.ptr[w]
  BY <1>11 DEF Nulled, Only, Fields
<1>13. CASE get(h, v) # NoObject /\ own # NoObject
  <2>1. own \in h.alive /\ get(h, v) = own /\ own \notin SharedObjects /\ o = NoObject
    BY <1>3, <1>4, <1>13
  <2>2. g = ReleaseShare(DropOwn(DropStrong(k, v), v), v)
    BY <1>0, <1>10, <1>13 DEF Drop, is_owner
  <2>3. PICK l : l = SetStrong(k, v, NoObject)
    OBVIOUS
  <2>4. SameObjects(k, l) /\ Shrunk(k, l, {}, {}, {}, {})
    BY <1>1, <1>12, <2>1, <2>3, StrongShrunk
  <2>5. IsHeap(l) /\ Counted(l) /\ l.ptr[v].own = own /\ l.ptr[v].strong = NoObject
    BY <1>1, <1>12, <2>1, <2>4 DEF Shrunk
  <2>6. PICK m : m = SetOwn(l, v, NoObject)
    OBVIOUS
  <2>7. SameObjects(l, m) /\ Shrunk(l, m, {v}, {}, {}, {})
    BY <1>1, <2>5, <2>6, OwnShrunk
  <2>8. Shrunk(k, m, {v}, {}, {}, {}) /\ SameObjects(k, m)
    <3>1. Shrunk(k, m, {} \cup {v}, {} \cup {}, {} \cup {}, {} \cup {})
      BY <2>4, <2>7, ShrunkTwice
    <3>2. {} \cup {v} = {v} /\ {} \cup {} = {}
      OBVIOUS
    <3>. QED
      BY <2>4, <2>7, <3>1, <3>2 DEF SameObjects
  <2>9. DropStrong(k, v) = l
    BY <1>12, <2>1, <2>3 DEF DropStrong, SetStrong
  <2>10. DropOwn(l, v) = Delete(m, own)
    BY <1>13, <2>5, <2>6 DEF DropOwn, SetOwn, is_owner
  <2>11. g = ReleaseShare(Delete(m, own), v)
    BY <2>2, <2>9, <2>10
  <2>12. own \notin h.outside /\ \A w \in Pointers \ {v} : h.ptr[w].own # own /\ h.ptr[w].strong # own
    BY <1>2, <1>3, <1>13, <2>1 DEF Callers, Sharing
  <2>. QED
    <3>1. PICK d : d = Delete(m, own)
      OBVIOUS
    <3>2. /\ Shrunk(h, d, {v}, {h.ptr[v].share} \cup BlocksOf(h, SelfOf(own)), {v} \cup SelfOf(own), SelfOf(own))
          /\ d.alive = h.alive \ {own} /\ d.raw = h.raw \ {own} /\ d.outside = h.outside
      BY <1>9, <1>11, <2>1, <2>8, <3>1
    <3>3. own \in {own, NoObject} /\ o \in {own, NoObject} /\ g = ReleaseShare(d, v)
      BY <2>1, <2>11, <3>1
    <3>. QED
      BY <1>0, <1>8, <2>1, <2>12, <3>2, <3>3
<1>14. CASE get(h, v) # NoObject /\ own = NoObject /\ o # NoObject /\ use_count(h, o) = 1
  <2>1. o \in h.alive /\ o \in SharedObjects /\ get(h, v) = o
    BY <1>4, <1>14
  <2>2. g = ReleaseShare(DropOwn(DropStrong(k, v), v), v)
    BY <1>0, <1>10, <1>14 DEF Drop, is_owner, is_shared_ptr
  <2>3. o \notin h.outside /\ \A w \in Pointers \ {v} : h.ptr[w].strong # o
    BY <1>1, <1>14, UseCount
  <2>4. PICK l : l = SetStrong(k, v, NoObject)
    OBVIOUS
  <2>5. SameObjects(k, l) /\ Shrunk(k, l, {v}, {}, {}, {})
    BY <1>1, <1>12, <1>14, <2>4, StrongShrunk
  <2>6. /\ \A w \in Pointers : l.ptr[w].strong # o
        /\ o \notin l.outside
    <3>1. l.ptr[v].strong = NoObject
      BY <1>1, <2>5 DEF Shrunk
    <3>2. ASSUME NEW w \in Pointers, w # v PROVE l.ptr[w].strong = h.ptr[w].strong
      BY <1>12, <2>5, <3>2 DEF Shrunk
    <3>3. l.outside = h.outside
      BY <1>12, <2>5 DEF SameObjects
    <3>. QED
      BY <1>14, <2>3, <3>1, <3>2, <3>3
  <2>7. DropStrong(k, v) = Delete(l, o)
    <3>1. use_count(l, o) = 0
      BY <2>6, UseCount
    <3>2. [k EXCEPT !.ptr[v].strong = NoObject] = l
      BY <2>4 DEF SetStrong
    <3>. QED
      BY <1>12, <1>14, <3>1, <3>2 DEF DropStrong
  <2>8. PICK d : d = Delete(l, o)
    OBVIOUS
  <2>9. /\ Shrunk(h, d, {v}, {h.ptr[v].share} \cup BlocksOf(h, SelfOf(o)), {v} \cup SelfOf(o), SelfOf(o))
        /\ d.alive = h.alive \ {o} /\ d.raw = h.raw \ {o} /\ d.outside = h.outside
    BY <1>9, <1>11, <2>1, <2>5, <2>8
  <2>10. IsHeap(d) /\ Counted(d) /\ d.ptr[v].own = NoObject
    BY <1>1, <2>9 DEF Shrunk
  <2>11. PICK m : m = SetOwn(d, v, NoObject)
    OBVIOUS
  <2>12. SameObjects(d, m) /\ Shrunk(d, m, {}, {}, {}, {})
    BY <1>1, <2>10, <2>11, OwnShrunk
  <2>13. Shrunk(h, m, {v}, {h.ptr[v].share} \cup BlocksOf(h, SelfOf(o)), {v} \cup SelfOf(o), SelfOf(o))
    BY <2>9, <2>12, ShrunkSame
  <2>14. m.alive = h.alive \ {o} /\ m.raw = h.raw \ {o} /\ m.outside = h.outside
    BY <2>9, <2>12 DEF SameObjects
  <2>15. DropOwn(d, v) = m
    BY <2>10, <2>11 DEF DropOwn, SetOwn, is_owner
  <2>16. g = ReleaseShare(m, v)
    BY <2>2, <2>7, <2>8, <2>15
  <2>17. \A w \in Pointers \ {v} : h.ptr[w].own # o
    BY <1>2, <1>4, <1>14, <2>1 DEF Owning
  <2>. QED
    BY <1>0, <1>8, <1>14, <2>1, <2>3, <2>13, <2>14, <2>16, <2>17
<1>. QED
  BY <1>0, <1>6, <1>7, <1>13, <1>14

\* An object goes that no auto_ptr shares, and that only an object with
\* auto_this may be owned.
LEMMA GoneAlone ==
  ASSUME NEW B, NEW h, Sound(h, B), NEW o \in h.alive, NEW g,
         Shrunk(h, g, {}, BlocksOf(h, SelfOf(o)), SelfOf(o), SelfOf(o)),
         g.alive = h.alive \ {o} /\ g.raw = h.raw \ {o} /\ g.outside = h.outside \ {o},
         \A w \in Pointers : h.ptr[w].strong # o /\ (h.ptr[w].own = o => o \in FromThis)
  PROVE  Sound(g, B) /\ Others(h, g, {})
<1> DEFINE C == BlocksOf(h, SelfOf(o))
           E == SelfOf(o)
<1>0. /\ Agree(h) /\ Owning(h) /\ Sharing(h) /\ SelfPointers(h) /\ Owned(h) /\ IsHeap(h)
  BY DEF Sound, Solid
<1>1. NoObject \notin h.alive /\ o \in Objects
  BY <1>0, HeapAssumption DEF IsHeap
<1>2. ASSUME NEW w \in Pointers, h.ptr[w].share \in C, get(h, w) # NoObject PROVE get(h, w) = o
  <2>1. o \in FromThis /\ o \in Pointers /\ h.ptr[w].share = h.ptr[o].share
    BY <1>2 DEF BlocksOf, SelfOf, Pointers
  <2>2. get(h, w) = h.ptr[w].obj /\ h.ptr[w].share # NoBlock
    BY <1>2, ManagedPoints
  <2>3. h.ptr[o].obj = o
    BY <1>0, <2>1, <2>2 DEF SelfPointers, Empty
  <2>. QED
    BY <1>0, <1>1, <1>2, <2>1, <2>2, <2>3 DEF Agree
<1>3. ASSUME NEW w \in Pointers, get(h, w) = o, h.ptr[w].own = o \/ w = o PROVE h.ptr[w].share \in C
  <2>1. CASE w = o
    <3>1. o \in FromThis
      BY <1>1, <2>1, HeapAssumption DEF Pointers
    <3>. QED
      BY <2>1, <3>1 DEF BlocksOf, SelfOf
  <2>2. CASE h.ptr[w].own = o
    <3>1. o \in FromThis
      BY <2>2
    <3>2. h.ptr[w].share = h.ptr[o].share
      BY <1>0, <1>1, <2>2, <3>1 DEF Owning
    <3>. QED
      BY <3>1, <3>2 DEF BlocksOf, SelfOf
  <2>. QED
    BY <1>3, <2>1, <2>2
<1>4. \A w \in E \cap Pointers : h.ptr[w].own = NoObject /\ h.ptr[w].strong = NoObject
  BY <1>0 DEF SelfOf, SelfPointers, Empty
<1>5. {o} \cap FromThis \subseteq E /\ E \cap FromThis \subseteq {o} /\ {o} \subseteq h.alive
  BY DEF SelfOf
<1>6. \A p \in g.alive \cap SharedObjects : p \in g.outside \/ \E w \in Pointers : g.ptr[w].strong = p
  <2>1. \A w \in Pointers : g.ptr[w].strong = h.ptr[w].strong
    BY DEF Shrunk
  <2>. QED
    BY <1>0, <2>1 DEF Owned
<1>7. Others(h, g, {} \cup E)
  BY <1>0, ShrunkOthers
<1>8. Others(h, g, {})
  <2>1. \A w \in Plain : w \notin {} \cup E
    BY <1>1, HeapAssumption DEF SelfOf, Plain
  <2>. QED
    BY <1>7, <2>1 DEF Others
<1> HIDE DEF C, E
<1>9. Leaving(h, g, {}, C, E, {o})
  <2>1. Shrunk(h, g, {}, C, E, E)
    BY DEF C, E
  <2>2. /\ \A w \in {} \cap Pointers : h.ptr[w].own \in {o} \/ h.ptr[w].own \notin h.alive
        /\ \A w \in Pointers : w \notin {} => h.ptr[w].strong \notin {o}
    OBVIOUS
  <2>3. /\ \A w \in Pointers : h.ptr[w].share \in C /\ get(h, w) # NoObject => get(h, w) \in {o}
        /\ \A w \in Pointers :
             get(h, w) \in {o} /\ (h.ptr[w].own = get(h, w) \/ w = get(h, w)) => h.ptr[w].share \in C
    BY <1>2, <1>3
  <2>. QED
    BY <1>4, <1>5, <1>6, <2>1, <2>2, <2>3 DEF Leaving
<1>. QED
  BY <1>8, <1>9, LeavingSound

LEMMA DeleteSound ==
  ASSUME FewPointers, NEW B, NEW h, Sound(h, B), NEW o \in h.alive \ SharedObjects,
         o \in h.raw \/ o \in FromThis
  PROVE  Sound(Delete(h, o), B) /\ Others(h, Delete(h, o), {})
<1>1. PICK g : g = Delete(h, o)
  OBVIOUS
<1>2. /\ Owning(h) /\ Sharing(h) /\ Callers(h) /\ IsHeap(h) /\ Counted(h) /\ o # NoObject
  BY HeapAssumption DEF Sound, Solid, IsHeap
<1>3. Deleted(h, g, o)
  BY <1>1, <1>2, DeleteEffect
<1>4. /\ Shrunk(h, g, {}, BlocksOf(h, SelfOf(o)), SelfOf(o), SelfOf(o))
      /\ g.alive = h.alive \ {o} /\ g.raw = h.raw \ {o} /\ g.outside = h.outside \ {o}
  BY <1>2, <1>3 DEF Deleted, Callers
<1>5. \A w \in Pointers : h.ptr[w].strong # o /\ (h.ptr[w].own = o => o \in FromThis)
  BY <1>2 DEF Owning, Sharing
<1>. QED
  BY <1>1, <1>4, <1>5, GoneAlone

\* The std::shared_ptr outside is reset.
Reset(h, o) == SetObjects(h, h.alive, h.raw, h.outside \ {o})

LEMMA ResetSound ==
  ASSUME FewPointers, NEW B, NEW h, Sound(h, B), NEW o \in h.outside
  PROVE  /\ use_count(Reset(h, o), o) = 0 => Sound(Delete(Reset(h, o), o), B) /\ Others(h, Delete(Reset(h, o), o), {})
         /\ use_count(Reset(h, o), o) # 0 => Sound(Reset(h, o), B) /\ Others(h, Reset(h, o), {})
<1>1. PICK k : k = Reset(h, o)
  OBVIOUS
<1>2. /\ Owning(h) /\ Sharing(h) /\ Callers(h) /\ IsHeap(h) /\ Counted(h) /\ Owned(h)
  BY DEF Sound, Solid
<1>3. o \in h.alive /\ o \in SharedObjects /\ o # NoObject
  BY <1>2, HeapAssumption DEF Callers, IsHeap
<1>4. PICK U \in SUBSET Objects : U = h.outside \ {o}
  <2>1. h.outside \ {o} \in SUBSET Objects
    BY <1>2 DEF IsHeap
  <2>. QED
    BY <2>1
<1>5. Shrunk(h, k, {}, {}, {}, {}) /\ k.alive = h.alive /\ k.raw = h.raw /\ k.outside = U /\ k.ptr = h.ptr
  <2>1. h.alive \in SUBSET Objects /\ h.raw \in SUBSET Objects /\ k = SetObjects(h, h.alive, h.raw, U)
    BY <1>1, <1>2, <1>4 DEF IsHeap, Reset
  <2>. QED
    BY <1>2, <2>1, ObjectsShrunk, ObjectsFields
<1>6. IsHeap(k) /\ Counted(k)
  BY <1>5 DEF Shrunk
<1>7. ASSUME use_count(k, o) = 0
      PROVE  Sound(Delete(k, o), B) /\ Others(h, Delete(k, o), {})
  <2>1. PICK g : g = Delete(k, o)
    OBVIOUS
  <2>2. Deleted(k, g, o)
    BY <1>3, <1>5, <1>6, <2>1, DeleteEffect
  <2>3. Shrunk(h, g, {} \cup {}, {} \cup BlocksOf(k, SelfOf(o)), {} \cup SelfOf(o), {} \cup SelfOf(o))
    BY <1>5, <2>2, ShrunkTwice DEF Deleted
  <2>4. BlocksOf(k, SelfOf(o)) = BlocksOf(h, SelfOf(o))
    BY <1>5 DEF BlocksOf
  <2>5. /\ {} \cup {} = {} /\ {} \cup BlocksOf(k, SelfOf(o)) = BlocksOf(k, SelfOf(o))
        /\ {} \cup SelfOf(o) = SelfOf(o)
    OBVIOUS
  <2>6. Shrunk(h, g, {}, BlocksOf(h, SelfOf(o)), SelfOf(o), SelfOf(o))
    BY <2>3, <2>4, <2>5
  <2>7. g.alive = h.alive \ {o} /\ g.raw = h.raw \ {o} /\ g.outside = h.outside \ {o}
    BY <1>4, <1>5, <2>2 DEF Deleted
  <2>8. \A w \in Pointers : h.ptr[w].strong # o /\ (h.ptr[w].own = o => o \in FromThis)
    <3>1. \A w \in Pointers : k.ptr[w].strong # o
      BY <1>7, UseCount
    <3>. QED
      BY <1>2, <1>3, <1>5, <3>1 DEF Owning
  <2>. QED
    BY <1>3, <2>1, <2>6, <2>7, <2>8, GoneAlone
<1>8. ASSUME use_count(k, o) # 0
      PROVE  Sound(k, B) /\ Others(h, k, {})
  <2>1. \E w \in Pointers : h.ptr[w].strong = o
    <3>1. o \notin k.outside
      BY <1>4, <1>5
    <3>. QED
      BY <1>5, <1>8, <3>1, UseCount
  <2>2. \A p \in k.alive \cap SharedObjects : p \in k.outside \/ \E w \in Pointers : k.ptr[w].strong = p
    BY <1>2, <1>4, <1>5, <2>1 DEF Owned
  <2>3. /\ k.alive = h.alive \ {} /\ k.raw = h.raw \ {} /\ k.outside \subseteq h.outside \ {}
    BY <1>4, <1>5
  <2>4. Leaving(h, k, {}, {}, {}, {})
    BY <1>5, <2>2, <2>3 DEF Leaving
  <2>5. Others(h, k, {} \cup {})
    BY <1>2, <1>5, ShrunkOthers
  <2>. QED
    BY <2>4, <2>5, LeavingSound DEF Others
<1>. QED
  BY <1>1, <1>7, <1>8

-----------------------------------------------------------------------------
(***************************************************************************)
(* Release, exchange, new objects                                          *)
(***************************************************************************)

\* What v owns is the caller's, and the block of v is managed no longer.
Freed(h, g, v) ==
  /\ IsHeap(g) /\ Counted(g)
  /\ g.alive = h.alive /\ g.outside = h.outside /\ g.raw = h.raw \cup ({h.ptr[v].own} \cap h.alive)
  /\ \A w \in Pointers : w # v => g.ptr[w] = h.ptr[w]
  /\ Fields(g.ptr[v], h.ptr[v].share, h.ptr[v].obj, NoObject, h.ptr[v].strong)
  /\ DOMAIN g.share = DOMAIN h.share
  /\ \A b \in DOMAIN h.share :
       /\ g.share[b].valid = h.share[b].valid
       /\ IF b = h.ptr[v].share THEN ~g.share[b].managed ELSE g.share[b].managed = h.share[b].managed

LEMMA ReleaseEffect ==
  ASSUME NEW h, IsHeap(h), Counted(h), NEW v \in Pointers, is_owner(h, v)
  PROVE  Freed(h, release(h, v), v)
<1> DEFINE b == h.ptr[v].share
<1>0. PICK g : g = release(h, v)
  OBVIOUS
<1>1. PICK k : k = SetOwn(h, v, NoObject)
  OBVIOUS
<1>2. /\ PointerChanged(h, k, v)
      /\ Fields(k.ptr[v], h.ptr[v].share, h.ptr[v].obj, NoObject, h.ptr[v].strong)
  BY <1>1, SetOwnFields
<1>3. Counted(k)
  BY <1>2, ChangedCounted DEF Fields
<1>4. /\ IsHeap(k) /\ SameObjects(h, k) /\ k.share = h.share
      /\ \A w \in Pointers : w # v => k.ptr[w] = h.ptr[w]
  BY <1>2 DEF PointerChanged, Only
<1>5. PICK R \in SUBSET Objects : R = h.raw \cup ({h.ptr[v].own} \cap h.alive)
  <2>1. h.raw \cup ({h.ptr[v].own} \cap h.alive) \in SUBSET Objects
    BY DEF IsHeap
  <2>. QED
    BY <2>1
<1>6. PICK l : l = SetObjects(k, h.alive, R, h.outside)
  OBVIOUS
<1>7. h.alive \in SUBSET Objects /\ h.outside \in SUBSET Objects
  BY DEF IsHeap
<1>8. /\ IsHeap(l) /\ l.alive = h.alive /\ l.raw = R /\ l.outside = h.outside
      /\ l.ptr = k.ptr /\ l.share = k.share /\ l.broken = k.broken /\ Counted(l)
  <2>1. Shrunk(k, l, {}, {}, {}, {})
    BY <1>3, <1>4, <1>6, <1>7, ObjectsShrunk
  <2>2. Counted(l)
    BY <2>1 DEF Shrunk
  <2>. QED
    BY <1>4, <1>6, <1>7, <2>2, ObjectsFields
<1>9. [h EXCEPT !.ptr[v].own = NoObject, !.raw = @ \cup ({h.ptr[v].own} \cap h.alive)] = l
  BY <1>1, <1>5, <1>6 DEF SetOwn, SetObjects, IsHeap
<1>10. CASE b \notin DOMAIN h.share
  <2>1. g = l
    BY <1>0, <1>9, <1>10 DEF release
  <2>. QED
    BY <1>0, <1>2, <1>4, <1>5, <1>8, <1>10, <2>1 DEF Freed
<1>11. CASE b \in DOMAIN h.share
  <2>1. g = [l EXCEPT !.share[b].managed = FALSE]
    BY <1>0, <1>9, <1>11 DEF release
  <2>2. l.share[b] \in Block /\ b \in DOMAIN l.share
    BY <1>4, <1>8, <1>11 DEF IsHeap
  <2>3. PICK f \in BOOLEAN : f = l.share[b].valid
    BY <2>2 DEF Block
  <2>4. [l.share[b] EXCEPT !.managed = FALSE] = [l.share[b] EXCEPT !.valid = f, !.managed = FALSE]
    BY <2>2, <2>3 DEF Block
  <2>5. g = SetFlags(l, b, f, FALSE)
    BY <2>1, <2>4, <1>8 DEF SetFlags, IsHeap
  <2>6. Flagged(l, g, b, f, FALSE)
    BY <1>8, <2>2, <2>5, FlagsFields
  <2>7. /\ IsHeap(g) /\ g.ptr = l.ptr /\ SameObjects(l, g) /\ g.broken = l.broken
        /\ DOMAIN g.share = DOMAIN l.share
        /\ \A x \in DOMAIN l.share : x # b => g.share[x] = l.share[x]
        /\ g.share[b].valid = f /\ ~g.share[b].managed /\ g.share[b].counter = l.share[b].counter
    BY <2>6 DEF Flagged
  <2>8. /\ g.broken = {} /\ \A x \in DOMAIN l.share : g.share[x].counter = l.share[x].counter
        /\ \A w \in Pointers : g.ptr[w].share = l.ptr[w].share
    BY <1>8, <2>7 DEF Counted
  <2>9. Counted(g)
    BY <1>8, <2>7, <2>8, SameBlocksCounted
  <2>10. \A x \in DOMAIN h.share :
          /\ g.share[x].valid = h.share[x].valid
          /\ IF x = b THEN ~g.share[x].managed ELSE g.share[x].managed = h.share[x].managed
    BY <1>4, <1>8, <2>3, <2>7
  <2>11. g.alive = h.alive /\ g.outside = h.outside /\ g.raw = R /\ g.ptr = k.ptr /\ DOMAIN g.share = DOMAIN h.share
    BY <1>4, <1>8, <2>7 DEF SameObjects
  <2>. QED
    BY <1>0, <1>2, <1>4, <1>5, <2>7, <2>9, <2>10, <2>11 DEF Freed
<1>. QED
  BY <1>10, <1>11

LEMMA FreedSound ==
  ASSUME NEW B, NEW h, Sound(h, B), NEW v \in Plain, is_owner(h, v), NEW g, Freed(h, g, v)
  PROVE  Sound(g, B)
<1>1. v \in Pointers /\ v \notin Objects /\ h.ptr[v].own # NoObject
  BY HeapAssumption DEF Plain, Pointers, is_owner
<1>2. /\ IsHeap(g) /\ Counted(g)
      /\ g.alive = h.alive /\ g.outside = h.outside /\ g.raw = h.raw \cup ({h.ptr[v].own} \cap h.alive)
      /\ \A w \in Pointers : w # v => g.ptr[w] = h.ptr[w]
      /\ DOMAIN g.share = DOMAIN h.share
  BY DEF Freed
<1>3. \A w \in Pointers : /\ g.ptr[w].share = h.ptr[w].share /\ g.ptr[w].obj = h.ptr[w].obj
                         /\ g.ptr[w].strong = h.ptr[w].strong
                         /\ g.ptr[w].own = IF w = v THEN NoObject ELSE h.ptr[w].own
  BY DEF Freed, Fields
<1>4. /\ Agree(h) /\ Owning(h) /\ Sharing(h) /\ SelfPointers(h) /\ Owned(h) /\ Callers(h) /\ Within(h, B)
      /\ Managed(h)
  BY DEF Sound, Solid
<1>5. ASSUME NEW w \in Pointers PROVE get(g, w) = get(h, w) /\ (valid(g, w) <=> valid(h, w))
  <2>1. g.ptr[w].share = h.ptr[w].share /\ g.ptr[w].obj = h.ptr[w].obj
    BY <1>3
  <2>2. \A b \in DOMAIN h.share : g.share[b].valid = h.share[b].valid
    BY DEF Freed
  <2>. QED
    BY <1>2, <2>1, <2>2 DEF get, valid
<1>6. ASSUME NEW w \in Pointers, is_managed(g, w) PROVE is_managed(h, w) /\ h.ptr[w].share # h.ptr[v].share
  <2>1. get(g, w) # NoObject /\ get(h, w) # NoObject
    BY <1>5, <1>6, ManagedPoints
  <2>2. g.ptr[w].share = h.ptr[w].share /\ h.ptr[w].share \in DOMAIN h.share
    BY <1>3, <2>1, ManagedPoints
  <2>. QED
    BY <1>6, <2>1, <2>2 DEF Freed, is_managed
<1>7. Agree(g)
  BY <1>3, <1>4 DEF Agree
<1>8. Owning(g)
  <2>1. \A w, x \in Pointers : g.ptr[w].own = g.ptr[x].own /\ g.ptr[w].own # NoObject => w = x
    <3>1. \A w, x \in Pointers : h.ptr[w].own = h.ptr[x].own /\ h.ptr[w].own # NoObject => w = x
      BY <1>4 DEF Owning
    <3>. QED
      BY <1>3, <3>1
  <2>2. ASSUME NEW w \in Pointers, g.ptr[w].own # NoObject
        PROVE  /\ g.ptr[w].own \notin SharedObjects \cup g.raw
               /\ g.ptr[w].own \in g.alive => get(g, w) = g.ptr[w].own
               /\ g.ptr[w].own \notin g.alive => get(g, w) = NoObject
               /\ g.ptr[w].own \in g.alive \cap FromThis => g.ptr[w].share = g.ptr[g.ptr[w].own].share
    <3>1. w # v /\ g.ptr[w].own = h.ptr[w].own /\ h.ptr[w].own # NoObject
      BY <1>3, <2>2
    <3>2. /\ h.ptr[w].own \notin SharedObjects \cup h.raw
          /\ h.ptr[w].own \in h.alive => get(h, w) = h.ptr[w].own
          /\ h.ptr[w].own \notin h.alive => get(h, w) = NoObject
          /\ h.ptr[w].own \in h.alive \cap FromThis => h.ptr[w].share = h.ptr[h.ptr[w].own].share
      BY <1>4, <3>1 DEF Owning
    <3>3. h.ptr[w].own \in FromThis => g.ptr[h.ptr[w].own].share = h.ptr[h.ptr[w].own].share
      BY <1>3 DEF Pointers
    <3>4. g.ptr[w].share = h.ptr[w].share /\ get(g, w) = get(h, w)
      BY <1>3, <1>5
    <3>5. h.ptr[w].own # h.ptr[v].own
      BY <1>1, <1>4, <3>1 DEF Owning
    <3>. QED
      BY <1>2, <3>1, <3>2, <3>3, <3>4, <3>5
  <2>. QED
    BY <2>1, <2>2 DEF Owning
<1>9. Sharing(g)
  BY <1>2, <1>3, <1>4, <1>5 DEF Sharing
<1>10. SelfPointers(g)
  <2>1. v \notin FromThis
    BY <1>1, HeapAssumption
  <2>. QED
    BY <1>2, <1>4, <1>5, <2>1 DEF SelfPointers, Pointers
<1>11. Owned(g)
  <2>1. ASSUME NEW p \in h.alive \ SharedObjects
        PROVE  p \in g.raw \/ \E w \in Pointers : g.ptr[w].own = p
    <3>1. p \in h.raw \/ \E w \in Pointers : h.ptr[w].own = p
      BY <1>4 DEF Owned
    <3>2. ASSUME NEW w \in Pointers, h.ptr[w].own = p PROVE w = v \/ g.ptr[w].own = p
      BY <1>3, <3>2
    <3>. QED
      BY <1>2, <2>1, <3>1, <3>2
  <2>2. ASSUME NEW p \in h.alive \cap SharedObjects
        PROVE  p \in g.outside \/ \E w \in Pointers : g.ptr[w].strong = p
    <3>1. p \in h.outside \/ \E w \in Pointers : h.ptr[w].strong = p
      BY <1>4 DEF Owned
    <3>. QED
      BY <1>2, <1>3, <3>1
  <2>. QED
    BY <1>2, <2>1, <2>2 DEF Owned
<1>12. Callers(g) /\ Within(g, B)
  <2>1. h.ptr[v].own \notin SharedObjects
    BY <1>1, <1>4 DEF Owning
  <2>. QED
    BY <1>2, <1>3, <1>4, <2>1 DEF Callers, Within
<1>13. Managed(g)
  <2>1. ASSUME NEW w \in Pointers, is_managed(g, w), get(g, w) \notin SharedObjects
        PROVE  \E x \in Pointers : Keeps(g, x, w)
    <3>1. is_managed(h, w) /\ h.ptr[w].share # h.ptr[v].share
      BY <1>6, <2>1
    <3>2. h.ptr[w].share # NoBlock /\ get(g, w) = get(h, w)
      BY <1>5, <3>1, ManagedPoints
    <3>3. PICK x \in Pointers : Keeps(h, x, w)
      BY <1>4, <2>1, <3>1, <3>2 DEF Managed, ManagedBut
    <3>4. x # v
      BY <3>1, <3>3 DEF Keeps
    <3>5. Keeps(g, x, w)
      BY <1>3, <1>5, <3>3, <3>4 DEF Keeps
    <3>. QED
      BY <3>5
  <2>. QED
    BY <2>1 DEF Managed, ManagedBut
<1>. QED
  BY <1>2, <1>7, <1>8, <1>9, <1>10, <1>11, <1>12, <1>13 DEF Sound, Solid

LEMMA ReleaseSound ==
  ASSUME NEW B, NEW h, Sound(h, B), NEW v \in Plain
  PROVE  Sound(release(h, v), B) /\ Others(h, release(h, v), {v})
<1>1. CASE ~is_owner(h, v)
  <2>1. release(h, v) = h
    BY <1>1 DEF release
  <2>. QED
    BY <2>1 DEF Others
<1>2. CASE is_owner(h, v)
  <2>1. PICK g : g = release(h, v)
    OBVIOUS
  <2>2. v \in Pointers /\ IsHeap(h) /\ Counted(h)
    BY DEF Plain, Pointers, Sound, Solid
  <2>3. Freed(h, g, v)
    BY <1>2, <2>1, <2>2, ReleaseEffect
  <2>4. Sound(g, B)
    BY <1>2, <2>3, FreedSound
  <2>5. Others(h, g, {v})
    BY <2>3 DEF Freed, Others, Plain, Pointers
  <2>. QED
    BY <2>1, <2>4, <2>5
<1>. QED
  BY <1>1, <1>2

\* v and t change places.
Swapped(h, g, v, t) ==
  /\ IsHeap(g) /\ SameObjects(h, g) /\ g.share = h.share /\ g.broken = h.broken
  /\ g.ptr[v] = h.ptr[t] /\ g.ptr[t] = h.ptr[v]
  /\ \A w \in Pointers : w \notin {v, t} => g.ptr[w] = h.ptr[w]

LEMMA SwapEffect ==
  ASSUME NEW h, IsHeap(h), NEW v \in Pointers, NEW t \in Pointers, v # t
  PROVE  Swapped(h, Swap(h, v, t), v, t)
<1>1. PICK g : g = Swap(h, v, t)
  OBVIOUS
<1>2. g.ptr = [h.ptr EXCEPT ![v] = h.ptr[t], ![t] = h.ptr[v]]
  BY <1>1 DEF Swap, IsHeap
<1>3. g.share = h.share /\ g.broken = h.broken /\ SameObjects(h, g)
  BY <1>1 DEF Swap, IsHeap, SameObjects
<1>4. g = [ptr |-> g.ptr, share |-> g.share, alive |-> g.alive, raw |-> g.raw,
           outside |-> g.outside, broken |-> g.broken]
  BY <1>1 DEF Swap, IsHeap
<1>5. h.ptr \in [Pointers -> Pointer]
  BY DEF IsHeap
<1>6. /\ g.ptr \in [Pointers -> Pointer] /\ g.ptr[v] = h.ptr[t] /\ g.ptr[t] = h.ptr[v]
      /\ \A w \in Pointers : w \notin {v, t} => g.ptr[w] = h.ptr[w]
  BY <1>2, <1>5
<1>7. IsHeap(g)
  BY <1>3, <1>4, <1>6 DEF IsHeap, SameObjects
<1>. QED
  BY <1>1, <1>3, <1>6, <1>7 DEF Swapped

\* The pointer that is at the place of w afterwards.
Other(v, t, w) == IF w = v THEN t ELSE IF w = t THEN v ELSE w

LEMMA OtherOther ==
  ASSUME NEW v \in Plain, NEW t \in Plain, v # t
  PROVE  /\ \A w \in Pointers : Other(v, t, w) \in Pointers /\ Other(v, t, Other(v, t, w)) = w
         /\ \A w \in FromThis : Other(v, t, w) = w
BY HeapAssumption DEF Other, Plain, Pointers

LEMMA SwapSound ==
  ASSUME NEW B, NEW h, Sound(h, B), NEW v \in Plain, NEW t \in Plain, v # t, NEW g, Swapped(h, g, v, t)
  PROVE  Sound(g, B)
<1> DEFINE q(w) == Other(v, t, w)
<1>0. v \in Pointers /\ t \in Pointers
  BY DEF Plain, Pointers
<1>1. /\ \A w \in Pointers : q(w) \in Pointers /\ q(q(w)) = w
      /\ \A w \in FromThis : q(w) = w /\ w \in Pointers
  BY OtherOther DEF Pointers
<1>2. /\ IsHeap(g) /\ g.alive = h.alive /\ g.raw = h.raw /\ g.outside = h.outside
      /\ g.share = h.share /\ g.broken = h.broken
  BY DEF Swapped, SameObjects
<1>3. \A w \in Pointers : g.ptr[w] = h.ptr[q(w)]
  BY <1>0 DEF Swapped, Other
<1> HIDE DEF q
<1>4. /\ Agree(h) /\ Owning(h) /\ Sharing(h) /\ SelfPointers(h) /\ Owned(h) /\ Callers(h) /\ Within(h, B)
      /\ Managed(h) /\ Counted(h)
  BY DEF Sound, Solid
<1>5. ASSUME NEW w \in Pointers
      PROVE  get(g, w) = get(h, q(w)) /\ (valid(g, w) <=> valid(h, q(w))) /\ (is_managed(g, w) <=> is_managed(h, q(w)))
  <2>1. g.ptr[w] = h.ptr[q(w)]
    BY <1>3
  <2>2. get(g, w) = get(h, q(w)) /\ (valid(g, w) <=> valid(h, q(w)))
    BY <1>2, <2>1 DEF get, valid
  <2>. QED
    BY <1>2, <2>1, <2>2 DEF is_managed
<1>6. ASSUME NEW b PROVE Cardinality(Users(g, b)) = Cardinality(Users(h, b)) /\ (Users(h, b) # {} => Users(g, b) # {})
  <2>1. IsFiniteSet(Users(g, b)) /\ IsFiniteSet(Users(h, b))
        /\ Cardinality(Users(g, b)) \in Nat /\ Cardinality(Users(h, b)) \in Nat
    BY PointersFinite DEF Users
  <2>2. \A w \in Users(g, b) : q(w) \in Users(h, b)
    BY <1>1, <1>3 DEF Users
  <2>3. \A w \in Users(h, b) : q(w) \in Users(g, b)
    BY <1>1, <1>3 DEF Users
  <2>4. \A w \in Users(g, b) \cup Users(h, b) : q(q(w)) = w
    BY <1>1 DEF Users
  <2>5. ASSUME NEW S, NEW T, \A w \in S : q(w) \in T, \A w \in S : q(q(w)) = w, IsFiniteSet(T)
        PROVE  Cardinality(S) <= Cardinality(T)
    <3> DEFINE f == [w \in S |-> q(w)]
    <3>1. f \in [S -> T]
      BY <2>5
    <3>2. \A x, y \in DOMAIN f : f[x] = f[y] => x = y
      BY <2>5
    <3>3. f \in Injection(S, T)
      BY <3>1, <3>2 DEF Injection, IsInjective
    <3> HIDE DEF f
    <3>. QED
      BY <2>5, <3>3, FS_Injection
  <2>6. Cardinality(Users(g, b)) <= Cardinality(Users(h, b)) /\ Cardinality(Users(h, b)) <= Cardinality(Users(g, b))
    BY <2>1, <2>2, <2>3, <2>4, <2>5
  <2>. QED
    BY <2>1, <2>3, <2>6
<1>7. Counted(g)
  <2>1. \A w \in Pointers : g.ptr[w].share \in DOMAIN g.share \cup {NoBlock}
    BY <1>1, <1>2, <1>3, <1>4 DEF Counted
  <2>2. \A b \in DOMAIN g.share : Users(g, b) # {} /\ g.share[b].counter = Cardinality(Users(g, b))
    BY <1>2, <1>4, <1>6 DEF Counted
  <2>. QED
    BY <1>2, <1>4, <2>1, <2>2 DEF Counted
<1>8. Agree(g)
  <2>1. ASSUME NEW w \in Pointers, NEW x \in Pointers,
               g.ptr[w].share = g.ptr[x].share, g.ptr[w].share # NoBlock, g.ptr[w].obj # NoObject, g.ptr[x].obj # NoObject
        PROVE  g.ptr[w].obj = g.ptr[x].obj
    BY <1>1, <1>3, <1>4, <2>1 DEF Agree
  <2>. QED
    BY <2>1 DEF Agree
<1>9. Owning(g)
  <2>1. ASSUME NEW w \in Pointers, NEW x \in Pointers, g.ptr[w].own = g.ptr[x].own, g.ptr[w].own # NoObject
        PROVE  w = x
    <3>1. h.ptr[q(w)].own = h.ptr[q(x)].own /\ h.ptr[q(w)].own # NoObject /\ q(w) \in Pointers /\ q(x) \in Pointers
      BY <1>1, <1>3, <2>1
    <3>2. q(w) = q(x)
      BY <1>4, <3>1 DEF Owning
    <3>. QED
      BY <1>1, <3>2
  <2>2. ASSUME NEW w \in Pointers, g.ptr[w].own # NoObject
        PROVE  /\ g.ptr[w].own \notin SharedObjects \cup g.raw
               /\ g.ptr[w].own \in g.alive => get(g, w) = g.ptr[w].own
               /\ g.ptr[w].own \notin g.alive => get(g, w) = NoObject
               /\ g.ptr[w].own \in g.alive \cap FromThis => g.ptr[w].share = g.ptr[g.ptr[w].own].share
    <3>1. PICK u \in Pointers : u = q(w) /\ g.ptr[w] = h.ptr[u] /\ get(g, w) = get(h, u)
      BY <1>1, <1>3, <1>5
    <3>2. /\ h.ptr[u].own \notin SharedObjects \cup h.raw
          /\ h.ptr[u].own \in h.alive => get(h, u) = h.ptr[u].own
          /\ h.ptr[u].own \notin h.alive => get(h, u) = NoObject
          /\ h.ptr[u].own \in h.alive \cap FromThis => h.ptr[u].share = h.ptr[h.ptr[u].own].share
      BY <1>4, <2>2, <3>1 DEF Owning
    <3>3. h.ptr[u].own \in FromThis => g.ptr[h.ptr[u].own] = h.ptr[h.ptr[u].own]
      BY <1>1, <1>3
    <3>. QED
      BY <1>2, <3>1, <3>2, <3>3
  <2>. QED
    BY <2>1, <2>2 DEF Owning
<1>10. Sharing(g)
  BY <1>1, <1>2, <1>3, <1>4, <1>5 DEF Sharing
<1>11. SelfPointers(g)
  <2>1. \A o \in FromThis : g.ptr[o] = h.ptr[o] /\ (valid(g, o) <=> valid(h, o))
    BY <1>1, <1>3, <1>5
  <2>. QED
    BY <1>2, <1>4, <2>1 DEF SelfPointers
<1>12. Owned(g)
  <2>1. ASSUME NEW w \in Pointers PROVE q(w) \in Pointers /\ g.ptr[q(w)] = h.ptr[w]
    BY <1>1, <1>3
  <2>2. ASSUME NEW p \in g.alive \ SharedObjects PROVE p \in g.raw \/ \E w \in Pointers : g.ptr[w].own = p
    <3>1. p \in h.raw \/ \E w \in Pointers : h.ptr[w].own = p
      BY <1>2, <1>4 DEF Owned
    <3>. QED
      BY <1>2, <2>1, <3>1
  <2>3. ASSUME NEW p \in g.alive \cap SharedObjects PROVE p \in g.outside \/ \E w \in Pointers : g.ptr[w].strong = p
    <3>1. p \in h.outside \/ \E w \in Pointers : h.ptr[w].strong = p
      BY <1>2, <1>4 DEF Owned
    <3>. QED
      BY <1>2, <2>1, <3>1
  <2>. QED
    BY <2>2, <2>3 DEF Owned
<1>13. Callers(g) /\ Within(g, B)
  BY <1>1, <1>2, <1>3, <1>4 DEF Callers, Within
<1>14. Managed(g)
  <2>1. ASSUME NEW w \in Pointers, is_managed(g, w), get(g, w) \notin SharedObjects
        PROVE  \E x \in Pointers : Keeps(g, x, w)
    <3>1. PICK u \in Pointers : u = q(w) /\ g.ptr[w] = h.ptr[u] /\ get(g, w) = get(h, u) /\ is_managed(h, u)
      BY <1>1, <1>3, <1>5, <2>1
    <3>2. h.ptr[u].share # NoBlock
      BY <3>1, ManagedPoints
    <3>3. PICK x \in Pointers : Keeps(h, x, u)
      BY <1>4, <2>1, <3>1, <3>2 DEF Managed, ManagedBut
    <3>4. PICK y \in Pointers : y = q(x) /\ q(y) = x
      BY <1>1
    <3>5. g.ptr[y] = h.ptr[x] /\ get(g, y) = get(h, x)
      BY <1>3, <1>5, <3>4
    <3>6. x = get(h, u) => y = x
      <4>1. ASSUME x = get(h, u) PROVE x \in FromThis
        <5>1. x \in Objects
          <6>1. get(h, u) = h.ptr[u].obj /\ get(h, u) # NoObject
            BY <3>1, ManagedPoints
          <6>2. h.ptr[u].obj \in Objects \cup {NoObject}
            BY DEF Sound, Solid, IsHeap, Pointer
          <6>. QED
            BY <4>1, <6>1, <6>2
        <5>. QED
          BY <5>1, HeapAssumption DEF Pointers
      <4>. QED
        BY <1>1, <3>4, <4>1
    <3>7. Keeps(g, y, w)
      BY <3>1, <3>3, <3>5, <3>6 DEF Keeps
    <3>. QED
      BY <3>7
  <2>. QED
    BY <2>1 DEF Managed, ManagedBut
<1>. QED
  BY <1>2, <1>7, <1>8, <1>9, <1>10, <1>11, <1>12, <1>13, <1>14 DEF Sound, Solid

\* A new object, whose owner is the caller.
LEMMA NewSound ==
  ASSUME NEW B, NEW h, Sound(h, B), NEW o \in Objects, o \notin B, NEW R, NEW U,
         IF o \in SharedObjects THEN R = h.raw /\ U = h.outside \cup {o} ELSE R = h.raw \cup {o} /\ U = h.outside,
         NEW g, g = SetObjects(h, h.alive \cup {o}, R, U)
  PROVE  Sound(g, B \cup {o}) /\ g.ptr = h.ptr
<1>1. /\ IsHeap(h) /\ Agree(h) /\ Owning(h) /\ Sharing(h) /\ SelfPointers(h) /\ Owned(h) /\ Callers(h)
      /\ Within(h, B) /\ Managed(h) /\ Counted(h)
  BY DEF Sound, Solid
<1>2. PICK A \in SUBSET Objects, RR \in SUBSET Objects, UU \in SUBSET Objects :
        A = h.alive \cup {o} /\ RR = R /\ UU = U
  <2>1. h.alive \cup {o} \in SUBSET Objects /\ R \in SUBSET Objects /\ U \in SUBSET Objects
    BY <1>1 DEF IsHeap
  <2>. QED
    BY <2>1
<1>3. g = SetObjects(h, A, RR, UU)
  BY <1>2
<1>4. /\ IsHeap(g) /\ g.alive = A /\ g.raw = RR /\ g.outside = UU
      /\ g.ptr = h.ptr /\ g.share = h.share /\ g.broken = h.broken
  BY <1>1, <1>3, ObjectsFields
<1>5. Counted(g)
  <2>1. Shrunk(h, g, {}, {}, {}, {})
    BY <1>1, <1>3, ObjectsShrunk
  <2>. QED
    BY <2>1 DEF Shrunk
<1>6. SameSight(h, g) /\ Agree(g)
  BY <1>1, <1>4, SightKept
<1>7. \A w \in Pointers : get(g, w) = get(h, w) /\ (valid(g, w) <=> valid(h, w)) /\ (is_managed(g, w) <=> is_managed(h, w))
  BY <1>6 DEF SameSight
<1>8. o \notin h.alive /\ o \notin h.raw /\ o # NoObject /\ \A w \in Pointers : h.ptr[w].own # o
  BY <1>1, HeapAssumption DEF Within, Callers
<1>9. Owning(g)
  <2>1. ASSUME NEW w \in Pointers, g.ptr[w].own # NoObject
        PROVE  /\ g.ptr[w].own \notin SharedObjects \cup g.raw
               /\ g.ptr[w].own \in g.alive => get(g, w) = g.ptr[w].own
               /\ g.ptr[w].own \notin g.alive => get(g, w) = NoObject
               /\ g.ptr[w].own \in g.alive \cap FromThis => g.ptr[w].share = g.ptr[g.ptr[w].own].share
    <3>1. /\ h.ptr[w].own \notin SharedObjects \cup h.raw
          /\ h.ptr[w].own \in h.alive => get(h, w) = h.ptr[w].own
          /\ h.ptr[w].own \notin h.alive => get(h, w) = NoObject
          /\ h.ptr[w].own \in h.alive \cap FromThis => h.ptr[w].share = h.ptr[h.ptr[w].own].share
      BY <1>1, <1>4, <2>1 DEF Owning
    <3>2. h.ptr[w].own # o /\ get(g, w) = get(h, w)
      BY <1>7, <1>8
    <3>3. RR \subseteq h.raw \cup {o}
      BY <1>2
    <3>. QED
      BY <1>2, <1>4, <3>1, <3>2, <3>3
  <2>2. \A w, x \in Pointers : g.ptr[w].own = g.ptr[x].own /\ g.ptr[w].own # NoObject => w = x
    BY <1>1, <1>4 DEF Owning
  <2>. QED
    BY <2>1, <2>2 DEF Owning
<1>10. Sharing(g)
  BY <1>1, <1>2, <1>4, <1>7 DEF Sharing
<1>11. SelfPointers(g)
  BY <1>1, <1>2, <1>4, <1>7 DEF SelfPointers, Pointers
<1>12. Owned(g)
  <2>1. ASSUME NEW p \in g.alive \ SharedObjects PROVE p \in g.raw \/ \E w \in Pointers : g.ptr[w].own = p
    <3>1. CASE p = o
      BY <1>2, <1>4, <2>1, <3>1
    <3>2. CASE p # o
      <4>1. p \in h.alive \ SharedObjects
        BY <1>2, <1>4, <3>2
      <4>2. p \in h.raw \/ \E w \in Pointers : h.ptr[w].own = p
        BY <1>1, <4>1 DEF Owned
      <4>. QED
        BY <1>2, <1>4, <4>2
    <3>. QED
      BY <3>1, <3>2
  <2>2. ASSUME NEW p \in g.alive \cap SharedObjects PROVE p \in g.outside \/ \E w \in Pointers : g.ptr[w].strong = p
    <3>1. CASE p = o
      BY <1>2, <1>4, <2>2, <3>1
    <3>2. CASE p # o
      <4>1. p \in h.alive \cap SharedObjects
        BY <1>2, <1>4, <3>2
      <4>2. p \in h.outside \/ \E w \in Pointers : h.ptr[w].strong = p
        BY <1>1, <4>1 DEF Owned
      <4>. QED
        BY <1>2, <1>4, <4>2
    <3>. QED
      BY <3>1, <3>2
  <2>. QED
    BY <2>1, <2>2 DEF Owned
<1>13. Callers(g) /\ Within(g, B \cup {o})
  BY <1>1, <1>2, <1>4 DEF Callers, Within
<1>14. Managed(g)
  <2>1. \A x, w \in Pointers : Keeps(g, x, w) <=> Keeps(h, x, w)
    BY <1>4, <1>7 DEF Keeps
  <2>. QED
    BY <1>1, <1>4, <1>7, <2>1 DEF Managed, ManagedBut
<1>. QED
  BY <1>4, <1>5, <1>6, <1>9, <1>10, <1>11, <1>12, <1>13, <1>14 DEF Sound, Solid

-----------------------------------------------------------------------------
(***************************************************************************)
(* Construction                                                            *)
(***************************************************************************)

\* v has been made from r: it is in the block of r, and points to what r points
\* to or to nothing.
Joins(h, g, B, v, r) ==
  /\ Sound(g, B) /\ Others(h, g, {v}) /\ g.alive = h.alive /\ g.raw = h.raw
  /\ g.ptr[r] = h.ptr[r] /\ get(g, r) = get(h, r)
  /\ g.ptr[v].share = g.ptr[r].share /\ g.ptr[v].own = NoObject
  /\ get(g, v) \in {get(g, r), NoObject}

LEMMA PlacedJoins ==
  ASSUME NEW B, NEW h, Sound(h, B), NEW v \in Plain, h.ptr[v] = Empty, NEW r \in Pointers, r # v,
         NEW o \in {h.ptr[r].obj, NoObject}, NEW g, PlacedWith(h, g, v, r, o)
  PROVE  Joins(h, g, B, v, r) /\ (o = h.ptr[r].obj => get(g, v) = get(g, r))
<1>1. /\ Sound(g, B)
      /\ \A w \in Pointers : w # v => g.ptr[w] = h.ptr[w] /\ get(g, w) = get(h, w)
      /\ get(g, v) = IF o = NoObject THEN NoObject ELSE get(h, r)
  BY PlacedWithSound
<1>2. g.ptr[v].share = h.ptr[r].share /\ g.ptr[v].own = NoObject /\ SameObjects(h, g)
  BY DEF PlacedWith, Fields
<1>3. Others(h, g, {v})
  BY <1>1 DEF Others, Plain, Pointers
<1>4. h.ptr[r].obj = NoObject => get(h, r) = NoObject
  BY DEF get
<1>5. g.ptr[r] = h.ptr[r] /\ get(g, r) = get(h, r)
  BY <1>1
<1>. QED
  BY <1>1, <1>2, <1>3, <1>4, <1>5 DEF Joins, SameObjects

LEMMA SharePlaced ==
  ASSUME FewPointers, NEW h, IsHeap(h), Counted(h), NEW v \in Pointers, NEW r \in Pointers, v # r, h.ptr[v] = Empty,
         NEW k, k = ShareWith(h, v, r)
  PROVE  PlacedWith(h, k, v, r, h.ptr[r].obj)
<1>1. h.ptr[v].share = NoBlock /\ h.ptr[v].own = NoObject /\ h.ptr[v].strong = NoObject
  BY DEF Empty
<1>2. /\ IsHeap(k) /\ Counted(k) /\ Only(h, k, v) /\ SameObjects(h, k)
      /\ Fields(k.ptr[v], h.ptr[r].share, h.ptr[r].obj, h.ptr[v].own, h.ptr[v].strong)
      /\ DOMAIN k.share = DOMAIN h.share /\ SameFlags(h, k)
  BY <1>1, ShareWithEffect
<1>. QED
  BY <1>1, <1>2 DEF PlacedWith

\* Changing the pointer that was placed.
LEMMA PlacedChanged ==
  ASSUME NEW h, NEW k, NEW g, NEW v \in Pointers, NEW r, NEW o, NEW p, PlacedWith(h, k, v, r, o),
         PointerChanged(k, g, v), Fields(g.ptr[v], k.ptr[v].share, p, NoObject, NoObject)
  PROVE  PlacedWith(h, g, v, r, p)
<1>1. /\ Fields(k.ptr[v], h.ptr[r].share, o, NoObject, NoObject)
      /\ DOMAIN k.share = DOMAIN h.share /\ SameFlags(h, k)
      /\ Counted(k) /\ Only(h, k, v) /\ SameObjects(h, k)
  BY DEF PlacedWith
<1>2. IsHeap(g) /\ Only(k, g, v) /\ SameObjects(k, g) /\ g.share = k.share
  BY DEF PointerChanged
<1>3. Counted(g)
  BY <1>1, ChangedCounted DEF Fields
<1>4. Only(h, g, v) /\ SameObjects(h, g) /\ SameFlags(h, g) /\ DOMAIN g.share = DOMAIN h.share
  BY <1>1, <1>2 DEF Only, SameObjects, SameFlags
<1>5. Fields(g.ptr[v], h.ptr[r].share, p, NoObject, NoObject)
  BY <1>1 DEF Fields
<1>. QED
  BY <1>2, <1>3, <1>4, <1>5 DEF PlacedWith

LEMMA WeakSound ==
  ASSUME FewPointers, NEW B, NEW h, Sound(h, B), NEW v \in Plain, h.ptr[v] = Empty, NEW r \in Pointers, r # v
  PROVE  Joins(h, ShareWith(h, v, r), B, v, r) /\ get(ShareWith(h, v, r), v) = get(h, r)
<1>1. PICK g : g = ShareWith(h, v, r)
  OBVIOUS
<1>2. v \in Pointers /\ IsHeap(h) /\ Counted(h)
  BY DEF Plain, Pointers, Sound, Solid
<1>3. PlacedWith(h, g, v, r, h.ptr[r].obj)
  BY <1>1, <1>2, SharePlaced
<1>4. Joins(h, g, B, v, r) /\ get(g, v) = get(g, r)
  BY <1>3, PlacedJoins
<1>. QED
  BY <1>1, <1>4 DEF Joins

LEMMA CastSound ==
  ASSUME FewPointers, NEW B, NEW h, Sound(h, B), NEW v \in Plain, h.ptr[v] = Empty, NEW r \in Pointers, r # v,
         NEW ok \in BOOLEAN
  PROVE  Joins(h, Cast(h, v, r, ok), B, v, r)
<1>1. PICK k : k = ShareWith(h, v, r)
  OBVIOUS
<1>2. v \in Pointers /\ IsHeap(h) /\ Counted(h)
  BY DEF Plain, Pointers, Sound, Solid
<1>3. PlacedWith(h, k, v, r, h.ptr[r].obj)
  BY <1>1, <1>2, SharePlaced
<1>4. CASE ok /\ valid(h, r)
  <2>1. Cast(h, v, r, ok) = k
    BY <1>1, <1>4 DEF Cast
  <2>. QED
    BY <1>3, <2>1, PlacedJoins
<1>5. CASE ~(ok /\ valid(h, r))
  <2>1. PICK g : g = SetObj(k, v, NoObject)
    OBVIOUS
  <2>2. Cast(h, v, r, ok) = g
    BY <1>1, <1>5, <2>1 DEF Cast, SetObj
  <2>3. IsHeap(k) /\ k.ptr[v].own = NoObject /\ k.ptr[v].strong = NoObject
    BY <1>3 DEF PlacedWith, Fields
  <2>4. PointerChanged(k, g, v) /\ Fields(g.ptr[v], k.ptr[v].share, NoObject, k.ptr[v].own, k.ptr[v].strong)
    BY <1>2, <2>1, <2>3, SetObjFields
  <2>5. PlacedWith(h, g, v, r, NoObject)
    BY <1>2, <1>3, <2>3, <2>4, PlacedChanged
  <2>. QED
    BY <2>2, <2>5, PlacedJoins
<1>. QED
  BY <1>4, <1>5

LEMMA CopySound ==
  ASSUME FewPointers, NEW B, NEW h, Sound(h, B), NEW v \in Plain, h.ptr[v] = Empty, NEW r \in Pointers, r # v
  PROVE  /\ Joins(h, Copy(h, v, r), B, v, r) /\ get(Copy(h, v, r), v) = get(h, r)
         /\ Copy(h, v, r).ptr[v].strong = h.ptr[r].strong
<1>1. PICK k : k = ShareWith(h, v, r)
  OBVIOUS
<1>2. v \in Pointers /\ IsHeap(h) /\ Counted(h) /\ Sharing(h)
  BY DEF Plain, Pointers, Sound, Solid
<1>3. PlacedWith(h, k, v, r, h.ptr[r].obj)
  BY <1>1, <1>2, SharePlaced
<1>4. Joins(h, k, B, v, r) /\ get(k, v) = get(k, r)
  BY <1>3, PlacedJoins
<1>5. IsHeap(k) /\ k.ptr[v].own = NoObject /\ k.ptr[v].strong = NoObject /\ k.ptr[v].obj = h.ptr[r].obj
  BY <1>3 DEF PlacedWith, Fields
<1>6. PICK g : g = SetStrong(k, v, h.ptr[r].strong)
  OBVIOUS
<1>7. Copy(h, v, r) = g
  BY <1>1, <1>6 DEF Copy, SetStrong
<1>8. CASE h.ptr[r].strong = NoObject
  <2>1. g = SetStrong(k, v, NoObject)
    BY <1>6, <1>8
  <2>2. PointerChanged(k, g, v) /\ Fields(g.ptr[v], k.ptr[v].share, k.ptr[v].obj, k.ptr[v].own, NoObject)
    BY <1>2, <1>5, <2>1, SetStrongFields
  <2>3. PlacedWith(h, g, v, r, h.ptr[r].obj)
    BY <1>2, <1>3, <1>5, <2>2, PlacedChanged
  <2>4. Joins(h, g, B, v, r) /\ get(g, v) = get(g, r)
    BY <2>3, PlacedJoins
  <2>. QED
    BY <1>7, <1>8, <2>2, <2>4 DEF Joins, Fields
<1>9. CASE h.ptr[r].strong # NoObject
  <2>1. PICK o \in SharedObjects \cap h.alive : o = h.ptr[r].strong /\ get(h, r) = o
    BY <1>2, <1>9 DEF Sharing
  <2>2. Sound(k, B) /\ o \in SharedObjects \cap k.alive /\ get(k, v) = o
    BY <1>4, <2>1 DEF Joins
  <2>3. g = SetStrong(k, v, o)
    BY <1>6, <2>1
  <2>4. Sound(g, B) /\ PointerChanged(k, g, v) /\ SameSight(k, g) /\ g.ptr[v].own = k.ptr[v].own
    BY <1>5, <2>2, <2>3, StrongSound
  <2>5. /\ \A w \in Pointers : get(g, w) = get(k, w) /\ g.ptr[w].share = k.ptr[w].share
        /\ \A w \in Pointers : w # v => g.ptr[w] = k.ptr[w]
        /\ SameObjects(k, g)
    BY <2>4 DEF SameSight, PointerChanged, Only
  <2>6. Others(h, g, {v})
    BY <1>4, <2>5 DEF Joins, Others, Plain, Pointers
  <2>7. Joins(h, g, B, v, r) /\ get(g, v) = get(h, r)
    BY <1>2, <1>4, <1>5, <2>4, <2>5, <2>6 DEF Joins, SameObjects
  <2>8. g.ptr[v].strong = o
    <3>1. o \in Objects \cup {NoObject}
      BY SharedAssumption
    <3>. QED
      BY <1>2, <1>5, <2>3, <3>1, SetStrongFields DEF Fields
  <2>. QED
    BY <1>7, <2>1, <2>7, <2>8
<1>. QED
  BY <1>8, <1>9

\* r has handed over to v what it owned.
Handed(h, g, B, v, r) ==
  /\ Sound(g, B) /\ Others(h, g, {v, r}) /\ g.alive = h.alive
  /\ g.ptr[r].share = h.ptr[r].share /\ g.ptr[r].strong = h.ptr[r].strong

LEMMA JoinsTransfer ==
  ASSUME NEW B, NEW h, NEW v \in Plain, NEW r \in Plain, v # r, NEW k, Joins(h, k, B, v, r), get(k, v) = get(k, r)
  PROVE  Handed(h, Transfers(k, v, r), B, v, r) /\ Transfers(k, v, r).ptr[v].strong = k.ptr[v].strong
<1>1. PICK g : g = Transfers(k, v, r)
  OBVIOUS
<1>2. v \in Pointers /\ r \in Pointers /\ Sound(k, B) /\ IsHeap(k)
  BY DEF Plain, Pointers, Joins, Sound, Solid
<1>3. Transferred(k, g, v, r)
  BY <1>1, <1>2, TransfersFields
<1>4. k.ptr[v].share = k.ptr[r].share /\ k.ptr[v].own = NoObject
  BY DEF Joins
<1>5. Sound(g, B)
  BY <1>2, <1>3, <1>4, TransferSound
<1>6. Others(h, g, {v, r}) /\ g.alive = h.alive
  BY <1>3 DEF Joins, Others, Transferred, SameObjects, Plain, Pointers
<1>7. g.ptr[r].share = h.ptr[r].share /\ g.ptr[r].strong = h.ptr[r].strong /\ g.ptr[v].strong = k.ptr[v].strong
  BY <1>3 DEF Joins, Transferred, Fields
<1>. QED
  BY <1>1, <1>5, <1>6, <1>7 DEF Handed

LEMMA MoveSound ==
  ASSUME FewPointers, NEW B, NEW h, Sound(h, B), NEW v \in Plain, h.ptr[v] = Empty, NEW r \in Plain, r # v
  PROVE  Handed(h, Move(h, v, r), B, v, r) /\ Move(h, v, r).ptr[v].strong = h.ptr[r].strong
<1>1. PICK k : k = Copy(h, v, r)
  OBVIOUS
<1>2. r \in Pointers
  BY DEF Plain, Pointers
<1>3. Joins(h, k, B, v, r) /\ get(k, v) = get(k, r) /\ k.ptr[r] = h.ptr[r] /\ k.ptr[v].strong = h.ptr[r].strong
  BY <1>1, <1>2, CopySound DEF Joins
<1>4. Move(h, v, r) = Transfers(k, v, r)
  BY <1>1, <1>3 DEF Move, MovedFrom, Transfers, SetOwn
<1>. QED
  BY <1>3, <1>4, JoinsTransfer

LEMMA MoveCastSound ==
  ASSUME FewPointers, NEW B, NEW h, Sound(h, B), NEW v \in Plain, h.ptr[v] = Empty, NEW r \in Plain, r # v,
         NEW ok \in BOOLEAN
  PROVE  Handed(h, MoveCast(h, v, r, ok), B, v, r)
<1>1. PICK k : k = Cast(h, v, r, ok)
  OBVIOUS
<1>2. r \in Pointers
  BY DEF Plain, Pointers
<1>3. Joins(h, k, B, v, r) /\ get(k, v) \in {get(k, r), NoObject} /\ k.ptr[r] = h.ptr[r]
  BY <1>1, <1>2, CastSound DEF Joins
<1>4. CASE get(k, v) = NoObject
  <2>1. MoveCast(h, v, r, ok) = k
    BY <1>1, <1>4 DEF MoveCast
  <2>. QED
    BY <1>3, <2>1 DEF Handed, Joins, Others
<1>5. CASE get(k, v) # NoObject
  <2>1. MoveCast(h, v, r, ok) = Transfers(k, v, r)
    BY <1>1, <1>3, <1>5 DEF MoveCast, MovedFrom, Transfers, SetOwn
  <2>. QED
    BY <1>3, <1>5, <2>1, JoinsTransfer
<1>. QED
  BY <1>4, <1>5

\* v has been made from what a caller has: nothing but v has changed.
Made(h, g, B, v) == Sound(g, B) /\ Others(h, g, {v}) /\ g.alive = h.alive

LEMMA CreatePlaced ==
  ASSUME NEW h, IsHeap(h), Counted(h), NEW v \in Pointers, h.ptr[v] = Empty,
         NEW o \in Objects, NEW managed \in BOOLEAN, NEW g, g = Create(h, v, o, managed)
  PROVE  PlacedNew(h, g, v, o, managed)
<1>1. h.ptr[v].share = NoBlock /\ h.ptr[v].own = NoObject /\ h.ptr[v].strong = NoObject /\ h.ptr[v] \in Pointer
  BY DEF Empty, IsHeap
<1>2. Created(h, g, v, o, managed)
  BY <1>1, CreateEffect
<1>3. \A b \in Blocks : Fields(Pointing(h.ptr[v], b, o), b, o, NoObject, NoObject)
  BY <1>1, PointerFields DEF Fields
<1>. QED
  BY <1>2, <1>3 DEF PlacedNew, Created

\* An object that is alive has an auto_this when it is asked for.
LEMMA FromThisSound ==
  ASSUME FewPointers, NEW B, NEW h, Sound(h, B), NEW o \in FromThis \cap h.alive
  PROVE  LET g == auto_ptr_from_this(h, o)
         IN  Sound(g, B) /\ Others(h, g, {}) /\ SameObjects(h, g) /\ get(g, o) = o
<1>1. PICK g : g = auto_ptr_from_this(h, o)
  OBVIOUS
<1>2. /\ o \in Pointers /\ o \in Objects /\ o # NoObject /\ o \notin Plain
      /\ IsHeap(h) /\ Counted(h) /\ SelfPointers(h) /\ Managed(h) /\ Solid(h, B)
  BY HeapAssumption DEF Pointers, Plain, Sound, Solid, IsHeap
<1>3. CASE get(h, o) # NoObject
  <2>1. g = h
    BY <1>1, <1>3 DEF auto_ptr_from_this
  <2>2. get(h, o) = o
    BY <1>2, <1>3 DEF SelfPointers, get, valid, Empty
  <2>. QED
    BY <1>1, <2>1, <2>2 DEF Others, SameObjects
<1>4. CASE get(h, o) = NoObject
  <2>1. h.ptr[o] = Empty
    BY <1>2, <1>4 DEF SelfPointers, get
  <2>2. ReleaseShare(h, o) = h
    <3>1. ReleaseShare(h, o) = Joined(h, o, NoBlock, NoObject)
      BY <2>1 DEF ReleaseShare, Joined, Empty
    <3>2. Joined(h, o, NoBlock, NoObject) = h
      <4>1. PICK k : k = Joined(h, o, NoBlock, NoObject)
        OBVIOUS
      <4>2. k.ptr = Put(h.ptr, o, Pointing(h.ptr[o], NoBlock, NoObject))
        BY <1>2, <4>1 DEF Joined, IsHeap, Put, Pointing
      <4>3. Pointing(Empty, NoBlock, NoObject) = Empty
        <5>1. [Empty EXCEPT !.share = NoBlock] = Empty
          BY DEF Empty
        <5>2. [Empty EXCEPT !.obj = NoObject] = Empty
          BY DEF Empty
        <5>. QED
          BY <5>1, <5>2 DEF Pointing
      <4>4. Put(h.ptr, o, Empty) = h.ptr
        BY <1>2, <2>1 DEF Put, IsHeap
      <4>5. k.ptr = h.ptr
        BY <2>1, <4>2, <4>3, <4>4
      <4>6. /\ k.share = h.share /\ k.alive = h.alive /\ k.raw = h.raw /\ k.outside = h.outside /\ k.broken = h.broken
            /\ k = [ptr |-> k.ptr, share |-> k.share, alive |-> k.alive, raw |-> k.raw,
                    outside |-> k.outside, broken |-> k.broken]
        BY <1>2, <4>1 DEF Joined, IsHeap
      <4>7. k = h
        BY <1>2, <4>5, <4>6 DEF IsHeap
      <4>. QED
        BY <4>1, <4>7
    <3>. QED
      BY <3>1, <3>2
  <2>3. g = Create(h, o, o, TRUE)
    BY <1>1, <1>4, <2>2 DEF auto_ptr_from_this
  <2>4. PICK managed \in BOOLEAN : managed = TRUE
    OBVIOUS
  <2>m. PlacedNew(h, g, o, o, managed)
    BY <1>2, <2>1, <2>3, <2>4, CreatePlaced
  <2>5. /\ Solid(g, B) /\ get(g, o) = o
        /\ \A w \in Pointers : w # o => g.ptr[w] = h.ptr[w]
        /\ Managed(g)
    BY <1>2, <2>1, <2>m, PlacedNewSolid
  <2>6. Sound(g, B) /\ Others(h, g, {}) /\ SameObjects(h, g)
    BY <1>2, <2>m, <2>5 DEF Sound, Others, Plain, Pointers, PlacedNew
  <2>. QED
    BY <1>1, <2>5, <2>6
<1>. QED
  BY <1>3, <1>4

\* v shares the block of the auto_this.
LEMMA FromSelfSound ==
  ASSUME FewPointers, NEW B, NEW h, Sound(h, B), NEW v \in Plain, h.ptr[v] = Empty, NEW o \in FromThis \cap h.alive
  PROVE  LET g == ShareWith(auto_ptr_from_this(h, o), v, o)
         IN  /\ Made(h, g, B, v) /\ g.raw = h.raw
             /\ get(g, v) = o /\ g.ptr[v].own = NoObject /\ g.ptr[v].share = g.ptr[o].share
<1>1. PICK k : k = auto_ptr_from_this(h, o)
  OBVIOUS
<1>2. Sound(k, B) /\ Others(h, k, {}) /\ SameObjects(h, k) /\ get(k, o) = o
  BY <1>1, FromThisSound
<1>3. k.ptr[v] = Empty /\ o \in Pointers /\ o # v
  BY <1>2, HeapAssumption DEF Others, Pointers, Plain
<1>4. PICK g : g = ShareWith(k, v, o)
  OBVIOUS
<1>5. Joins(k, g, B, v, o) /\ get(g, v) = get(k, o)
  BY <1>2, <1>3, <1>4, WeakSound
<1>6. Others(h, g, {v})
  BY <1>2, <1>5 DEF Joins, Others
<1>. QED
  BY <1>1, <1>2, <1>4, <1>5, <1>6 DEF Made, Joins, SameObjects

LEMMA FromPointerSound ==
  ASSUME FewPointers, NEW B, NEW h, Sound(h, B), NEW v \in Plain, h.ptr[v] = Empty, NEW o \in h.alive
  PROVE  /\ Made(h, FromPointer(h, v, o, FALSE, FALSE), B, v)
         /\ o \in h.raw => Made(h, FromPointer(h, v, o, TRUE, TRUE), B, v)
<1>1. /\ v \in Pointers /\ o # NoObject /\ o \in Objects /\ IsHeap(h) /\ Counted(h) /\ Solid(h, B) /\ Managed(h)
  BY HeapAssumption DEF Plain, Pointers, Sound, Solid, IsHeap
\* A place for v in a heap in which it owns o next.
<1>2. ASSUME NEW k, Solid(k, B), ManagedBut(k, k.ptr[v].share), Others(h, k, {v}), k.alive = h.alive,
             get(k, v) = o, k.ptr[v].own = NoObject, o \in FromThis => k.ptr[v].share = k.ptr[o].share, o \in k.raw
      PROVE  Made(h, Takes(k, v, o), B, v)
  <2>1. PICK g : g = Takes(k, v, o)
    OBVIOUS
  <2>2. Taken(k, g, v, o)
    BY <1>1, <1>2, <2>1, TakesFields DEF Solid
  <2>3. Sound(g, B) /\ Only(k, g, v) /\ g.alive = k.alive
    BY <1>2, <2>2, OwnSound
  <2>4. Others(h, g, {v})
    BY <1>2, <2>3 DEF Only, Others, Plain, Pointers
  <2>. QED
    BY <1>2, <2>1, <2>3, <2>4 DEF Made
<1>3. CASE o \in FromThis
  <2>1. PICK k : k = ShareWith(auto_ptr_from_this(h, o), v, o)
    OBVIOUS
  <2>2. /\ Made(h, k, B, v) /\ k.raw = h.raw
        /\ get(k, v) = o /\ k.ptr[v].own = NoObject /\ k.ptr[v].share = k.ptr[o].share
    BY <1>3, <2>1, FromSelfSound
  <2>3. FromPointer(h, v, o, FALSE, FALSE) = k
    BY <1>1, <1>3, <2>1 DEF FromPointer
  <2>4. FromPointer(h, v, o, TRUE, TRUE) = [k EXCEPT !.ptr[v].own = o, !.raw = @ \ {o}]
    BY <1>1, <1>3, <2>1 DEF FromPointer
  <2>5. [k EXCEPT !.ptr[v].own = o, !.raw = @ \ {o}] = Takes(k, v, o)
    BY <2>2 DEF Takes, SetOwn, SetObjects, Made, Sound, Solid, IsHeap
  <2>6. Solid(k, B) /\ ManagedBut(k, k.ptr[v].share) /\ Others(h, k, {v}) /\ k.alive = h.alive
    <3>1. NoBlock # k.ptr[v].share => ManagedBut(k, k.ptr[v].share)
      BY <2>2, ManagedPoints DEF Made, Sound, Managed, ManagedBut
    <3>2. k.ptr[v].share # NoBlock
      BY <1>1, <2>2, ManagedPoints
    <3>. QED
      BY <2>2, <3>1, <3>2 DEF Made, Sound
  <2>7. o \in h.raw => Made(h, Takes(k, v, o), B, v)
    BY <1>2, <2>2, <2>6
  <2>. QED
    BY <2>2, <2>3, <2>4, <2>5, <2>7
<1>4. CASE o \notin FromThis
  <2>1. ASSUME NEW managed \in BOOLEAN
        PROVE  LET k == Create(h, v, o, managed)
               IN  /\ Solid(k, B) /\ ManagedBut(k, k.ptr[v].share) /\ Others(h, k, {v}) /\ SameObjects(h, k)
                   /\ get(k, v) = o /\ k.ptr[v].own = NoObject /\ (~managed => Managed(k))
    <3>1. PICK k : k = Create(h, v, o, managed)
      OBVIOUS
    <3>2. PlacedNew(h, k, v, o, managed)
      BY <1>1, <3>1, CreatePlaced
    <3>3. /\ Solid(k, B)
          /\ \A w \in Pointers : w # v => k.ptr[w] = h.ptr[w] /\ get(k, w) = get(h, w)
          /\ get(k, v) = o /\ Fields(k.ptr[v], k.ptr[v].share, o, NoObject, NoObject)
          /\ Managed(h) => ManagedBut(k, k.ptr[v].share)
          /\ Managed(h) /\ (managed => o \in SharedObjects \cup {v}) => Managed(k)
      BY <1>1, <3>2, PlacedNewSolid
    <3>4. Others(h, k, {v}) /\ k.ptr[v].own = NoObject /\ SameObjects(h, k)
      BY <3>2, <3>3 DEF Others, Plain, Pointers, Fields, PlacedNew
    <3>. QED
      BY <1>1, <3>1, <3>3, <3>4
  <2>2. PICK k : k = Create(h, v, o, FALSE)
    OBVIOUS
  <2>3. Made(h, FromPointer(h, v, o, FALSE, FALSE), B, v)
    <3>1. FromPointer(h, v, o, FALSE, FALSE) = k
      BY <1>1, <1>4, <2>2 DEF FromPointer
    <3>2. Sound(k, B) /\ Others(h, k, {v}) /\ k.alive = h.alive
      BY <2>1, <2>2 DEF Sound, SameObjects
    <3>. QED
      BY <3>1, <3>2 DEF Made
  <2>4. PICK m : m = Create(h, v, o, TRUE)
    OBVIOUS
  <2>5. FromPointer(h, v, o, TRUE, TRUE) = [m EXCEPT !.ptr[v].own = o, !.raw = @ \ {o}]
    BY <1>1, <1>4, <2>4 DEF FromPointer
  <2>6. /\ Solid(m, B) /\ ManagedBut(m, m.ptr[v].share) /\ Others(h, m, {v}) /\ SameObjects(h, m)
        /\ get(m, v) = o /\ m.ptr[v].own = NoObject
    BY <2>1, <2>4
  <2>7. [m EXCEPT !.ptr[v].own = o, !.raw = @ \ {o}] = Takes(m, v, o)
    BY <2>6 DEF Takes, SetOwn, SetObjects, Solid, IsHeap
  <2>8. o \in h.raw => Made(h, Takes(m, v, o), B, v)
    BY <1>2, <1>4, <2>6 DEF SameObjects
  <2>. QED
    BY <2>3, <2>5, <2>7, <2>8
<1>. QED
  BY <1>3, <1>4

LEMMA FromSharedSound ==
  ASSUME FewPointers, NEW B, NEW h, Sound(h, B), NEW v \in Plain, h.ptr[v] = Empty, NEW o \in h.outside
  PROVE  Made(h, FromShared(h, v, o), B, v)
<1>1. /\ v \in Pointers /\ o \in Objects /\ IsHeap(h) /\ Counted(h) /\ Solid(h, B) /\ Managed(h)
      /\ o \in SharedObjects \cap h.alive
  BY DEF Plain, Pointers, Sound, Solid, IsHeap, Callers
<1>2. PICK k : k = Create(h, v, o, TRUE)
  OBVIOUS
<1>m. PICK managed \in BOOLEAN : managed = TRUE
  OBVIOUS
<1>3. PlacedNew(h, k, v, o, managed)
  BY <1>1, <1>2, <1>m, CreatePlaced
<1>4. /\ Solid(k, B)
      /\ \A w \in Pointers : w # v => k.ptr[w] = h.ptr[w] /\ get(k, w) = get(h, w)
      /\ get(k, v) = o /\ Fields(k.ptr[v], k.ptr[v].share, o, NoObject, NoObject)
      /\ Managed(k)
  BY <1>1, <1>3, PlacedNewSolid
<1>5. Sound(k, B) /\ k.alive = h.alive /\ k.ptr[v].strong = NoObject
  BY <1>1, <1>3, <1>4 DEF Sound, PlacedNew, SameObjects, Fields
<1>6. PICK g : g = SetStrong(k, v, o)
  OBVIOUS
<1>7. Sound(g, B) /\ PointerChanged(k, g, v)
  BY <1>1, <1>4, <1>5, <1>6, StrongSound
<1>8. Others(h, g, {v}) /\ g.alive = h.alive
  BY <1>4, <1>5, <1>7 DEF PointerChanged, Only, SameObjects, Others, Plain, Pointers
<1>9. FromShared(h, v, o) = g
  BY <1>2, <1>6 DEF FromShared, SetStrong
<1>. QED
  BY <1>7, <1>8, <1>9 DEF Made

-----------------------------------------------------------------------------
(***************************************************************************)
(* Assignment                                                              *)
(***************************************************************************)

\* Between the operations the temporaries are empty.
Ready(h, B) == Sound(h, B) /\ h.ptr[Tmp] = Empty /\ h.ptr[Tmp2] = Empty

LEMMA Temporaries == Tmp \in Plain /\ Tmp2 \in Plain /\ Tmp # Tmp2 /\ Tmp \notin Vars /\ Tmp2 \notin Vars
BY HeapAssumption DEF Plain

\* What goes when v takes over from t, and t goes with what v had.
Parted(h, g, v, t) ==
  \A o \in SharedObjects : o \in h.alive /\ o \notin g.alive =>
    /\ h.ptr[v].strong = o
    /\ \A w \in Plain : w \notin {v, t} /\ h.ptr[w].share = h.ptr[v].share => get(g, w) = NoObject

LEMMA TakeOverSound ==
  ASSUME FewPointers, NEW B, NEW h, Sound(h, B), NEW v \in Plain, NEW t \in Plain, v # t
  PROVE  LET g == TakeOver(h, v, t)
         IN  /\ Sound(g, B) /\ g.ptr[t] = Empty /\ Others(h, g, {v, t})
             /\ g.ptr[v] = h.ptr[t] /\ Parted(h, g, v, t)
<1>1. PICK k : k = Swap(h, v, t)
  OBVIOUS
<1>2. v \in Pointers /\ t \in Pointers /\ IsHeap(h)
  BY DEF Plain, Pointers, Sound, Solid
<1>3. Swapped(h, k, v, t)
  BY <1>1, <1>2, SwapEffect
<1>4. Sound(k, B)
  BY <1>3, SwapSound
<1>5. Others(h, k, {v, t})
  BY <1>3 DEF Swapped, Others, Plain, Pointers
<1>6. PICK g : g = Drop(k, t)
  OBVIOUS
<1>7. Dropped(k, g, B, t)
  BY <1>4, <1>6, DropSound
<1>8. Others(h, g, {v, t})
  BY <1>5, <1>7 DEF Dropped, Others
<1>9. /\ k.ptr[t] = h.ptr[v] /\ k.ptr[v] = h.ptr[t] /\ k.alive = h.alive
      /\ \A w \in Plain : w \notin {v, t} => k.ptr[w] = h.ptr[w]
  BY <1>3 DEF Swapped, SameObjects, Plain, Pointers
<1>10. Tells(k, g, t)
  BY <1>7 DEF Dropped
<1>11. Parted(h, g, v, t)
  BY <1>9, <1>10 DEF Tells, Parted
<1>12. g.ptr[v] = h.ptr[t]
  BY <1>7, <1>9 DEF Dropped, Others
<1>. QED
  BY <1>1, <1>6, <1>7, <1>8, <1>11, <1>12 DEF TakeOver, Dropped

\* Variables share what they shared.
SameShares(h, k) ==
  /\ k.alive = h.alive
  /\ \A x \in Vars : k.ptr[x].share = h.ptr[x].share /\ k.ptr[x].strong = h.ptr[x].strong

\* The objects of std::shared_ptr that have gone went with the share of v, and
\* the variables of its block point to nothing.
Told(h, g, v) ==
  \A o \in SharedObjects : o \in h.alive /\ o \notin g.alive =>
    /\ h.ptr[v].strong = o
    /\ \A w \in Vars : w # v /\ h.ptr[w].share = h.ptr[v].share => get(g, w) = NoObject

\* v has been assigned to.
Assigned(h, g, B, v) == Ready(g, B) /\ Told(h, g, v)

LEMMA PartedTold ==
  ASSUME NEW h, NEW k, SameShares(h, k), NEW v \in Vars, NEW g, Parted(k, g, v, Tmp)
  PROVE  Told(h, g, v)
<1>1. \A w \in Vars : w \in Plain /\ w # Tmp
  BY Temporaries DEF Plain
<1>2. k.alive = h.alive
  BY DEF SameShares
<1>3. ASSUME NEW o \in SharedObjects, o \in h.alive, o \notin g.alive
      PROVE  /\ h.ptr[v].strong = o
             /\ \A w \in Vars : w # v /\ h.ptr[w].share = h.ptr[v].share => get(g, w) = NoObject
  <2>1. /\ k.ptr[v].strong = o
        /\ \A w \in Plain : w \notin {v, Tmp} /\ k.ptr[w].share = k.ptr[v].share => get(g, w) = NoObject
    BY <1>2, <1>3 DEF Parted
  <2>. QED
    BY <1>1, <2>1 DEF SameShares
<1>. QED
  BY <1>3 DEF Told

LEMMA HandedShares ==
  ASSUME NEW B, NEW h, NEW k, NEW t \in {Tmp, Tmp2}, NEW r, Handed(h, k, B, t, r)
  PROVE  SameShares(h, k)
<1>1. ASSUME NEW x \in Vars PROVE k.ptr[x].share = h.ptr[x].share /\ k.ptr[x].strong = h.ptr[x].strong
  <2>1. CASE x = r
    BY <2>1 DEF Handed
  <2>2. CASE x # r
    <3>1. x \in Plain \ {t, r}
      BY <2>2, Temporaries DEF Plain
    <3>2. k.ptr[x] = h.ptr[x]
      BY <3>1 DEF Handed, Others
    <3>. QED
      BY <3>2
  <2>. QED
    BY <2>1, <2>2
<1>. QED
  BY <1>1 DEF SameShares, Handed

LEMMA OthersShares ==
  ASSUME NEW h, NEW k, NEW t \in {Tmp, Tmp2}, Others(h, k, {t}), k.alive = h.alive
  PROVE  SameShares(h, k)
<1>1. ASSUME NEW x \in Vars PROVE k.ptr[x] = h.ptr[x]
  <2>1. x \in Plain \ {t}
    BY Temporaries DEF Plain
  <2>. QED
    BY <2>1 DEF Others
<1>. QED
  BY <1>1 DEF SameShares

\* g comes of k when r is moved to v through the first temporary: what r had is
\* now v's, and where the last share of an object of h has gone with v, the
\* others know.
Seized(h, k, g, B, v, r) ==
  /\ Sound(g, B) /\ g.ptr[Tmp] = Empty /\ Others(k, g, {v, r, Tmp}) /\ Told(h, g, v)
  /\ r # v => g.ptr[r].strong = g.ptr[v].strong

LEMMA MoveAssignSound ==
  ASSUME FewPointers, NEW B, NEW h, NEW k, Sound(k, B), k.ptr[Tmp] = Empty, SameShares(h, k),
         NEW v \in Vars, NEW r \in Plain \ {Tmp}
  PROVE  Seized(h, k, MoveAssign(k, v, r), B, v, r)
<1>0. v \in Plain /\ v # Tmp
  BY Temporaries DEF Plain
<1>1. PICK m : m = Move(k, Tmp, r)
  OBVIOUS
<1>2. Handed(k, m, B, Tmp, r) /\ m.ptr[Tmp].strong = k.ptr[r].strong
  BY <1>1, MoveSound, Temporaries
<1>3. PICK g : g = TakeOver(m, v, Tmp)
  OBVIOUS
<1>4. /\ Sound(g, B) /\ g.ptr[Tmp] = Empty /\ Others(m, g, {v, Tmp})
      /\ g.ptr[v] = m.ptr[Tmp] /\ Parted(m, g, v, Tmp)
  BY <1>0, <1>2, <1>3, TakeOverSound, Temporaries DEF Handed
<1>5. Others(k, g, {v, r, Tmp})
  BY <1>2, <1>4 DEF Handed, Others
<1>6. SameShares(k, m)
  BY <1>2, HandedShares
<1>7. SameShares(h, m)
  BY <1>6 DEF SameShares
<1>8. Told(h, g, v)
  BY <1>4, <1>7, PartedTold
<1>9. r # v => g.ptr[r].strong = g.ptr[v].strong
  BY <1>2, <1>4 DEF Handed, Others
<1>. QED
  BY <1>1, <1>3, <1>4, <1>5, <1>8, <1>9 DEF MoveAssign, Seized

\* v takes what the second temporary has, which is destroyed: it shares with v
\* what it shares, and nothing goes with it.
LEMMA FinishSound ==
  ASSUME FewPointers, NEW B, NEW h, NEW k, Sound(k, B), k.ptr[Tmp] = Empty, SameShares(h, k), NEW v \in Vars
  PROVE  Assigned(h, Drop(MoveAssign(k, v, Tmp2), Tmp2), B, v)
<1>1. PICK l : l = MoveAssign(k, v, Tmp2)
  OBVIOUS
<1>2. Tmp2 \in Plain \ {Tmp} /\ Tmp2 # v
  BY Temporaries
<1>3. Sound(l, B) /\ l.ptr[Tmp] = Empty /\ Told(h, l, v) /\ l.ptr[Tmp2].strong = l.ptr[v].strong
  <2>1. Seized(h, k, l, B, v, Tmp2)
    BY <1>1, <1>2, MoveAssignSound
  <2>. QED
    BY <1>2, <2>1 DEF Seized
<1>4. PICK g : g = Drop(l, Tmp2)
  OBVIOUS
<1>5. Dropped(l, g, B, Tmp2)
  BY <1>3, <1>4, DropSound, Temporaries
<1>6. Ready(g, B)
  BY <1>3, <1>5, Temporaries DEF Ready, Dropped, Others
<1>7. ASSUME NEW o \in SharedObjects, o \in h.alive, o \notin g.alive
      PROVE  /\ h.ptr[v].strong = o
             /\ \A w \in Vars : w # v /\ h.ptr[w].share = h.ptr[v].share => get(g, w) = NoObject
  <2>1. CASE o \in l.alive
    <3>1. l.ptr[Tmp2].strong = o
      BY <1>5, <1>7, <2>1 DEF Dropped, Tells
    <3>2. v \in Plain \ {Tmp2} /\ v \in Pointers
      BY <1>2 DEF Plain, Pointers
    <3>3. g.ptr[v].strong = o
      BY <1>3, <1>5, <3>1, <3>2 DEF Dropped, Others
    <3>4. o # NoObject /\ Sharing(g)
      BY <1>5, HeapAssumption, SharedAssumption DEF Dropped, Sound, Solid
    <3>. QED
      BY <1>7, <3>2, <3>3, <3>4 DEF Sharing
  <2>2. CASE o \notin l.alive
    <3>1. /\ h.ptr[v].strong = o
          /\ \A w \in Vars : w # v /\ h.ptr[w].share = h.ptr[v].share => get(l, w) = NoObject
      BY <1>3, <1>7, <2>2 DEF Told
    <3>2. \A w \in Vars : get(g, w) \in {get(l, w), NoObject}
      BY <1>5, Temporaries DEF Dropped, Fades, Plain
    <3>. QED
      BY <3>1, <3>2
  <2>. QED
    BY <2>1, <2>2
<1>8. Told(h, g, v)
  BY <1>7 DEF Told
<1>. QED
  BY <1>1, <1>4, <1>6, <1>8 DEF Assigned

\* v takes what the first temporary has.
LEMMA OverSound ==
  ASSUME FewPointers, NEW B, NEW h, NEW k, Sound(k, B), k.ptr[Tmp2] = Empty, SameShares(h, k), NEW v \in Vars
  PROVE  Assigned(h, TakeOver(k, v, Tmp), B, v)
<1>1. PICK g : g = TakeOver(k, v, Tmp)
  OBVIOUS
<1>2. v \in Plain /\ v # Tmp /\ v # Tmp2
  BY Temporaries DEF Plain
<1>3. Sound(g, B) /\ g.ptr[Tmp] = Empty /\ Others(k, g, {v, Tmp}) /\ Parted(k, g, v, Tmp)
  BY <1>1, <1>2, TakeOverSound, Temporaries
<1>4. Ready(g, B)
  BY <1>2, <1>3, Temporaries DEF Ready, Others
<1>5. Told(h, g, v)
  BY <1>3, PartedTold
<1>. QED
  BY <1>1, <1>4, <1>5 DEF Assigned

LEMMA SameAssigned ==
  ASSUME NEW B, NEW h, Ready(h, B), NEW v
  PROVE  Assigned(h, h, B, v) /\ SameShares(h, h)
BY DEF Assigned, Told, SameShares

LEMMA AssignFromSound ==
  ASSUME FewPointers, NEW B, NEW h, Ready(h, B), NEW v \in Vars, NEW r \in Vars
  PROVE  /\ Assigned(h, CopyAssign(h, v, r), B, v) /\ Assigned(h, MoveAssign(h, v, r), B, v)
         /\ \A ok \in BOOLEAN :
              Assigned(h, CastAssign(h, v, r, ok), B, v) /\ Assigned(h, MoveCastAssign(h, v, r, ok), B, v)
<1>1. /\ Sound(h, B) /\ h.ptr[Tmp] = Empty /\ h.ptr[Tmp2] = Empty
      /\ v \in Plain /\ r \in Plain /\ r \in Pointers
      /\ v # Tmp /\ v # Tmp2 /\ r # Tmp /\ r # Tmp2
  BY Temporaries DEF Ready, Plain, Pointers
<1>2. Assigned(h, CopyAssign(h, v, r), B, v)
  <2>1. PICK k : k = Copy(h, Tmp2, r)
    OBVIOUS
  <2>2. Joins(h, k, B, Tmp2, r)
    BY <1>1, <2>1, CopySound, Temporaries
  <2>3. Sound(k, B) /\ k.ptr[Tmp] = Empty
    BY <1>1, <2>2, Temporaries DEF Joins, Others
  <2>4. SameShares(h, k)
    BY <2>2, OthersShares DEF Joins
  <2>5. Assigned(h, Drop(MoveAssign(k, v, Tmp2), Tmp2), B, v)
    BY <2>3, <2>4, FinishSound
  <2>. QED
    BY <2>1, <2>5, SameAssigned DEF CopyAssign
<1>3. Assigned(h, MoveAssign(h, v, r), B, v)
  <2>1. PICK g : g = MoveAssign(h, v, r)
    OBVIOUS
  <2>2. Sound(g, B) /\ g.ptr[Tmp] = Empty /\ Others(h, g, {v, r, Tmp}) /\ Told(h, g, v)
    BY <1>1, <2>1, MoveAssignSound, SameAssigned DEF Seized
  <2>. QED
    BY <1>1, <2>1, <2>2, Temporaries DEF Ready, Others, Assigned
<1>4. ASSUME NEW ok \in BOOLEAN
      PROVE  Assigned(h, CastAssign(h, v, r, ok), B, v) /\ Assigned(h, MoveCastAssign(h, v, r, ok), B, v)
  <2>1. PICK k : k = Cast(h, Tmp, r, ok)
    OBVIOUS
  <2>2. Joins(h, k, B, Tmp, r)
    BY <1>1, <2>1, CastSound, Temporaries
  <2>3. Sound(k, B) /\ k.ptr[Tmp2] = Empty /\ SameShares(h, k)
    BY <1>1, <2>2, OthersShares, Temporaries DEF Joins, Others
  <2>4. Assigned(h, CastAssign(h, v, r, ok), B, v)
    BY <2>1, <2>3, OverSound DEF CastAssign
  <2>5. PICK m : m = MoveCast(h, Tmp, r, ok)
    OBVIOUS
  <2>6. Handed(h, m, B, Tmp, r)
    BY <1>1, <2>5, MoveCastSound, Temporaries
  <2>7. Sound(m, B) /\ m.ptr[Tmp2] = Empty
    BY <1>1, <2>6, Temporaries DEF Handed, Others
  <2>8. SameShares(h, m)
    BY <2>6, HandedShares
  <2>9. Assigned(h, MoveCastAssign(h, v, r, ok), B, v)
    BY <2>5, <2>7, <2>8, OverSound DEF MoveCastAssign
  <2>. QED
    BY <2>4, <2>9
<1>. QED
  BY <1>2, <1>3, <1>4

LEMMA AssignSound ==
  ASSUME FewPointers, NEW B, NEW h, Ready(h, B), NEW v \in Vars
  PROVE  /\ \A o \in h.alive \cup {NoObject} : Assigned(h, PointerAssign(h, v, o), B, v)
         /\ \A o \in h.raw : Assigned(h, UniqueAssign(h, v, o), B, v)
         /\ \A o \in h.outside : Assigned(h, SharedAssign(h, v, o), B, v)
<1>1. /\ Sound(h, B) /\ h.ptr[Tmp] = Empty /\ h.ptr[Tmp2] = Empty
      /\ h.raw \subseteq h.alive
  BY DEF Ready, Sound, Solid, Callers
<1>2. ASSUME NEW k, Made(h, k, B, Tmp2) PROVE Assigned(h, Drop(MoveAssign(k, v, Tmp2), Tmp2), B, v)
  <2>1. Sound(k, B) /\ k.ptr[Tmp] = Empty
    BY <1>1, <1>2, Temporaries DEF Made, Others
  <2>2. SameShares(h, k)
    BY <1>2, OthersShares DEF Made
  <2>. QED
    BY <2>1, <2>2, FinishSound
<1>3. Assigned(h, PointerAssign(h, v, NoObject), B, v)
  <2>1. FromPointer(h, Tmp2, NoObject, FALSE, FALSE) = h
    BY DEF FromPointer
  <2>2. Assigned(h, Drop(MoveAssign(h, v, Tmp2), Tmp2), B, v)
    BY <1>1, FinishSound, SameAssigned
  <2>. QED
    BY <2>1, <2>2, SameAssigned DEF PointerAssign
<1>4. ASSUME NEW o \in h.alive PROVE Assigned(h, PointerAssign(h, v, o), B, v)
  <2>1. Made(h, FromPointer(h, Tmp2, o, FALSE, FALSE), B, Tmp2)
    BY <1>1, FromPointerSound, Temporaries
  <2>2. Assigned(h, Drop(MoveAssign(FromPointer(h, Tmp2, o, FALSE, FALSE), v, Tmp2), Tmp2), B, v)
    BY <1>2, <2>1
  <2>. QED
    BY <2>2, SameAssigned DEF PointerAssign
<1>5. ASSUME NEW o \in h.raw PROVE Assigned(h, UniqueAssign(h, v, o), B, v)
  <2>1. Made(h, FromPointer(h, Tmp2, o, TRUE, TRUE), B, Tmp2)
    BY <1>1, FromPointerSound, Temporaries
  <2>. QED
    BY <1>2, <2>1 DEF UniqueAssign, FromUnique
<1>6. ASSUME NEW o \in h.outside PROVE Assigned(h, SharedAssign(h, v, o), B, v)
  <2>1. Made(h, FromShared(h, Tmp2, o), B, Tmp2)
    BY <1>1, FromSharedSound, Temporaries
  <2>. QED
    BY <1>2, <2>1 DEF SharedAssign
<1>. QED
  BY <1>3, <1>4, <1>5, <1>6

LEMMA HandOverSound ==
  ASSUME FewPointers, NEW B, NEW h, Ready(h, B), NEW v \in Vars, NEW r \in Vars
  PROVE  Assigned(h, Drop(MoveAssign(Move(h, Tmp2, r), v, Tmp2), Tmp2), B, v)
<1>1. PICK k : k = Move(h, Tmp2, r)
  OBVIOUS
<1>2. r \in Plain /\ r # Tmp2 /\ r # Tmp /\ Sound(h, B) /\ h.ptr[Tmp] = Empty /\ h.ptr[Tmp2] = Empty
  BY Temporaries DEF Ready, Plain
<1>3. Handed(h, k, B, Tmp2, r)
  BY <1>1, <1>2, MoveSound, Temporaries
<1>4. Sound(k, B) /\ k.ptr[Tmp] = Empty
  BY <1>2, <1>3, Temporaries DEF Handed, Others
<1>5. SameShares(h, k)
  BY <1>3, HandedShares
<1>. QED
  BY <1>1, <1>4, <1>5, FinishSound

-----------------------------------------------------------------------------
(***************************************************************************)
(* Steps of the program                                                    *)
(***************************************************************************)

\* The heap is sound for the objects that were made, and the temporaries are
\* empty.  Sound has what keeps the steps from doing harm: who owns what, that
\* the pointers of a block agree, and that callers have only what is alive.
IInv == born \subseteq Objects /\ Ready(heap, born)

LEMMA InitInv == Init => IInv
<1> SUFFICES ASSUME Init PROVE IInv
  OBVIOUS
<1>1. /\ heap = NewHeap /\ born = {}
      /\ heap.ptr = [v \in Pointers |-> Empty] /\ heap.share = <<>>
      /\ heap.alive = {} /\ heap.raw = {} /\ heap.outside = {} /\ heap.broken = {}
  BY DEF Init, NewHeap
<1>2. DOMAIN heap.share = {}
  BY <1>1
<1>3. Empty \in Pointer
  BY DEF Empty, Pointer
<1>4. \A v \in Pointers : heap.ptr[v] = Empty
  BY <1>1
<1>5. heap.share \in [DOMAIN heap.share -> Block]
  BY <1>1, <1>2
<1>6. IsHeap(heap)
  <2>1. heap.ptr \in [Pointers -> Pointer]
    BY <1>1, <1>3
  <2>2. heap = [ptr |-> heap.ptr, share |-> heap.share, alive |-> heap.alive, raw |-> heap.raw,
                outside |-> heap.outside, broken |-> heap.broken]
    BY <1>1 DEF NewHeap
  <2>. QED
    BY <1>1, <1>2, <1>5, <2>1, <2>2 DEF IsHeap
<1>7. \A v \in Pointers : /\ heap.ptr[v].share = NoBlock /\ heap.ptr[v].obj = NoObject
                          /\ heap.ptr[v].own = NoObject /\ heap.ptr[v].strong = NoObject
                          /\ ~valid(heap, v) /\ get(heap, v) = NoObject
  BY <1>4 DEF Empty, valid, get
<1>8. Counted(heap)
  BY <1>1, <1>2, <1>7 DEF Counted
<1>9. Agree(heap) /\ Owning(heap) /\ Sharing(heap)
  BY <1>7 DEF Agree, Owning, Sharing
<1>10. SelfPointers(heap) /\ Owned(heap) /\ Callers(heap) /\ Within(heap, born)
  BY <1>1, <1>4, <1>7 DEF SelfPointers, Owned, Callers, Within, Pointers
<1>11. Managed(heap)
  BY <1>7 DEF Managed, ManagedBut, is_managed
<1>12. heap.ptr[Tmp] = Empty /\ heap.ptr[Tmp2] = Empty
  BY <1>4 DEF Pointers
<1>. QED
  BY <1>1, <1>6, <1>8, <1>9, <1>10, <1>11, <1>12 DEF IInv, Ready, Sound, Solid

\* What has made a variable, or changed variables only, leaves the temporaries.
LEMMA ReadyAgain ==
  ASSUME NEW B, NEW h, Ready(h, B), NEW S, S \subseteq Vars, NEW g, Sound(g, B), Others(h, g, S)
  PROVE  Ready(g, B)
BY Temporaries DEF Ready, Others

LEMMA MadeReady ==
  ASSUME NEW B, NEW h, Ready(h, B), NEW v \in Vars, NEW g, Made(h, g, B, v)
  PROVE  Ready(g, B)
BY Temporaries DEF Ready, Made, Others

LEMMA NewInv ==
  ASSUME FewPointers, IInv, NEW o \in Objects, New(o) \/ MakeShared(o)
  PROVE  IInv'
<1>1. Sound(heap, born) /\ o \notin born /\ born' = born \cup {o} /\ IsHeap(heap)
  BY DEF New, MakeShared, IInv, Ready, Sound, Solid
<1>2. CASE New(o)
  <2>1. heap' = SetObjects(heap, heap.alive \cup {o}, heap.raw \cup {o}, heap.outside)
    BY <1>1, <1>2 DEF New, SetObjects, IsHeap
  <2>2. o \notin SharedObjects
    BY <1>2 DEF New
  <2>3. Sound(heap', born \cup {o}) /\ heap'.ptr = heap.ptr
    BY <1>1, <2>1, <2>2, NewSound
  <2>. QED
    BY <1>1, <2>3 DEF IInv, Ready
<1>3. CASE MakeShared(o)
  <2>1. heap' = SetObjects(heap, heap.alive \cup {o}, heap.raw, heap.outside \cup {o})
    BY <1>1, <1>3 DEF MakeShared, SetObjects, IsHeap
  <2>2. o \in SharedObjects
    BY <1>3 DEF MakeShared
  <2>3. Sound(heap', born \cup {o}) /\ heap'.ptr = heap.ptr
    BY <1>1, <2>1, <2>2, NewSound
  <2>. QED
    BY <1>1, <2>3 DEF IInv, Ready
<1>. QED
  BY <1>2, <1>3

LEMMA DeleteByHandInv ==
  ASSUME FewPointers, IInv, NEW o \in Objects, DeleteByHand(o)
  PROVE  IInv'
<1>1. Sound(heap, born) /\ Ready(heap, born) /\ born \subseteq Objects /\ Callers(heap)
  BY DEF IInv, Ready, Sound, Solid
<1>2. /\ o \in heap.alive \ SharedObjects /\ (o \in heap.raw \/ o \in FromThis)
      /\ heap' = Delete(heap, o) /\ born' = born
  BY <1>1 DEF DeleteByHand, Does, Live, Callers
<1>3. Sound(heap', born) /\ Others(heap, heap', {})
  BY <1>1, <1>2, DeleteSound
<1>4. Ready(heap', born)
  BY <1>1, <1>3, ReadyAgain
<1>. QED
  BY <1>1, <1>2, <1>4 DEF IInv

LEMMA ResetOutsideInv ==
  ASSUME FewPointers, IInv, NEW o \in Objects, ResetOutside(o)
  PROVE  IInv'
<1>1. Sound(heap, born) /\ Ready(heap, born) /\ born \subseteq Objects /\ IsHeap(heap)
  BY DEF IInv, Ready, Sound, Solid
<1>2. PICK g : g = Reset(heap, o)
  OBVIOUS
<1>3. g = [heap EXCEPT !.outside = @ \ {o}]
  BY <1>1, <1>2 DEF Reset, SetObjects, IsHeap
<1>4. /\ o \in heap.outside /\ born' = born
      /\ heap' = IF use_count(g, o) = 0 THEN Delete(g, o) ELSE g
  BY <1>3, Zenon DEF ResetOutside, Does
<1>5. Sound(heap', born) /\ Others(heap, heap', {})
  BY <1>1, <1>2, <1>4, ResetSound
<1>6. Ready(heap', born)
  BY <1>1, <1>5, ReadyAgain
<1>. QED
  BY <1>1, <1>4, <1>6 DEF IInv

LEMMA ConstructInv ==
  ASSUME FewPointers, IInv, NEW v \in Vars, Construct(v)
  PROVE  IInv' /\ heap'.alive = heap.alive
<1>1. Sound(heap, born) /\ Ready(heap, born) /\ born \subseteq Objects /\ heap.raw \subseteq heap.alive
  BY DEF IInv, Ready, Sound, Solid, Callers
<1>2. v \in Plain /\ heap.ptr[v] = Empty /\ born' = born
  BY DEF Construct, Fresh, Plain, Does
<1>3. ASSUME NEW o \in Live, heap' = FromPointer(heap, v, o, FALSE, FALSE) PROVE Made(heap, heap', born, v)
  BY <1>1, <1>2, <1>3, FromPointerSound DEF Live
<1>4. ASSUME NEW o \in heap.raw, heap' = FromPointer(heap, v, o, TRUE, TRUE) PROVE Made(heap, heap', born, v)
  BY <1>1, <1>2, <1>4, FromPointerSound
<1>5. ASSUME NEW o \in heap.outside, heap' = FromShared(heap, v, o) PROVE Made(heap, heap', born, v)
  BY <1>1, <1>2, <1>5, FromSharedSound
<1>6. ASSUME NEW o \in FromThis \cap Live, heap' = ShareWith(auto_ptr_from_this(heap, o), v, o)
      PROVE  Made(heap, heap', born, v)
  BY <1>1, <1>2, <1>6, FromSelfSound DEF Live
<1>7. Made(heap, heap', born, v)
  BY <1>3, <1>4, <1>5, <1>6 DEF Construct, Does
<1>8. Ready(heap', born)
  BY <1>1, <1>7, MadeReady
<1>. QED
  BY <1>1, <1>2, <1>7, <1>8 DEF IInv, Made

LEMMA ConstructFromInv ==
  ASSUME FewPointers, IInv, NEW v \in Vars, NEW r \in Vars, ConstructFrom(v, r)
  PROVE  IInv' /\ heap'.alive = heap.alive
<1> DEFINE HasMoved == Sound(heap', born) /\ Others(heap, heap', {v, r}) /\ heap'.alive = heap.alive
<1>1. Sound(heap, born) /\ Ready(heap, born) /\ born \subseteq Objects
  BY DEF IInv, Ready
<1>2. /\ v \in Plain /\ heap.ptr[v] = Empty /\ r # v /\ r \in Plain /\ r \in Pointers /\ born' = born
      /\ v # Tmp /\ v # Tmp2 /\ r # Tmp /\ r # Tmp2
  BY Temporaries DEF ConstructFrom, Fresh, Plain, Pointers, Does
<1>3. ASSUME Joins(heap, heap', born, v, r) PROVE HasMoved
  BY <1>3 DEF Joins, Others
<1>4. ASSUME Handed(heap, heap', born, v, r) PROVE HasMoved
  BY <1>4 DEF Handed
<1>5. ASSUME heap' = Copy(heap, v, r) PROVE HasMoved
  BY <1>1, <1>2, <1>3, <1>5, CopySound
<1>6. ASSUME heap' = weak(heap, v, r) PROVE HasMoved
  BY <1>1, <1>2, <1>3, <1>6, WeakSound DEF weak
<1>7. ASSUME heap' = Move(heap, v, r) PROVE HasMoved
  BY <1>1, <1>2, <1>4, <1>7, MoveSound
<1>8. ASSUME NEW ok \in BOOLEAN, heap' = Cast(heap, v, r, ok) PROVE HasMoved
  BY <1>1, <1>2, <1>3, <1>8, CastSound
<1>9. ASSUME NEW ok \in BOOLEAN, heap' = MoveCast(heap, v, r, ok)
      PROVE  HasMoved
  BY <1>1, <1>2, <1>4, <1>9, MoveCastSound
<1>10. HasMoved
  BY <1>5, <1>6, <1>7, <1>8, <1>9 DEF ConstructFrom, Does
<1>11. Ready(heap', born)
  BY <1>1, <1>10, ReadyAgain
<1>. QED
  BY <1>1, <1>2, <1>10, <1>11 DEF IInv

LEMMA ManagedCopyInv ==
  ASSUME FewPointers, IInv, NEW v \in Vars, NEW r \in Vars, ManagedCopy(v, r)
  PROVE  IInv' /\ heap'.alive = heap.alive
<1>1. Sound(heap, born) /\ Ready(heap, born) /\ born \subseteq Objects
  BY DEF IInv, Ready
<1>2. v \in Plain /\ heap.ptr[v] = Empty /\ r # v /\ r \in Pointers /\ born' = born
  BY DEF ManagedCopy, Fresh, Plain, Pointers, Does
<1>3. CASE get(heap, r) = NoObject \/ is_managed(heap, r)
  <2>1. heap' = Copy(heap, v, r)
    BY <1>3 DEF ManagedCopy, Does
  <2>2. Joins(heap, heap', born, v, r)
    BY <1>1, <1>2, <2>1, CopySound
  <2>. QED
    BY <1>1, <1>2, <2>2, ReadyAgain DEF IInv, Joins
<1>4. CASE ~(get(heap, r) = NoObject \/ is_managed(heap, r))
  <2>1. PICK o \in FromThis \cap heap.alive : o = get(heap, r)
    BY <1>4 DEF ManagedCopy, Live
  <2>2. heap' = ShareWith(auto_ptr_from_this(heap, o), v, o)
    BY <1>4, <2>1 DEF ManagedCopy, Does
  <2>3. Made(heap, heap', born, v)
    BY <1>1, <1>2, <2>2, FromSelfSound
  <2>. QED
    BY <1>1, <1>2, <2>3, MadeReady DEF IInv, Made
<1>. QED
  BY <1>3, <1>4

LEMMA DestroyInv ==
  ASSUME FewPointers, IInv, NEW v \in Vars, Destroy(v)
  PROVE  IInv' /\ Told(heap, heap', v)
<1>1. Sound(heap, born) /\ Ready(heap, born) /\ born \subseteq Objects /\ v \in Plain
  BY DEF IInv, Ready, Plain
<1>2. heap' = Drop(heap, v) /\ born' = born
  BY DEF Destroy, Does
<1>3. Dropped(heap, heap', born, v)
  BY <1>1, <1>2, DropSound
<1>4. IInv'
  BY <1>1, <1>2, <1>3, ReadyAgain DEF IInv, Dropped
<1>5. Told(heap, heap', v)
  BY <1>3 DEF Dropped, Tells, Told, Plain
<1>. QED
  BY <1>4, <1>5

LEMMA ReleaseInv ==
  ASSUME FewPointers, IInv, NEW v \in Vars, Release(v)
  PROVE  IInv' /\ heap'.alive = heap.alive
<1>1. Sound(heap, born) /\ Ready(heap, born) /\ born \subseteq Objects /\ v \in Plain
  BY DEF IInv, Ready, Plain
<1>2. heap' = release(heap, v) /\ born' = born
  BY DEF Release, Does
<1>3. Sound(heap', born) /\ Others(heap, heap', {v})
  BY <1>1, <1>2, ReleaseSound
<1>4. release(heap, v).alive = heap.alive
  BY <1>1 DEF release, Sound, Solid, IsHeap
<1>. QED
  BY <1>1, <1>2, <1>3, <1>4, ReadyAgain DEF IInv

LEMMA AssignInv ==
  ASSUME FewPointers, IInv, NEW v \in Vars,
         Assign(v) \/ \E r \in Vars : AssignFrom(v, r) \/ HandOver(v, r)
  PROVE  IInv' /\ Told(heap, heap', v)
<1>1. Ready(heap, born) /\ born \subseteq Objects /\ born' = born
  BY DEF IInv, Assign, AssignFrom, HandOver, Does
<1>2. CASE Assign(v)
  <2>1. Assigned(heap, heap', born, v)
    BY <1>1, <1>2, AssignSound DEF Assign, Does, Live
  <2>. QED
    BY <1>1, <2>1 DEF IInv, Assigned
<1>3. ASSUME NEW r \in Vars, AssignFrom(v, r) PROVE IInv' /\ Told(heap, heap', v)
  <2>1. Assigned(heap, heap', born, v)
    BY <1>1, <1>3, AssignFromSound DEF AssignFrom, Does
  <2>. QED
    BY <1>1, <2>1 DEF IInv, Assigned
<1>4. ASSUME NEW r \in Vars, HandOver(v, r) PROVE IInv' /\ Told(heap, heap', v)
  <2>1. Assigned(heap, heap', born, v)
    BY <1>1, <1>4, HandOverSound DEF HandOver, Does
  <2>. QED
    BY <1>1, <2>1 DEF IInv, Assigned
<1>. QED
  BY <1>2, <1>3, <1>4

LEMMA NextInv == FewPointers /\ IInv /\ [Next]_vars => IInv'
<1> SUFFICES ASSUME FewPointers, IInv, [Next]_vars PROVE IInv'
  OBVIOUS
<1>1. CASE UNCHANGED vars
  BY <1>1 DEF vars, IInv
<1>2. ASSUME NEW o \in Objects, New(o) \/ MakeShared(o) \/ DeleteByHand(o) \/ ResetOutside(o) PROVE IInv'
  BY <1>2, NewInv, DeleteByHandInv, ResetOutsideInv
<1>3. ASSUME NEW v \in Vars, Construct(v) \/ Destroy(v) \/ Assign(v) \/ Release(v) PROVE IInv'
  BY <1>3, ConstructInv, DestroyInv, AssignInv, ReleaseInv
<1>4. ASSUME NEW v \in Vars, NEW r \in Vars,
             ConstructFrom(v, r) \/ ManagedCopy(v, r) \/ AssignFrom(v, r) \/ HandOver(v, r)
      PROVE  IInv'
  BY <1>4, ConstructFromInv, ManagedCopyInv, AssignInv
<1>. QED
  BY <1>1, <1>2, <1>3, <1>4 DEF Next

-----------------------------------------------------------------------------
(***************************************************************************)
(* Theorems                                                                *)
(***************************************************************************)

LEMMA TypeInv == FewPointers /\ IInv => TypeOK /\ CountersExact
<1> SUFFICES ASSUME FewPointers, IInv PROVE TypeOK /\ CountersExact
  OBVIOUS
<1>1. /\ IsHeap(heap) /\ Counted(heap) /\ Callers(heap) /\ Within(heap, born) /\ born \subseteq Objects
  BY DEF IInv, Ready, Sound, Solid
<1>2. \A b \in DOMAIN heap.share : heap.share[b].counter = Cardinality({v \in Pointers : heap.ptr[v].share = b})
  BY <1>1 DEF Counted, Users
<1>3. ASSUME NEW b \in DOMAIN heap.share
      PROVE  heap.share[b] \in [counter : Counters, valid : BOOLEAN, managed : BOOLEAN]
  <2>1. {v \in Pointers : heap.ptr[v].share = b} \in SUBSET Pointers
    OBVIOUS
  <2>2. PICK c : c = Cardinality({v \in Pointers : heap.ptr[v].share = b})
    OBVIOUS
  <2>3. c \in Nat /\ c <= Cardinality(Pointers) /\ Cardinality(Pointers) \in Nat
    BY <2>1, <2>2, PointersFinite
  <2>4. c \in Counters
    BY <2>3, HeapAssumption DEF FewPointers, Counters
  <2>5. heap.share[b] \in Block /\ heap.share[b].counter = c
    BY <1>1, <1>2, <2>2 DEF IsHeap
  <2>. QED
    BY <2>4, <2>5 DEF Block
<1>4. CountersExact
  BY <1>1, <1>2 DEF CountersExact, Counted
<1>5. TypeOK
  BY <1>1, <1>3 DEF TypeOK, IsHeap, Pointer, Callers, Within
<1>. QED
  BY <1>4, <1>5

LEMMA ConsistentInv == FewPointers /\ IInv => HeapConsistent
<1> SUFFICES ASSUME FewPointers, IInv PROVE HeapConsistent
  OBVIOUS
<1>1. Owning(heap)
  BY DEF IInv, Ready, Sound, Solid
<1>2. \A v \in Pointers : is_owner(heap, v) =>
        get(heap, v) = IF heap.ptr[v].own \in Live THEN heap.ptr[v].own ELSE NoObject
  BY <1>1 DEF Owning, is_owner, Live
<1>. QED
  BY <1>2, TypeInv DEF HeapConsistent

LEMMA OneOwnerInv == IInv => OneOwner
<1> SUFFICES ASSUME IInv, NEW o \in Live
             PROVE  Cardinality(Owners(o)) + Cardinality({o} \cap heap.raw)
                      + (IF Sharers(o) # {} \/ o \in heap.outside THEN 1 ELSE 0) = 1
  BY DEF OneOwner
<1>1. /\ IsHeap(heap) /\ Owning(heap) /\ Sharing(heap) /\ Owned(heap) /\ Callers(heap)
      /\ o \in heap.alive /\ o \in Objects /\ o # NoObject
  BY HeapAssumption DEF IInv, Ready, Sound, Solid, IsHeap, Live
<1>2. Cardinality({}) = 0 /\ \A x : Cardinality({x}) = 1
  BY FS_EmptySet, FS_Singleton
<1>3. CASE o \in SharedObjects
  <2>1. Owners(o) = {}
    BY <1>1, <1>3 DEF Owners, Owning
  <2>2. {o} \cap heap.raw = {}
    BY <1>3, <1>1 DEF Callers
  <2>3. Sharers(o) # {} \/ o \in heap.outside
    BY <1>1, <1>3 DEF Owned, Sharers
  <2>. QED
    BY <1>2, <2>1, <2>2, <2>3
<1>4. CASE o \notin SharedObjects
  <2>1. Sharers(o) = {} /\ o \notin heap.outside
    BY <1>1, <1>4 DEF Sharers, Sharing, Callers
  <2>2. CASE o \in heap.raw
    <3>1. Owners(o) = {}
      BY <1>1, <2>2 DEF Owners, Owning
    <3>2. {o} \cap heap.raw = {o}
      BY <2>2
    <3>. QED
      <4>1. Cardinality(Owners(o)) = 0 /\ Cardinality({o} \cap heap.raw) = 1
        BY <1>2, <3>1, <3>2
      <4>. QED
        BY <2>1, <4>1
  <2>3. CASE o \notin heap.raw
    <3>1. PICK v \in Pointers : heap.ptr[v].own = o
      BY <1>1, <1>4, <2>3 DEF Owned
    <3>2. Owners(o) = {v}
      BY <1>1, <3>1 DEF Owners, Owning
    <3>3. {o} \cap heap.raw = {}
      BY <2>3
    <3>. QED
      <4>1. Cardinality(Owners(o)) = 1 /\ Cardinality({o} \cap heap.raw) = 0
        BY <1>2, <3>2, <3>3
      <4>. QED
        BY <2>1, <4>1
  <2>. QED
    BY <2>2, <2>3
<1>. QED
  BY <1>3, <1>4

LEMMA NeverDanglesInv == IInv => ManagedNeverDangles
<1> SUFFICES ASSUME IInv, NEW v \in Pointers, is_managed(heap, v), get(heap, v) \notin SharedObjects
             PROVE  get(heap, v) \in Live
  BY DEF ManagedNeverDangles
<1>1. /\ IsHeap(heap) /\ Owning(heap) /\ SelfPointers(heap) /\ Managed(heap)
  BY DEF IInv, Ready, Sound, Solid
<1>2. get(heap, v) # NoObject /\ heap.ptr[v].share # NoBlock /\ get(heap, v) \in Objects
  BY <1>1 DEF is_managed, get, valid, IsHeap, Pointer
<1>3. PICK w \in Pointers : Keeps(heap, w, v)
  BY <1>1, <1>2 DEF Managed, ManagedBut
<1>4. CASE heap.ptr[w].own = get(heap, v)
  BY <1>1, <1>2, <1>3, <1>4 DEF Keeps, Owning, Live
<1>5. CASE w = get(heap, v)
  <2>1. w \in FromThis
    BY <1>2, <1>5, HeapAssumption DEF Pointers
  <2>2. get(heap, w) # NoObject
    BY <1>2, <1>3 DEF Keeps
  <2>3. heap.ptr[w] # Empty
    BY <2>2, EmptyPointer DEF get, Empty, valid
  <2>. QED
    BY <1>1, <1>5, <2>1, <2>3 DEF SelfPointers, Live
<1>. QED
  BY <1>3, <1>4, <1>5 DEF Keeps

\* The heap stays sound, whatever the program does.
THEOREM Invariance == ASSUME FewPointers PROVE Spec => []IInv
<1>1. IInv /\ [Next]_vars => IInv'
  BY NextInv
<1>. QED
  BY <1>1, InitInv, PTL DEF Spec

\* Nothing is deleted twice, and no block is counted or released after it is
\* gone, in any order of transfers, assignments and destructions.
THEOREM NeverBroken == ASSUME FewPointers PROVE Spec => []NothingBroken
<1>1. IInv => NothingBroken
  BY DEF IInv, Ready, Sound, Solid, Counted, NothingBroken
<1>. QED
  BY <1>1, Invariance, PTL

\* An object that is alive has one who deletes it and no second: no transfer
\* leaks it and none leaves two owners.
THEOREM AlwaysOneOwner == ASSUME FewPointers PROVE Spec => []OneOwner
BY OneOwnerInv, Invariance, PTL

\* Every block counts the pointers that share it, and its counter does not
\* overflow; an owner points to its object until that is deleted by hand.
THEOREM Consistent == ASSUME FewPointers PROVE Spec => []HeapConsistent
<1>1. IInv => HeapConsistent
  BY ConsistentInv
<1>. QED
  BY <1>1, Invariance, PTL

\* A pointer that says it is managed points to an object that is alive, or to
\* one of std::shared_ptr.
THEOREM NeverDangles == ASSUME FewPointers PROVE Spec => []ManagedNeverDangles
BY NeverDanglesInv, Invariance, PTL

-----------------------------------------------------------------------------
(***************************************************************************)
(* The last share                                                          *)
(***************************************************************************)

\* The step of LastShareTells.
Telling ==
  \A o \in SharedObjects, v, w \in Vars :
       /\ o \in heap.alive \ heap'.alive /\ heap'.outside = heap.outside
       /\ Sharers(o) = {v} /\ w # v /\ heap.ptr[w].share = heap.ptr[v].share
       => get(heap', w) # o

LEMMA ToldTelling ==
  ASSUME NEW x \in Vars, Told(heap, heap', x)
  PROVE  Telling
<1>1. SUFFICES ASSUME NEW o \in SharedObjects, NEW v \in Vars, NEW w \in Vars,
                      o \in heap.alive, o \notin heap'.alive, Sharers(o) = {v}, w # v,
                      heap.ptr[w].share = heap.ptr[v].share
               PROVE  get(heap', w) # o
  BY DEF Telling
<1>2. heap.ptr[x].strong = o
  BY <1>1 DEF Told
<1>3. x = v
  BY <1>1, <1>2 DEF Sharers, Pointers
<1>4. get(heap', w) = NoObject
  BY <1>1, <1>3 DEF Told
<1>. QED
  BY <1>4, HeapAssumption, SharedAssumption

LEMMA KeptTelling ==
  ASSUME heap.alive \cap SharedObjects \subseteq heap'.alive
  PROVE  Telling
BY DEF Telling

LEMMA ObjectTelling ==
  ASSUME FewPointers, IInv, NEW o \in Objects, New(o) \/ MakeShared(o) \/ DeleteByHand(o) \/ ResetOutside(o)
  PROVE  Telling
<1>1. IsHeap(heap) /\ Counted(heap) /\ Callers(heap)
  BY DEF IInv, Ready, Sound, Solid
<1>2. CASE New(o) \/ MakeShared(o)
  <2>1. heap'.alive = heap.alive \cup {o}
    BY <1>1, <1>2 DEF New, MakeShared, IsHeap
  <2>. QED
    BY <2>1, KeptTelling
<1>3. CASE DeleteByHand(o)
  <2>1. o \in heap.alive \ SharedObjects /\ heap' = Delete(heap, o)
    BY <1>1, <1>3 DEF DeleteByHand, Does, Live, Callers
  <2>2. Deleted(heap, heap', o)
    BY <1>1, <2>1, DeleteEffect
  <2>3. heap'.alive = heap.alive \ {o}
    BY <2>2 DEF Deleted
  <2>. QED
    BY <2>1, <2>3, KeptTelling
<1>4. CASE ResetOutside(o)
  <2>1. PICK g : g = [heap EXCEPT !.outside = @ \ {o}]
    OBVIOUS
  <2>2. o \in heap.outside /\ heap' = IF use_count(g, o) = 0 THEN Delete(g, o) ELSE g
    BY <1>4, <2>1, Zenon DEF ResetOutside, Does
  <2>3. PICK A \in SUBSET Objects, R \in SUBSET Objects, U \in SUBSET Objects :
          A = heap.alive /\ R = heap.raw /\ U = heap.outside \ {o}
    <3>1. heap.alive \in SUBSET Objects /\ heap.raw \in SUBSET Objects /\ heap.outside \ {o} \in SUBSET Objects
      BY <1>1 DEF IsHeap
    <3>. QED
      BY <3>1
  <2>4. g = SetObjects(heap, A, R, U)
    BY <1>1, <2>1, <2>3 DEF SetObjects, IsHeap
  <2>5. IsHeap(g) /\ Counted(g) /\ g.alive = A /\ g.outside = U
    <3>1. Shrunk(heap, g, {}, {}, {}, {}) /\ g.alive = A /\ g.outside = U
      BY <1>1, <2>4, ObjectsShrunk
    <3>. QED
      BY <3>1 DEF Shrunk
  <2>6. o \in g.alive
    BY <1>1, <2>2, <2>3, <2>5 DEF Callers
  <2>7. Delete(g, o).outside = U
    BY <2>5, <2>6, DeleteEffect DEF Deleted
  <2>8. heap'.outside = U
    BY <2>2, <2>5, <2>7
  <2>9. heap'.outside # heap.outside
    BY <2>2, <2>3, <2>8
  <2>. QED
    BY <2>9 DEF Telling
<1>. QED
  BY <1>2, <1>3, <1>4

LEMMA NextTelling == FewPointers /\ IInv /\ [Next]_vars => [Telling]_vars
<1> SUFFICES ASSUME FewPointers, IInv, Next PROVE Telling
  OBVIOUS
<1>1. ASSUME NEW o \in Objects, New(o) \/ MakeShared(o) \/ DeleteByHand(o) \/ ResetOutside(o) PROVE Telling
  BY <1>1, ObjectTelling
<1>2. ASSUME NEW v \in Vars, Construct(v) \/ Release(v) PROVE Telling
  BY <1>2, ConstructInv, ReleaseInv, KeptTelling
<1>3. ASSUME NEW v \in Vars, Destroy(v) \/ Assign(v) PROVE Telling
  BY <1>3, DestroyInv, AssignInv, ToldTelling
<1>4. ASSUME NEW v \in Vars, NEW r \in Vars, ConstructFrom(v, r) \/ ManagedCopy(v, r) PROVE Telling
  BY <1>4, ConstructFromInv, ManagedCopyInv, KeptTelling
<1>5. ASSUME NEW v \in Vars, NEW r \in Vars, AssignFrom(v, r) \/ HandOver(v, r) PROVE Telling
  BY <1>5, AssignInv, ToldTelling
<1>. QED
  BY <1>1, <1>2, <1>3, <1>4, <1>5 DEF Next

\* When the last auto_ptr that shares an object goes, in whatever operation, and
\* no std::shared_ptr holds the object, all pointers of its block have become
\* nullptr.
THEOREM LastShare == ASSUME FewPointers PROVE Spec => LastShareTells
<1>1. IInv /\ [Next]_vars => [Telling]_vars
  BY NextTelling
<1>2. Spec => [][Telling]_vars
  BY <1>1, Invariance, PTL DEF Spec
<1>. QED
  BY <1>2 DEF LastShareTells, Telling

==============
