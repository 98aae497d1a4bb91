---------------------------- MODULE AutoPtrTests ----------------------------
(***************************************************************************)
(* The unit tests of WS::auto_ptr (auto_ptr/auto_ptr.cpp) as scripts over  *)
(* the operators of AutoPtrHeap.  A script is a sequence of steps, tuples  *)
(* of a name and its arguments: p, q, r, s are the auto_ptr variables of a *)
(* test, c1, c2, c3 the elements of an auto_ptr_vw, the capital letters    *)
(* objects of a class with enable_auto_ptr_from_this and the small ones    *)
(* other objects.  Parameters and results of lambdas are variables too.    *)
(* What a test asserts is a step as well: see Check.                       *)
(***************************************************************************)
EXTENDS AutoPtrHeap, Sequences

Elements == {"c1", "c2", "c3"}

Made(h, o) == [h EXCEPT !.alive = @ \cup {o}, !.raw = @ \cup {o}]

\* v becomes what Tmp2 has been made, which is then destroyed.
Becomes(h, v) == Drop(MoveAssign(h, v, Tmp2), Tmp2)

\* The parameter auto_ptr_owner_parameter, which goes on into v.
Accepts(h, r) == is_manager(h, r) \/ get(h, r) = NoObject
HandedOver(h, v, r) == IF Accepts(h, r) THEN Becomes(Move(h, Tmp2, r), v) ELSE h

\* auto_ptr_vw
Found(h, o) == {c \in Elements : o # NoObject /\ get(h, c) = o}

erase(h, v, o) ==
  IF Found(h, o) = {} THEN h
  ELSE LET c == CHOOSE x \in Found(h, o) : TRUE IN Drop(Move(h, v, c), c)

replace(h, v, o, n) ==
  IF Found(h, o) = {} THEN h
  ELSE LET c == CHOOSE x \in Found(h, o) : TRUE
       IN Becomes(FromPointer(Made(Move(h, v, c), n), Tmp2, n, TRUE, TRUE), c)

\* A temporary of another class, and the auto_this of an object.
Other(h, o) == FromUnique(Made(h, o), Tmp2, o)
This(h, o) == ShareWith(auto_ptr_from_this(h, o), Tmp2, o)

\* One step of a script.
Do(h, s) ==
  CASE s[1] = "new"       -> Made(h, s[2])
    [] s[1] = "delete"    -> Delete(h, s[2])
    [] s[1] = "point"     -> PointerAssign(h, s[2], s[3])
    [] s[1] = "null"      -> PointerAssign(h, s[2], NoObject)
    [] s[1] = "unique"    -> UniqueAssign(Made(h, s[3]), s[2], s[3])
    [] s[1] = "shared"    -> SharedAssign([h EXCEPT !.alive = @ \cup {s[3]}], s[2], s[3])
    [] s[1] = "this"      -> Becomes(This(h, s[3]), s[2])
    [] s[1] = "copy"      -> CopyAssign(h, s[2], s[3])
    [] s[1] = "weak"      -> Becomes(weak(h, Tmp2, s[3]), s[2])
    [] s[1] = "move"      -> MoveAssign(h, s[2], s[3])
    [] s[1] = "cast"      -> CastAssign(h, s[2], s[3], s[4])
    [] s[1] = "moveCast"  -> MoveCastAssign(h, s[2], s[3], s[4])
    [] s[1] = "uniqueOf"  -> Drop(MoveCastAssign(Other(h, s[3]), s[2], Tmp2, s[4]), Tmp2)
    [] s[1] = "thisOf"    -> Drop(CastAssign(This(h, s[3]), s[2], Tmp2, s[4]), Tmp2)
    [] s[1] = "own"       -> HandedOver(h, s[2], s[3])
    [] s[1] = "discard"   -> Drop(Move(h, Tmp2, s[2]), Tmp2)
    [] s[1] = "release"   -> release(h, s[2])
    [] s[1] = "drop"      -> Drop(h, s[2])
    [] s[1] = "erase"     -> erase(h, s[2], s[3])
    [] s[1] = "replace"   -> replace(h, s[2], s[3], s[4])
    [] OTHER              -> h

\* What a test asserts.
Check(h, s) ==
  CASE s[1] = "empty"     -> \A v \in s[2] : get(h, v) = NoObject
    [] s[1] = "there"     -> \A v \in s[2] : get(h, v) # NoObject
    [] s[1] = "is"        -> get(h, s[2]) = s[3]
    [] s[1] = "same"      -> \A v, w \in s[2] : get(h, v) = get(h, w)
    [] s[1] = "owners"    -> {v \in Vars : is_owner(h, v)} = s[2]
    [] s[1] = "sharers"   -> {v \in Vars : is_shared_ptr(h, v)} = s[2]
    [] s[1] = "managed"   -> \A v \in s[2] : is_managed(h, v)
    [] s[1] = "unmanaged" -> \A v \in s[2] : ~is_managed(h, v)
    [] s[1] = "refuses"   -> ~Accepts(h, s[2])
    [] s[1] = "alive"     -> h.alive = s[2]
    [] OTHER              -> TRUE

-----------------------------------------------------------------------------
(***************************************************************************)
(* UT_managed_auto_ptr                                                     *)
(***************************************************************************)

managed_auto_ptr_nullptr == <<<<"null", "p">>, <<"copy", "p", "q">>, <<"null", "q">>, <<"copy", "p", "q">>, <<"empty", {"p", "q"}>>>>

managed_auto_ptr_owner ==
  <<<<"unique", "p", "a">>, <<"managed", {"p"}>>, <<"copy", "p", "p">>, <<"there", {"p"}>>,
    <<"unique", "q", "b">>, <<"copy", "p", "q">>, <<"managed", {"p", "q"}>>, <<"alive", {"b"}>>,
    <<"new", "c">>, <<"point", "r", "c">>, <<"unmanaged", {"r"}>>, <<"refuses", "r">>>>

\* A is the object a of the test, B its b: of class A, or of class B, to which q
\* is bound.
managed_auto_ptr_auto_ptr_from_this ==
  <<<<"new", "A">>, <<"new", "B">>, <<"null", "p">>, <<"this", "p", "A">>, <<"managed", {"p"}>>,
    <<"null", "p">>, <<"empty", {"p"}>>, <<"point", "p", "A">>, <<"managed", {"p"}>>,
    <<"this", "p", "B">>, <<"is", "p", "B">>, <<"null", "p">>, <<"point", "p", "B">>, <<"is", "p", "B">>,
    <<"thisOf", "q", "A", FALSE>>, <<"empty", {"q"}>>, <<"this", "q", "B">>, <<"is", "q", "B">>,
    <<"null", "q">>, <<"empty", {"q"}>>, <<"point", "q", "B">>, <<"same", {"p", "q"}>>,
    <<"delete", "B">>, <<"delete", "A">>, <<"empty", {"p", "q"}>>>>

managed_from_unmanaged_auto_ptr ==
  <<<<"new", "A">>, <<"new", "B">>, <<"new", "c">>, <<"point", "r", "B">>, <<"point", "r", "A">>, <<"copy", "p", "r">>,
    <<"managed", {"p"}>>, <<"cast", "q", "r", FALSE>>, <<"empty", {"q"}>>, <<"null", "r">>,
    <<"unique", "s", "d">>, <<"copy", "q", "s">>, <<"managed", {"q"}>>, <<"owners", {"s"}>>,
    <<"point", "r", "c">>, <<"refuses", "r">>, <<"drop", "s">>, <<"empty", {"q"}>>,
    <<"unique", "p", "C">>, <<"managed", {"p"}>>, <<"owners", {"p"}>>,
    <<"uniqueOf", "q", "a", FALSE>>, <<"empty", {"q"}>>, <<"uniqueOf", "q", "D", TRUE>>, <<"is", "q", "D">>,
    <<"owners", {"p", "q"}>>, <<"alive", {"A", "B", "c", "C", "D"}>>>>

\* The middle element is destroyed where it lies, and another made in its place.
managed_auto_ptr_sorted_set ==
  <<<<"new", "A">>, <<"new", "B">>, <<"new", "C">>, <<"this", "p", "A">>, <<"this", "q", "B">>, <<"this", "r", "C">>,
    <<"copy", "s", "q">>, <<"there", {"p", "q", "r", "s"}>>, <<"delete", "B">>, <<"empty", {"q", "s"}>>,
    <<"there", {"p", "r"}>>, <<"new", "B">>, <<"empty", {"q", "s"}>>>>

-----------------------------------------------------------------------------
(***************************************************************************)
(* Casts and comparisons.                                                  *)
(***************************************************************************)

auto_ptr_constcast ==
  <<<<"unique", "p", "a">>, <<"cast", "q", "p", TRUE>>, <<"cast", "r", "q", TRUE>>, <<"same", {"p", "q", "r"}>>,
    <<"cast", "q", "p", TRUE>>, <<"cast", "r", "q", TRUE>>, <<"cast", "q", "r", TRUE>>, <<"owners", {"p"}>>,
    <<"null", "p">>, <<"empty", {"q", "r"}>>>>

auto_ptr_from_const_cast ==
  <<<<"unique", "p", "a">>, <<"cast", "q", "p", TRUE>>, <<"cast", "r", "q", TRUE>>, <<"same", {"p", "q", "r"}>>,
    <<"null", "p">>, <<"empty", {"q", "r"}>>>>

auto_ptr__compare == <<<<"empty", {"p"}>>, <<"unique", "p", "a">>, <<"there", {"p"}>>>>

auto_ptr__inherit == <<<<"uniqueOf", "p", "a", TRUE>>, <<"uniqueOf", "p", "b", TRUE>>, <<"alive", {"b"}>>>>

auto_ptr__compare_inherit ==
  <<<<"new", "a">>, <<"point", "s", "a">>, <<"cast", "p", "s", TRUE>>, <<"drop", "s">>, <<"cast", "q", "p", TRUE>>,
    <<"cast", "r", "q", TRUE>>, <<"same", {"p", "q", "r"}>>, <<"new", "b">>, <<"point", "p", "b">>,
    <<"cast", "q", "p", FALSE>>, <<"empty", {"q"}>>, <<"there", {"p", "r"}>>>>

cast_multiple_inheritance ==
  <<<<"unique", "p", "a">>, <<"cast", "q", "p", TRUE>>, <<"cast", "r", "p", TRUE>>, <<"owners", {"p"}>>,
    <<"moveCast", "r", "p", TRUE>>, <<"owners", {"r"}>>, <<"same", {"p", "q", "r"}>>>>

dtor_cast_inherit ==
  <<<<"new", "a">>, <<"new", "b">>, <<"point", "p", "a">>, <<"point", "p", "b">>, <<"is", "p", "b">>, <<"point", "q", "b">>,
    <<"there", {"q"}>>, <<"point", "p", "a">>, <<"cast", "q", "p", FALSE>>, <<"empty", {"q"}>>,
    <<"delete", "b">>, <<"delete", "a">>, <<"alive", {}>>>>

dtor_cast_const ==
  <<<<"new", "a">>, <<"point", "p", "a">>, <<"cast", "q", "p", TRUE>>, <<"same", {"p", "q"}>>,
    <<"moveCast", "q", "p", TRUE>>, <<"is", "p", "a">>, <<"same", {"p", "q"}>>>>

\* An owner stays the owner when the cast fails.
UT_auto_ptr_owner_cast ==
  <<<<"uniqueOf", "p", "a", TRUE>>, <<"owners", {"p"}>>, <<"moveCast", "q", "p", TRUE>>, <<"owners", {"q"}>>,
    <<"same", {"p", "q"}>>, <<"unique", "p", "b">>, <<"owners", {"p", "q"}>>, <<"moveCast", "r", "p", FALSE>>,
    <<"owners", {"p", "q"}>>, <<"empty", {"r"}>>, <<"unique", "p", "c">>, <<"moveCast", "q", "p", FALSE>>,
    <<"owners", {"p"}>>, <<"empty", {"r"}>>, <<"alive", {"c"}>>, <<"move", "s", "p">>, <<"owners", {"s"}>>>>

-----------------------------------------------------------------------------
(***************************************************************************)
(* Copies, parameters, transfer of the ownership.                          *)
(***************************************************************************)

auto_ptr__copy_leer == <<<<"copy", "q", "p">>, <<"empty", {"q"}>>>>

auto_ptr__copy_ownerless ==
  <<<<"new", "a">>, <<"point", "p", "a">>, <<"owners", {}>>, <<"is", "p", "a">>, <<"copy", "q", "p">>,
    <<"owners", {}>>, <<"is", "p", "a">>, <<"is", "q", "a">>>>

auto_ptr__comp_nullptr == <<<<"empty", {"p"}>>, <<"unique", "p", "a">>, <<"there", {"p"}>>>>

auto_ptr__as_parameter_rvalueref_release ==
  <<<<"unique", "p", "a">>, <<"owners", {"p"}>>, <<"discard", "p">>, <<"owners", {}>>, <<"empty", {"p"}>>, <<"alive", {}>>>>

auto_ptr__as_parameter_lvalueref ==
  <<<<"unique", "p", "a">>, <<"copy", "q", "p">>, <<"there", {"q"}>>, <<"owners", {"p"}>>, <<"discard", "q">>,
    <<"there", {"p", "q"}>>, <<"owners", {"p"}>>, <<"discard", "p">>, <<"empty", {"p", "q"}>>>>

\* p is ptr, q is ptr_owner: takeownership, releaseptr, moveit, assignit.
auto_ptr__as_parameter_rvalueref ==
  <<<<"unique", "p", "a">>, <<"owners", {"p"}>>, <<"move", "q", "p">>, <<"owners", {"q"}>>, <<"same", {"p", "q"}>>,
    <<"there", {"p"}>>, <<"discard", "q">>, <<"empty", {"p", "q"}>>,
    <<"unique", "p", "b">>, <<"move", "q", "p">>, <<"owners", {"q"}>>, <<"same", {"p", "q"}>>,
    <<"unique", "p", "c">>, <<"copy", "q", "p">>, <<"owners", {"p"}>>, <<"same", {"p", "q"}>>, <<"alive", {"c"}>>>>

\* s is the parameter.
auto_ptr__as_parameter_copy ==
  <<<<"unique", "p", "a">>, <<"copy", "s", "p">>, <<"drop", "s">>, <<"owners", {"p"}>>,
    <<"move", "s", "p">>, <<"drop", "s">>, <<"empty", {"p"}>>, <<"unique", "p", "b">>,
    <<"copy", "s", "p">>, <<"move", "q", "s">>, <<"drop", "s">>, <<"owners", {"p"}>>, <<"same", {"p", "q"}>>,
    <<"move", "s", "p">>, <<"move", "q", "s">>, <<"drop", "s">>, <<"owners", {"q"}>>, <<"same", {"p", "q"}>>,
    <<"unique", "p", "c">>, <<"move", "s", "p">>, <<"move", "q", "s">>, <<"drop", "s">>, <<"owners", {"q"}>>, <<"is", "p", "c">>>>

auto_ptr_assign ==
  <<<<"unique", "p", "a">>, <<"copy", "q", "p">>, <<"owners", {"p"}>>, <<"same", {"p", "q"}>>, <<"drop", "q">>, <<"drop", "p">>,
    <<"unique", "p", "b">>, <<"move", "q", "p">>, <<"owners", {"q"}>>, <<"same", {"p", "q"}>>, <<"there", {"p"}>>,
    <<"drop", "q">>, <<"empty", {"p"}>>>>

auto_ptr__ownership_transfer ==
  <<<<"unique", "p", "a">>, <<"move", "q", "p">>, <<"owners", {"q"}>>, <<"move", "r", "p">>, <<"owners", {"q"}>>,
    <<"same", {"p", "q", "r"}>>>>

-----------------------------------------------------------------------------
(***************************************************************************)
(* Objects that know their auto_ptr, and dangling pointers.                *)
(***************************************************************************)

auto_ptr_dangling_pointer ==
  <<<<"new", "A">>, <<"this", "p", "A">>, <<"point", "p", "A">>, <<"copy", "q", "p">>, <<"drop", "q">>, <<"drop", "p">>,
    <<"delete", "A">>, <<"new", "B">>, <<"new", "c">>, <<"point", "p", "B">>, <<"point", "q", "c">>, <<"there", {"p", "q"}>>,
    <<"alive", {"B", "c"}>>, <<"delete", "B">>, <<"delete", "c">>, <<"empty", {"p"}>>, <<"is", "q", "c">>>>

\* q is Ptr2, r is aPtr1, s is aPtr2 of the test.
auto_ptr_from_this_delete ==
  <<<<"unique", "p", "a">>, <<"delete", "a">>, <<"is", "p", "a">>, <<"release", "p">>, <<"drop", "p">>, <<"alive", {}>>,
    <<"unique", "p", "A">>, <<"copy", "q", "p">>, <<"this", "r", "A">>, <<"this", "s", "A">>, <<"owners", {"p"}>>,
    <<"delete", "A">>, <<"alive", {}>>, <<"null", "p">>, <<"empty", {"p", "q", "r", "s"}>>,
    <<"unique", "p", "B">>, <<"copy", "q", "p">>, <<"this", "r", "B">>, <<"this", "s", "B">>, <<"null", "p">>,
    <<"alive", {}>>, <<"empty", {"p", "q", "r", "s"}>>,
    <<"uniqueOf", "p", "C", TRUE>>, <<"copy", "q", "p">>, <<"this", "r", "C">>, <<"delete", "C">>, <<"alive", {}>>, <<"empty", {"p", "r"}>>,
    <<"uniqueOf", "s", "D", FALSE>>, <<"alive", {}>>, <<"empty", {"s"}>>>>

auto_ptr_from_unique_of_other_class ==
  <<<<"unique", "p", "a">>, <<"uniqueOf", "q", "b", TRUE>>, <<"uniqueOf", "r", "c", FALSE>>, <<"unique", "s", "d">>,
    <<"alive", {"a", "b", "d"}>>, <<"there", {"p", "q", "s"}>>, <<"empty", {"r"}>>,
    <<"drop", "s">>, <<"drop", "r">>, <<"drop", "q">>, <<"drop", "p">>, <<"alive", {}>>>>

test_auto_ptr_from_this ==
  <<<<"empty", {"p"}>>, <<"new", "A">>, <<"this", "p", "A">>, <<"is", "p", "A">>, <<"owners", {}>>, <<"delete", "A">>, <<"empty", {"p"}>>>>

\* Copying and moving an object leaves the auto_this of each alone.
auto_ptr_from_this_von_moved_objekt ==
  <<<<"new", "A">>, <<"this", "p", "A">>, <<"new", "B">>, <<"this", "q", "B">>, <<"is", "p", "A">>, <<"is", "q", "B">>,
    <<"new", "C">>, <<"this", "r", "C">>, <<"is", "p", "A">>, <<"is", "r", "C">>>>

auto_ptr_from_this_moved ==
  <<<<"new", "A">>, <<"new", "B">>, <<"this", "p", "A">>, <<"this", "q", "B">>, <<"new", "C">>, <<"delete", "C">>,
    <<"is", "p", "A">>, <<"is", "q", "B">>>>

\* The vector moves its elements when it grows: A becomes B.
auto_ptr_from_this_von_objekt_im_vector ==
  <<<<"new", "A">>, <<"this", "p", "A">>, <<"new", "B">>, <<"delete", "A">>, <<"new", "C">>, <<"this", "q", "C">>,
    <<"empty", {"p"}>>, <<"this", "p", "B">>, <<"is", "p", "B">>, <<"is", "q", "C">>>>

\* ... and auto_ptrs when they are its elements.
auto_ptr_als_owner_im_vector ==
  <<<<"unique", "c1", "A">>, <<"copy", "p", "c1">>, <<"move", "c3", "c1">>, <<"drop", "c1">>, <<"unique", "c2", "B">>,
    <<"copy", "q", "c2">>, <<"same", {"c3", "p"}>>, <<"same", {"c2", "q"}>>, <<"owners", {"c2", "c3"}>>,
    <<"drop", "c3">>, <<"drop", "c2">>, <<"empty", {"p", "q"}>>>>

shared_weak_ptr ==
  <<<<"shared", "p", "a">>, <<"there", {"p"}>>, <<"copy", "q", "p">>, <<"there", {"p", "q"}>>, <<"weak", "r", "p">>,
    <<"there", {"r"}>>, <<"move", "p", "s">>, <<"empty", {"p"}>>, <<"there", {"q", "r"}>>, <<"move", "q", "s">>,
    <<"empty", {"q", "r"}>>>>

-----------------------------------------------------------------------------
(***************************************************************************)
(* auto_ptr_owner_parameter; r is its data, s the result.                  *)
(***************************************************************************)

auto_ptr_owner_parameter ==
  <<<<"own", "r", "p">>, <<"empty", {"r"}>>, <<"unique", "r", "a">>, <<"drop", "r">>, <<"alive", {}>>,
    <<"shared", "p", "b">>, <<"own", "r", "p">>, <<"drop", "p">>, <<"alive", {"b"}>>, <<"drop", "r">>, <<"alive", {}>>,
    <<"unique", "p", "c">>, <<"own", "r", "p">>, <<"drop", "r">>, <<"drop", "p">>, <<"alive", {}>>,
    <<"new", "d">>, <<"point", "p", "d">>, <<"refuses", "p">>, <<"alive", {"d"}>>, <<"delete", "d">>, <<"alive", {}>>>>

uebergebe_ptr_als_owner_per_shared_ptr ==
  <<<<"shared", "p", "a">>, <<"sharers", {"p"}>>, <<"own", "r", "p">>, <<"move", "s", "r">>, <<"drop", "r">>,
    <<"sharers", {"p", "s"}>>, <<"same", {"p", "s"}>>, <<"discard", "s">>, <<"there", {"p", "s"}>>, <<"same", {"p", "s"}>>,
    <<"null", "s">>, <<"empty", {"s"}>>, <<"there", {"p"}>>, <<"shared", "p", "b">>, <<"alive", {"b"}>>,
    <<"shared", "r", "c">>, <<"move", "p", "r">>, <<"drop", "r">>, <<"is", "p", "c">>, <<"alive", {"c"}>>>>

uebergebe_ptr_als_owner ==
  <<<<"unique", "p", "a">>, <<"owners", {"p"}>>, <<"own", "r", "p">>, <<"move", "s", "r">>, <<"drop", "r">>,
    <<"owners", {"s"}>>, <<"same", {"p", "s"}>>, <<"discard", "s">>, <<"empty", {"p", "s"}>>, <<"alive", {}>>>>

uebergebe_ptr_als_owner_per_unique_ptr ==
  <<<<"unique", "r", "a">>, <<"move", "s", "r">>, <<"drop", "r">>, <<"is", "s", "a">>, <<"owners", {"s"}>>, <<"discard", "s">>, <<"empty", {"s"}>>>>

uebergebe_ptr_als_ownerless_exception == <<<<"new", "a">>, <<"point", "p", "a">>, <<"owners", {}>>, <<"refuses", "p">>>>

auto_ptr_owner_parameter_zugriff ==
  <<<<"unique", "r", "a">>, <<"move", "s", "r">>, <<"null", "r">>, <<"drop", "s">>, <<"empty", {"r"}>>,
    <<"unique", "r", "b">>, <<"move", "s", "r">>, <<"null", "r">>, <<"empty", {"r"}>>, <<"copy", "q", "s">>,
    <<"owners", {"s"}>>, <<"is", "q", "b">>, <<"drop", "s">>, <<"empty", {"q"}>>>>

-----------------------------------------------------------------------------
(***************************************************************************)
(* release(), and objects that are counted.                                *)
(***************************************************************************)

release_as_unique_ptr ==
  <<<<"unique", "p", "a">>, <<"owners", {"p"}>>, <<"release", "p">>, <<"is", "p", "a">>, <<"owners", {}>>, <<"delete", "a">>,
    <<"unique", "r", "b">>, <<"move", "p", "r">>, <<"null", "r">>, <<"owners", {"p"}>>, <<"release", "p">>, <<"delete", "b">>,
    <<"unique", "q", "c">>, <<"copy", "p", "q">>, <<"owners", {"q"}>>, <<"release", "p">>, <<"is", "p", "c">>, <<"owners", {"q"}>>>>

natvis_test ==
  <<<<"new", "a">>, <<"point", "p", "a">>, <<"unmanaged", {"p"}>>, <<"release", "p">>, <<"is", "p", "a">>, <<"drop", "p">>,
    <<"unique", "p", "b">>, <<"managed", {"p"}>>, <<"release", "p">>, <<"unmanaged", {"p"}>>, <<"drop", "p">>, <<"delete", "b">>,
    <<"shared", "p", "c">>, <<"managed", {"p"}>>, <<"release", "p">>, <<"managed", {"p"}>>, <<"copy", "q", "p">>, <<"null", "q">>,
    <<"managed", {"p"}>>, <<"drop", "p">>, <<"new", "A">>, <<"this", "p", "A">>, <<"is", "p", "A">>, <<"managed", {"p"}>>,
    <<"delete", "A">>, <<"empty", {"p"}>>>>

dtor_counter ==
  <<<<"new", "a">>, <<"point", "p", "a">>, <<"is", "p", "a">>, <<"delete", "a">>, <<"alive", {}>>, <<"is", "p", "a">>,
    <<"unique", "p", "b">>, <<"copy", "q", "p">>, <<"alive", {"b"}>>, <<"unique", "p", "c">>, <<"alive", {"c"}>>,
    <<"there", {"p"}>>, <<"empty", {"q"}>>, <<"drop", "q">>, <<"drop", "p">>, <<"alive", {}>>>>

dtor_counter_shared ==
  <<<<"shared", "p", "a">>, <<"copy", "q", "p">>, <<"copy", "r", "p">>, <<"alive", {"a"}>>, <<"shared", "p", "b">>,
    <<"alive", {"a", "b"}>>, <<"there", {"p", "q"}>>, <<"drop", "r">>, <<"drop", "q">>, <<"drop", "p">>, <<"alive", {}>>>>

-----------------------------------------------------------------------------
(***************************************************************************)
(* auto_ptr_vw: a container whose elements own or share.                   *)
(***************************************************************************)

add_values ==
  <<<<"unique", "c1", "a">>, <<"copy", "p", "c1">>, <<"owners", {"c1"}>>, <<"is", "p", "a">>,
    <<"unique", "c2", "b">>, <<"shared", "c3", "c">>, <<"owners", {"c1", "c2"}>>, <<"sharers", {"c3"}>>,
    <<"copy", "q", "c2">>, <<"copy", "r", "c3">>, <<"owners", {"c1", "c2"}>>, <<"there", {"p", "q", "r"}>>,
    <<"drop", "c1">>, <<"drop", "c2">>, <<"drop", "c3">>, <<"empty", {"p", "q"}>>, <<"sharers", {"r"}>>>>

erase_value ==
  <<<<"unique", "p", "a">>, <<"unique", "q", "b">>, <<"shared", "r", "c">>, <<"own", "c1", "p">>, <<"own", "c2", "q">>, <<"own", "c3", "r">>, <<"null", "r">>,
    <<"erase", "s", "b">>, <<"is", "s", "b">>, <<"owners", {"c1", "s"}>>, <<"drop", "s">>, <<"erase", "s", "b">>, <<"empty", {"s"}>>,
    <<"erase", "s", "c">>, <<"sharers", {"s"}>>, <<"weak", "r", "s">>, <<"is", "r", "c">>, <<"drop", "s">>, <<"empty", {"r"}>>,
    <<"erase", "s", "a">>, <<"is", "s", "a">>, <<"owners", {"s"}>>, <<"drop", "s">>, <<"erase", "s", "a">>, <<"empty", {"s"}>>, <<"alive", {}>>>>

replace_value ==
  <<<<"unique", "c1", "a">>, <<"unique", "c2", "b">>, <<"shared", "c3", "c">>,
    <<"replace", "s", "b", "d">>, <<"is", "s", "b">>, <<"owners", {"c1", "c2", "s"}>>, <<"drop", "s">>,
    <<"replace", "s", "c", "b">>, <<"is", "s", "c">>, <<"sharers", {"s"}>>, <<"drop", "s">>,
    <<"replace", "s", "a", "c">>, <<"is", "s", "a">>, <<"owners", {"c1", "c2", "c3", "s"}>>, <<"drop", "s">>,
    <<"is", "c1", "c">>, <<"is", "c2", "d">>, <<"is", "c3", "b">>>>

auto_ptr_vw__container ==
  <<<<"unique", "c1", "a">>, <<"alive", {"a"}>>, <<"erase", "s", NoObject>>, <<"replace", "s", NoObject, "b">>,
    <<"empty", {"s"}>>, <<"copy", "p", "c1">>, <<"drop", "p">>, <<"drop", "c1">>, <<"alive", {}>>>>

-----------------------------------------------------------------------------
Scripts ==
  <<managed_auto_ptr_nullptr, managed_auto_ptr_owner,
    managed_auto_ptr_auto_ptr_from_this, managed_from_unmanaged_auto_ptr,
    managed_auto_ptr_sorted_set, auto_ptr_constcast, auto_ptr_from_const_cast,
    auto_ptr__compare, auto_ptr__inherit, auto_ptr__compare_inherit,
    cast_multiple_inheritance, dtor_cast_inherit, dtor_cast_const,
    UT_auto_ptr_owner_cast, auto_ptr__copy_leer, auto_ptr__copy_ownerless,
    auto_ptr__comp_nullptr, auto_ptr__as_parameter_rvalueref_release,
    auto_ptr__as_parameter_lvalueref, auto_ptr__as_parameter_rvalueref,
    auto_ptr__as_parameter_copy, auto_ptr_assign, auto_ptr__ownership_transfer,
    auto_ptr_dangling_pointer, auto_ptr_from_this_delete,
    auto_ptr_from_unique_of_other_class, test_auto_ptr_from_this,
    auto_ptr_from_this_von_moved_objekt, auto_ptr_from_this_moved,
    auto_ptr_from_this_von_objekt_im_vector, auto_ptr_als_owner_im_vector,
    shared_weak_ptr, auto_ptr_owner_parameter,
    uebergebe_ptr_als_owner_per_shared_ptr, uebergebe_ptr_als_owner,
    uebergebe_ptr_als_owner_per_unique_ptr, uebergebe_ptr_als_ownerless_exception,
    auto_ptr_owner_parameter_zugriff, release_as_unique_ptr, natvis_test,
    dtor_counter, dtor_counter_shared, add_values, erase_value, replace_value,
    auto_ptr_vw__container>>
=============================================================================
