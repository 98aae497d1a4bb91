---------------------------- MODULE SignalTable ----------------------------
(***************************************************************************)
(* The table of callbacks of WS::Signal (headeronly/signal.h),             *)
(* prio_callbacks: for each priority a std::map from the number of a       *)
(* connection to its function and whether it is blocked.  The pair         *)
(* <<prio, number>> is what id_type packs into one size_t; the strongest   *)
(* priority is 1.  A map that disconnect leaves empty is no map here.      *)
(***************************************************************************)
EXTENDS Naturals, FiniteSets, FiniteSetsExt, Sequences, SequencesExt

CONSTANTS MaxId,       \* the largest value of the bit field lfdnr
          DefaultPrio  \* the weakest priority, id_type::default_prio

ASSUME TableAssumption == MaxId \in Nat \ {0} /\ DefaultPrio \in Nat \ {0, 1}

NoSlots == <<>>

Entry(f, b) == [fn |-> f, blocked |-> b]

Put(s, k, e) == [j \in DOMAIN s \cup {k} |-> IF j = k THEN e ELSE s[j]]
Cut(s, k) == [j \in DOMAIN s \ {k} |-> s[j]]

UsedIds(s, prio) == {k[2] : k \in {j \in DOMAIN s : j[1] = prio}}

-----------------------------------------------------------------------------
(***************************************************************************)
(* Faulty variants, none is part of the table.                             *)
(***************************************************************************)

\* A new connection gets the number of connections plus one.
Mutant_next_id_counts(s, prio) == Cardinality(UsedIds(s, prio)) + 1

-----------------------------------------------------------------------------

\* The number after n; behind the largest one comes 0, which is no number.
id_offset(n) == (n + 1) % (MaxId + 1)

(***************************************************************************)
(* One more than the largest number in use; after an overflow the first    *)
(* gap from 1 on.  The search compares number by number from the start of  *)
(* the map.                                                                *)
(***************************************************************************)
next_id(s, prio) ==
  LET used == UsedIds(s, prio)
      next == IF used = {} THEN 1 ELSE id_offset(Max(used))
      gaps == {i \in 1 .. Cardinality(used) + 1 : i \notin used}
  IN IF next # 0 THEN next
     ELSE IF 0 \in used THEN 1 ELSE Min(gaps)

\* id_type{id, prio}: the bits of id that are too many are the priority, which is
\* refused unless prio is the default.
IdFits(id, prio) == id <= MaxId \/ prio = DefaultPrio
id_type(id, prio) == IF id <= MaxId THEN <<prio, id>> ELSE <<id \div (MaxId + 1), id % (MaxId + 1)>>

\* The order of the maps is the order of the calls.
Before(j, k) == j[1] < k[1] \/ (j[1] = k[1] /\ j[2] < k[2])

\* The callbacks an emission calls when nobody breaks it ...
Callable(s) == {k \in DOMAIN s : ~s[k].blocked}

\* ... one after the other.
Emission(s) == SetToSortSeq(Callable(s), Before)

=============================================================================
