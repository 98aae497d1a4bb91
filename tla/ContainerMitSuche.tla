------------------------- MODULE ContainerMitSuche -------------------------
(***************************************************************************)
(* WS::ContainerMitSuche (headeronly/containerFastFind.h): a vector with a *)
(* map from keys to the indices of the entries with that key, under one    *)
(* mutex.  With the asynchronous variants a Pipe carries the values, and   *)
(* its worker pushes them back one after the other.                        *)
(*                                                                         *)
(* Every operation holds the mutex from its first to its last step, so     *)
(* that each is one action; what a caller does with an index it was given  *)
(* comes later.  An entry is a key and an identity.  Indices count from 1. *)
(***************************************************************************)
EXTENDS Naturals, Sequences, SequencesExt

CONSTANTS FindKeys,
          MaxEntries  \* bound: entries in a vector and pushes in a run

ASSUME FindAssumption == MaxEntries \in Nat

VARIABLES daten,    \* the vector
          map,      \* the map, a key is missing where its sequence is empty
          pending,  \* the values in the pipe
          asyncUnique, \* is the container a ContainerMitSucheUniqueAsync
          found,    \* the last index that find() gave out, and what was there
          pushed    \* counts the values, their identity

findVars == <<daten, map, pending, asyncUnique, found, pushed>>

Entry == [key : FindKeys, id : 1 .. MaxEntries]

FindTypeOK ==
  /\ daten \in BoundedSeq(Entry, MaxEntries)
  /\ map \in [FindKeys -> BoundedSeq(1 .. MaxEntries, MaxEntries)]
  /\ pending \in BoundedSeq(Entry, MaxEntries)
  /\ asyncUnique \in BOOLEAN
  /\ found \in SUBSET [index : 1 .. MaxEntries, entry : Entry]
  /\ pushed \in 0 .. MaxEntries

FindInit ==
  /\ daten = <<>> /\ pending = <<>> /\ found = {} /\ pushed = 0
  /\ map = [k \in FindKeys |-> <<>>]
  /\ asyncUnique \in BOOLEAN

Fresh(k) == [key |-> k, id |-> pushed + 1]

NewValue == pushed < MaxEntries /\ pushed' = pushed + 1

Push(e) ==
  /\ map' = [map EXCEPT ![e.key] = Append(@, Len(daten) + 1)]
  /\ daten' = Append(daten, e)

\* A key that is there more than once does not stop a unique push: _find()
\* calls it ambiguous, which is not valid.
PushUnique(e) == IF Len(map[e.key]) = 1 THEN UNCHANGED <<daten, map>> ELSE Push(e)

push_back(k) == NewValue /\ Push(Fresh(k)) /\ UNCHANGED <<pending, asyncUnique, found>>
push_back_unique(k) == NewValue /\ PushUnique(Fresh(k)) /\ UNCHANGED <<pending, asyncUnique, found>>

AsyncPush(k) ==
  /\ NewValue
  /\ pending' = Append(pending, Fresh(k))
  /\ UNCHANGED <<daten, map, asyncUnique, found>>

\* The worker of the pipe.
AsyncWork ==
  /\ pending # <<>>
  /\ IF asyncUnique THEN PushUnique(Head(pending)) ELSE Push(Head(pending))
  /\ pending' = Tail(pending)
  /\ UNCHANGED <<asyncUnique, found, pushed>>

clear_daten ==
  /\ daten' = <<>>
  /\ map' = [k \in FindKeys |-> <<>>]
  /\ found' = {}
  /\ UNCHANGED <<pending, asyncUnique, pushed>>

Indices(k) == {j \in DOMAIN daten : daten[j].key = k}

Ascends(s) == \A i, j \in DOMAIN s : i < j => s[i] < s[j]

Ascending(S) == CHOOSE s \in [1 .. Cardinality(S) -> S] : Ascends(s)

\* _newmap() makes the map again; what callers remember is stale.
erase_at(i) ==
  /\ daten' = RemoveAt(daten, i)
  /\ map' = [k \in FindKeys |-> Ascending(Indices(k)')]
  /\ found' = {}
  /\ UNCHANGED <<pending, asyncUnique, pushed>>

\* find() gives out an index when there is exactly one.
find_index(k) ==
  /\ Len(map[k]) = 1
  /\ map[k][1] \in DOMAIN daten
  /\ found' = {[index |-> map[k][1], entry |-> daten[map[k][1]]]}
  /\ UNCHANGED <<daten, map, pending, asyncUnique, pushed>>

FindNext ==
  \/ \E k \in FindKeys : push_back(k) \/ push_back_unique(k) \/ AsyncPush(k) \/ find_index(k)
  \/ AsyncWork \/ clear_daten
  \/ \E i \in DOMAIN daten : erase_at(i)

\* The map has exactly the indices of the entries with each key, in their
\* order, and an index that find() gave out leads to the same entry until
\* someone erases.
IndexExact ==
  /\ \A k \in FindKeys : ToSet(map[k]) = Indices(k) /\ Ascends(map[k])
  /\ \A f \in found : f.index \in DOMAIN daten /\ daten[f.index] = f.entry
=============================================================================
