---------------------------- MODULE FifoWithPrio ----------------------------
(***************************************************************************)
(* WS::fifo_with_prio (headeronly/pipe.h), a pool for a Pipe: data with a  *)
(* small prio come first, and every pop raises the data that are left, by  *)
(* lowering their prio, so that old data do not starve.                    *)
(***************************************************************************)
EXTENDS Naturals, Sequences, SequencesExt

CONSTANTS MaxPrio,
          MaxData     \* bound: data that are added

ASSUME PrioAssumption == MaxPrio \in Nat /\ MaxData \in Nat

VARIABLES pool, added,
          pops,    \* history: how often data were taken
          ripe     \* history: the pop after which nothing new overtakes a datum, for each id

prioVars == <<pool, added, pops, ripe>>

Datum == [prio : 0 .. MaxPrio, id : 1 .. MaxData]

PrioTypeOK ==
  /\ pool \in Seq(Datum) /\ Len(pool) <= MaxData /\ added \in 0 .. MaxData
  /\ pops \in Nat /\ ripe \in Seq(Nat) /\ Len(ripe) = added

PrioInit == pool = <<>> /\ added = 0 /\ pops = 0 /\ ripe = <<>>

\* The place after the last of those at the front with no greater prio.
PlaceOf(p) == Cardinality({i \in DOMAIN pool : \A j \in 1 .. i : pool[j].prio <= p}) + 1

AddData(p) ==
  /\ added < MaxData
  /\ added' = added + 1
  /\ pool' = InsertAt(pool, PlaceOf(p), [prio |-> p, id |-> added + 1])
  /\ ripe' = Append(ripe, pops + p)
  /\ UNCHANGED pops

\* Nobody asks again when a datum that was taken had ripened.
Taken == pops' = pops + 1 /\ ripe' = [ripe EXCEPT ![Head(pool).id] = 0]

\* Faulty: the others do not rise.
MutantPopData == pool # <<>> /\ pool' = Tail(pool) /\ Taken /\ UNCHANGED added

\* The others rise, as far as they can.
PopData ==
  /\ pool # <<>>
  /\ Taken
  /\ pool' = [i \in DOMAIN Tail(pool) |-> [Tail(pool)[i] EXCEPT !.prio = IF @ = 0 THEN 0 ELSE @ - 1]]
  /\ UNCHANGED added

PrioNext == PopData \/ \E p \in 0 .. MaxPrio : AddData(p)

Ids(s) == [i \in DOMAIN s |-> s[i].id]

\* The pool stays sorted, data never change places, and a new datum overtakes
\* only those that ripen later than itself.  So a datum that was added with prio p
\* and has seen p pops is not overtaken any more, whatever is added, and does not
\* starve (pipe.h:105).
PrioKeepsOrder ==
  [][/\ \A i, j \in DOMAIN pool' : i < j => pool'[i].prio <= pool'[j].prio
     /\ \A i, j \in DOMAIN pool : \A a, b \in DOMAIN pool' :
          i < j /\ Ids(pool')[a] = Ids(pool)[i] /\ Ids(pool')[b] = Ids(pool)[j] => a < b
     /\ \A a, b \in DOMAIN pool' :
          pool'[a].id = added' /\ added' # added /\ a < b => ripe'[pool'[a].id] < ripe'[pool'[b].id]]_prioVars
=============================================================================
