---------------------------- MODULE DelayDelete ----------------------------
(***************************************************************************)
(* WS::DelayDelete (headeronly/DelayDelete.h): objects that are destroyed  *)
(* some time after they were handed in, by whichever thread calls next.    *)
(* The queue is a multimap ordered by time, here the set of its entries.   *)
(***************************************************************************)
EXTENDS Integers, FiniteSets

CONSTANTS DeleteThreads, Things,
          Delays,       \* how long objects have to stay
          DeleteEnd     \* bound on the clock

ASSUME DeleteAssumption == Delays \subseteq Nat /\ DeleteEnd \in Nat

VARIABLES now,
          todelete,     \* the queue: objects with the time they are due
          mutex,        \* the thread inside, or none
          cleaning,     \* what each thread does
          gone          \* the objects that were destroyed

deleteVars == <<now, todelete, mutex, cleaning, gone>>

Nothing == [phase |-> "none"]
Cleanings == [phase : {"clean", "insert"}, at : 0 .. DeleteEnd, things : SUBSET Things, delay : Delays]

DeleteTypeOK ==
  /\ now \in 0 .. DeleteEnd
  /\ todelete \subseteq [thing : Things, due : Nat]
  /\ mutex \in SUBSET DeleteThreads /\ Cardinality(mutex) <= 1
  /\ cleaning \in [DeleteThreads -> {Nothing} \cup Cleanings]
  /\ gone \subseteq Things

DeleteInit ==
  /\ now = 0 /\ todelete = {} /\ mutex = {} /\ gone = {}
  /\ cleaning = [t \in DeleteThreads |-> Nothing]

Later == now < DeleteEnd /\ now' = now + 1 /\ UNCHANGED <<todelete, mutex, cleaning, gone>>

InHand == UNION {cleaning[t].things : t \in {x \in DeleteThreads : cleaning[x].phase # "none"}}
Queued == {e.thing : e \in todelete}

\* Clean() reads the clock once; Add() begins with it.
Clean(t) ==
  /\ cleaning[t] = Nothing /\ mutex = {}
  /\ mutex' = {t}
  /\ \E delay \in Delays, things \in {{}} \cup {{x} : x \in Things \ (InHand \cup Queued \cup gone)} :
       cleaning' = [cleaning EXCEPT ![t] = [phase |-> "clean", at |-> now, things |-> things, delay |-> delay]]
  /\ UNCHANGED <<now, todelete, gone>>

\* Faulty: an object that is due at this very moment goes as well.
MutantErase(t) ==
  /\ cleaning[t].phase = "clean"
  /\ \E e \in todelete :
       /\ e.due <= cleaning[t].at /\ \A f \in todelete : e.due <= f.due
       /\ todelete' = todelete \ {e}
       /\ gone' = gone \cup {e.thing}
  /\ UNCHANGED <<now, mutex, cleaning>>

\* The loop destroys the first object of the queue while it is overdue.
Erase(t) ==
  /\ cleaning[t].phase = "clean"
  /\ \E e \in todelete :
       /\ e.due < cleaning[t].at /\ \A f \in todelete : e.due <= f.due
       /\ todelete' = todelete \ {e}
       /\ gone' = gone \cup {e.thing}
  /\ UNCHANGED <<now, mutex, cleaning>>

\* It ends at the first object that is not; Add() then gives the lock back
\* and takes it again.
EndClean(t) ==
  /\ cleaning[t].phase = "clean"
  /\ \A e \in todelete : e.due >= cleaning[t].at
  /\ mutex' = {}
  /\ cleaning' = [cleaning EXCEPT ![t] = IF @.things = {} THEN Nothing ELSE [@ EXCEPT !.phase = "insert"]]
  /\ UNCHANGED <<now, todelete, gone>>

Insert(t) ==
  /\ cleaning[t].phase = "insert" /\ mutex = {}
  /\ todelete' = todelete \cup {[thing |-> x, due |-> now + cleaning[t].delay] : x \in cleaning[t].things}
  /\ cleaning' = [cleaning EXCEPT ![t] = Nothing]
  /\ UNCHANGED <<now, mutex, gone>>

CleanAll(t) ==
  /\ cleaning[t] = Nothing /\ mutex = {} /\ todelete # {}
  /\ gone' = gone \cup Queued
  /\ todelete' = {}
  /\ UNCHANGED <<now, mutex, cleaning>>

DeleteNext ==
  \/ Later
  \/ \E t \in DeleteThreads : Clean(t) \/ Erase(t) \/ EndClean(t) \/ Insert(t) \/ CleanAll(t)

\* No object is destroyed before its time is over (DelayDelete.h:25), unless
\* all are, and no Clean() leaves one behind that was overdue when it began.
NotTooEarly ==
  [][/\ \A e \in todelete \ todelete' : (todelete' = {} /\ mutex = {}) \/ e.due < now
     /\ \A t \in DeleteThreads : cleaning[t].phase = "clean" /\ cleaning'[t].phase # "clean" =>
          \A e \in todelete' : e.due >= cleaning[t].at]_deleteVars
=============================================================================
