------------------------------ MODULE Handles ------------------------------
(***************************************************************************)
(* Objects that act by being copied, moved and destroyed: raii_boolstatus, *)
(* whose status tells whether there is another copy, and Dtor_call         *)
(* (dtor_call.h, dtor_call_x.h), AutoResource and DestructorCall2, which   *)
(* run an action once when they end.  Status handles are assigned by       *)
(* threads that do not lock, in the steps of the code; the Dtor_calls of a *)
(* program belong to one thread.                                           *)
(***************************************************************************)
EXTENDS Integers, FiniteSets

CONSTANTS Handlers,   \* variables for handles of either kind
          NoHandle,
          Groups,     \* shared counters
          Actions     \* actions that a Dtor_call can run

ASSUME HandleAssumption == IsFiniteSet(Handlers) /\ NoHandle \notin Groups \cup Actions

VARIABLES group,      \* the counter each status handle shares, or NoHandle
          counter,    \* the counters
          assigning,  \* what an assignment has still to do
          call,       \* the action each Dtor_call has, or NoHandle
          outcome     \* what has become of each action

handleVars == <<group, counter, assigning, call, outcome>>

HandleTypeOK ==
  /\ group \in [Handlers -> Groups \cup {NoHandle}]
  /\ counter \in [Groups -> -1 .. Cardinality(Handlers)]
  /\ assigning \in SUBSET [to : Handlers, from : Groups]
  /\ call \in [Handlers -> Actions \cup {NoHandle}]
  /\ outcome \in [Actions -> {"unused", "armed", "run", "discarded", "twice"}]

HandleInit ==
  /\ group = [h \in Handlers |-> NoHandle]
  /\ counter = [g \in Groups |-> 0]
  /\ assigning = {}
  /\ call = [h \in Handlers |-> NoHandle]
  /\ outcome = [a \in Actions |-> "unused"]

-----------------------------------------------------------------------------
(***************************************************************************)
(* raii_boolstatus                                                         *)
(***************************************************************************)

Members(g) == {h \in Handlers : group[h] = g}

CallsAlone == UNCHANGED <<call, outcome>>

Busy(h) == \E a \in assigning : a.to = h

NewStatus(h) ==
  /\ group[h] = NoHandle
  /\ \E g \in Groups :
       /\ Members(g) = {} /\ ~\E a \in assigning : a.from = g
       /\ group' = [group EXCEPT ![h] = g]
       /\ counter' = [counter EXCEPT ![g] = 0]
  /\ UNCHANGED assigning /\ CallsAlone

\* A copy, and a move, which is a copy.
CopyStatus(h, r) ==
  /\ group[h] = NoHandle /\ group[r] # NoHandle
  /\ group' = [group EXCEPT ![h] = group[r]]
  /\ counter' = [counter EXCEPT ![group[r]] = @ + 1]
  /\ UNCHANGED assigning /\ CallsAlone

EndStatus(h) ==
  /\ group[h] # NoHandle /\ ~Busy(h)
  /\ counter' = [counter EXCEPT ![group[h]] = @ - 1]
  /\ group' = [group EXCEPT ![h] = NoHandle]
  /\ UNCHANGED assigning /\ CallsAlone

\* operator= counts the old counter down, and changes over;
AssignStatus(h, r) ==
  /\ group[h] # NoHandle /\ group[r] # NoHandle /\ ~Busy(h) /\ ~Busy(r)
  /\ counter' = [counter EXCEPT ![group[h]] = @ - 1]
  /\ group' = [group EXCEPT ![h] = group[r]]
  /\ assigning' = assigning \cup {[to |-> h, from |-> group[r]]}
  /\ CallsAlone

\* Faulty: the new counter is not counted up.
MutantCountUp(a) ==
  /\ assigning' = assigning \ {a}
  /\ UNCHANGED <<group, counter>> /\ CallsAlone

\* only then it counts the new one up.
CountUp(a) ==
  /\ counter' = [counter EXCEPT ![group[a.to]] = @ + 1]
  /\ assigning' = assigning \ {a}
  /\ UNCHANGED group /\ CallsAlone

\* reset() assigns a new one, which then dies.
ResetStatus(h) ==
  /\ group[h] # NoHandle /\ ~Busy(h)
  /\ \E g \in Groups :
       /\ Members(g) = {} /\ ~\E a \in assigning : a.from = g
       /\ counter' = [counter EXCEPT ![group[h]] = @ - 1, ![g] = 0]
       /\ group' = [group EXCEPT ![h] = g]
  /\ UNCHANGED assigning /\ CallsAlone

status(h) == counter[group[h]] = 0

-----------------------------------------------------------------------------
(***************************************************************************)
(* Dtor_call                                                               *)
(***************************************************************************)

StatusAlone == UNCHANGED <<group, counter, assigning>>

\* CallitNow(): release is reset before the action runs.
Ran(o, acts) == [a \in Actions |-> IF a \notin acts THEN o[a] ELSE IF o[a] = "armed" THEN "run" ELSE "twice"]
Dropped(o, acts) == [a \in Actions |-> IF a \in acts THEN "discarded" ELSE o[a]]

Of(h) == {call[h]} \cap Actions

CreateDtorCall(h, a) ==
  /\ call[h] = NoHandle /\ outcome[a] = "unused"
  /\ call' = [call EXCEPT ![h] = a]
  /\ outcome' = [outcome EXCEPT ![a] = "armed"]
  /\ StatusAlone

\* CallitNow(), Release() and the destructor.
CallitNow(h) ==
  /\ Of(h) # {}
  /\ outcome' = Ran(outcome, Of(h))
  /\ call' = [call EXCEPT ![h] = NoHandle]
  /\ StatusAlone

Discard(h) ==
  /\ Of(h) # {}
  /\ outcome' = Dropped(outcome, Of(h))
  /\ call' = [call EXCEPT ![h] = NoHandle]
  /\ StatusAlone

\* First: the old action runs, and the other one is taken over.
MoveFirst(h, r) ==
  /\ outcome' = Ran(outcome, Of(h))
  /\ call' = [call EXCEPT ![h] = call[r], ![r] = NoHandle]

\* Last and OnlyFirst, for the same object: the action that is assigned runs,
\* or is discarded, unless there is none yet.
MoveKeeping(h, r, last) ==
  /\ call' = [call EXCEPT ![h] = IF Of(h) = {} THEN call[r] ELSE @, ![r] = NoHandle]
  /\ outcome' = IF Of(h) = {} THEN outcome
                ELSE IF last THEN Ran(outcome, Of(r)) ELSE Dropped(outcome, Of(r))

\* An AutoResource that is Last or OnlyFirst takes nothing over, even when it
\* is empty.
MoveNothing(h, r, last) ==
  /\ call' = [call EXCEPT ![r] = NoHandle]
  /\ outcome' = IF last THEN Ran(outcome, Of(r)) ELSE Dropped(outcome, Of(r))

\* Move<eMovetype>, with the First for calls of different objects; a move to
\* itself does nothing.
MoveCall(h, r) ==
  /\ h # r /\ Of(h) \cup Of(r) # {}
  /\ \/ MoveFirst(h, r)
     \/ \E last \in BOOLEAN : MoveKeeping(h, r, last) \/ MoveNothing(h, r, last)
  /\ StatusAlone

HandleNext ==
  \/ \E h \in Handlers : NewStatus(h) \/ EndStatus(h) \/ ResetStatus(h) \/ CallitNow(h) \/ Discard(h)
  \/ \E h, r \in Handlers : CopyStatus(h, r) \/ AssignStatus(h, r) \/ MoveCall(h, r)
  \/ \E a \in assigning : CountUp(a)
  \/ \E h \in Handlers, a \in Actions : CreateDtorCall(h, a)

\* A counter is the number of copies beside the first, less those that are
\* being assigned: status() is true for the only copy, and wrong only while
\* an assignment is between its steps.  And every action is still in exactly
\* one Dtor_call, or was run once or discarded.
EachHandleCounts ==
  /\ \A g \in Groups : Members(g) # {} =>
       counter[g] = Cardinality(Members(g)) - 1 - Cardinality({a \in assigning : group[a.to] = g})
  /\ assigning = {} => \A h \in Handlers : group[h] # NoHandle => (status(h) <=> Members(group[h]) = {h})
  /\ \A a \in Actions : (outcome[a] = "armed") <=> \E h \in Handlers : call[h] = a
  /\ \A a \in Actions : outcome[a] # "twice" /\ Cardinality({h \in Handlers : call[h] = a}) <= 1
=============================================================================
