----------------------- MODULE MutexAtomicFlagProofs -----------------------
(***************************************************************************)
(* Proofs about MutexAtomicFlag, for any set of threads and any set of     *)
(* pollers: type correctness, mutual exclusion, exactness of the deadlock  *)
(* detection, and that the spin lock implements ExclusiveLock.             *)
(***************************************************************************)
EXTENDS MutexAtomicFlag, TLAPS

\* Thread t is the one the flag is set for.
IsInside(t) == t \in guard \/ pc[t] \in {"owner", "clear", "probe"}

\* A thread is inside in one way only.
InsideOneWay == \A t \in guard : pc[t] \notin {"owner", "clear", "probe"}

\* The flag is set if and only if a thread is inside, and that thread is alone.
FlagOwned ==
  /\ \A t \in Threads : IsInside(t) => flag
  /\ flag => \E t \in Threads : IsInside(t)
  /\ \A t, u \in Threads : IsInside(t) /\ IsInside(u) => t = u

\* The owner is noted exactly while its guard is locked.
OwnerIsGuard ==
  /\ \A t \in guard : locking_thread = t
  /\ locking_thread # NoThread => locking_thread \in guard

\* The inductive invariant.
IInv ==
  /\ TypeOK
  /\ InsideOneWay
  /\ FlagOwned
  /\ OwnerIsGuard
  /\ DeadlockDetectionExact

\* The members of Inside are the threads that satisfy IsInside.
LEMMA InsideMember ==
  ASSUME TypeOK
  PROVE  \A t : t \in Inside <=> t \in Threads /\ IsInside(t)
BY DEF TypeOK, Inside, IsInside

\* The initial state satisfies the inductive invariant.
LEMMA InitInv == Init => IInv
BY ThreadsAssumption
   DEF Init, IInv, TypeOK, Labels, InsideOneWay, FlagOwned, OwnerIsGuard,
       DeadlockDetectionExact, IsInside

\* Every step of every thread preserves the inductive invariant.
LEMMA StepInv == IInv /\ [Next]_vars => IInv'
<1> SUFFICES ASSUME IInv, [Next]_vars PROVE IInv'
  OBVIOUS
<1> USE ThreadsAssumption
<1> USE DEF IInv, TypeOK, Labels, InsideOneWay, FlagOwned, OwnerIsGuard,
            DeadlockDetectionExact, IsInside, Goto
<1>1. ASSUME NEW t \in Threads, TakeFlag(t) PROVE IInv'
  BY <1>1 DEF TakeFlag
<1>2. ASSUME NEW t \in Threads, FlagWasSet(t) PROVE IInv'
  BY <1>2 DEF FlagWasSet
<1>3. ASSUME NEW t \in Threads, CompareOwner(t) PROVE IInv'
  <2>1. t \in guard <=> locking_thread = t
    BY <1>3 DEF CompareOwner
  <2>. QED
    BY <1>3, <2>1 DEF CompareOwner
<1>4. ASSUME NEW t \in Threads, SpinTakesFlag(t) PROVE IInv'
  BY <1>4 DEF SpinTakesFlag
<1>5. ASSUME NEW t \in Threads, StoreOwner(t) PROVE IInv'
  <2>1. guard = {}
    BY <1>5 DEF StoreOwner
  <2>. QED
    BY <1>5, <2>1 DEF StoreOwner
<1>6. ASSUME NEW t \in Threads, HandleException(t) PROVE IInv'
  BY <1>6 DEF HandleException
<1>7. ASSUME NEW t \in Threads, ResetOwner(t) PROVE IInv'
  <2>1. guard = {t}
    BY <1>7 DEF ResetOwner
  <2>. QED
    BY <1>7, <2>1 DEF ResetOwner
<1>8. ASSUME NEW t \in Threads, ClearFlag(t) PROVE IInv'
  BY <1>8 DEF ClearFlag
<1>9. ASSUME NEW t \in Threads, ProbeTakesFlag(t) PROVE IInv'
  BY <1>9 DEF ProbeTakesFlag
<1>10. ASSUME NEW t \in Threads, ProbeClearsFlag(t) PROVE IInv'
  BY <1>10 DEF ProbeClearsFlag
<1>11. CASE UNCHANGED vars
  BY <1>11 DEF vars
<1>12. QED
  BY <1>1, <1>2, <1>3, <1>4, <1>5, <1>6, <1>7, <1>8, <1>9, <1>10, <1>11
     DEF Next

\* The inductive invariant holds in every reachable state.
THEOREM Invariance == Spec => []IInv
BY InitInv, StepInv, PTL DEF Spec

\* The variables of mutex_atomicflag keep their types.
THEOREM TypeCorrect == Spec => []TypeOK
<1>1. IInv => TypeOK
  BY DEF IInv
<1>. QED
  BY <1>1, Invariance, PTL

\* Two threads never have a locked guard of the same mutex_atomicflag.
THEOREM Exclusion == Spec => []MutualExclusion
<1>1. IInv => MutualExclusion
  BY DEF IInv, OwnerIsGuard, MutualExclusion
<1>. QED
  BY <1>1, Invariance, PTL

\* lock() throws in the owner and only there, and the owner never spins.
THEOREM Detection == Spec => []DeadlockDetectionExact
<1>1. IInv => DeadlockDetectionExact
  BY DEF IInv
<1>. QED
  BY <1>1, Invariance, PTL

\* The flag has one cause at a time: a guard, a step of lock or unlock in
\* progress, or one probing islocked().
THEOREM OneCause == Spec => []FlagHasOneCause
<1>1. IInv => FlagHasOneCause
  BY InsideMember DEF IInv, FlagOwned, FlagHasOneCause
<1>. QED
  BY <1>1, Invariance, PTL

-----------------------------------------------------------------------------

\* The refinement mapping: holder is the only thread whose guard is locked.
LEMMA HolderOfGuard ==
  /\ guard = {} => holder = NoThread
  /\ \A t : guard = {t} => holder = t
BY DEF holder

\* The initial states of the spin lock map to the initial state of the lock.
LEMMA LockInit == Init => Lock!Init
BY HolderOfGuard DEF Init, Lock!Init

\* Every step of the spin lock is a step of the lock or leaves it alone.
LEMMA LockStep == IInv /\ [Next]_vars => [Lock!Next]_holder
<1> SUFFICES ASSUME IInv, [Next]_vars PROVE [Lock!Next]_holder
  OBVIOUS
<1>1. guard' = guard => holder' = holder
  BY DEF holder
<1>2. ASSUME NEW t \in Threads, StoreOwner(t) PROVE Lock!Acquire(t)
  <2>1. guard = {} /\ guard' = {t}
    BY <1>2 DEF StoreOwner, IInv, InsideOneWay, FlagOwned, IsInside, TypeOK
  <2>2. holder' = t
    BY <2>1 DEF holder
  <2>. QED
    BY <2>1, <2>2, HolderOfGuard DEF Lock!Acquire
<1>3. ASSUME NEW t \in Threads, ResetOwner(t) PROVE Lock!Release(t)
  <2>1. guard = {t} /\ guard' = {}
    BY <1>3 DEF ResetOwner, IInv, OwnerIsGuard
  <2>2. holder' = NoThread
    BY <2>1 DEF holder
  <2>. QED
    BY <2>1, <2>2, HolderOfGuard DEF Lock!Release
<1>4. CASE UNCHANGED vars
  BY <1>1, <1>4 DEF vars
<1>5. CASE Next
  <2>1. PICK t \in Threads :
          \/ guard' = guard
          \/ StoreOwner(t) \/ ResetOwner(t)
    BY <1>5 DEF Next, TakeFlag, FlagWasSet, CompareOwner, SpinTakesFlag,
                HandleException, ClearFlag, ProbeTakesFlag, ProbeClearsFlag
  <2>. QED
    BY <1>1, <1>2, <1>3, <2>1 DEF Lock!Next
<1>. QED
  BY <1>4, <1>5

\* The spin lock with its two-step ownership implements the exclusive lock.
THEOREM Refinement == Spec => ImplementsLock
BY Invariance, LockInit, LockStep, PTL DEF Spec, ImplementsLock, Lock!Spec
=============================================================================
