------------------- MODULE RecursiveMutexAtomicFlagProofs -------------------
(***************************************************************************)
(* Proofs about RecursiveMutexAtomicFlag for any set of threads, any       *)
(* pollers and any nesting depth.                                          *)
(***************************************************************************)
EXTENDS RecursiveMutexAtomicFlag, TLAPS

\* Thread t is the one the flag is set for.
IsInside(t) ==
  guards[t] > 0 \/ pc[t] \in {"addref", "store", "disown", "clear", "probe"}

FlagOwned ==
  /\ \A t \in Threads : IsInside(t) => flag
  /\ flag => \E t \in Threads : IsInside(t)
  /\ \A t, u \in Threads : IsInside(t) /\ IsInside(u) => t = u

\* A thread that gives the flag back has no guard left.
LeavingIsFinal ==
  \A t \in Threads : pc[t] \in {"disown", "clear", "probe"} => guards[t] = 0

\* The owner is noted while it has a guard and until its last unlock resets it.
OwnerNoted ==
  /\ \A t \in Threads : guards[t] > 0 => locking_thread = t
  /\ \A t \in Threads :
       locking_thread = t => guards[t] > 0 \/ pc[t] = "disown"

\* The counter is the number of guards of the thread inside, and of one more
\* while its try_lock() is about to return.
Counted ==
  /\ \A t \in Threads :
       IsInside(t) =>
         ref_count = guards[t] + (IF pc[t] = "store" THEN 1 ELSE 0)
  /\ (\A t \in Threads : ~IsInside(t)) => ref_count = 0

IInv ==
  /\ TypeOK
  /\ FlagOwned
  /\ LeavingIsFinal
  /\ OwnerNoted
  /\ Counted

\* The initial state satisfies the inductive invariant.
LEMMA InitInv == Init => IInv
<1> SUFFICES ASSUME Init PROVE IInv
  OBVIOUS
<1>1. TypeOK
  BY DEF Init, TypeOK, Labels
<1>2. \A t \in Threads : ~IsInside(t)
  <2> TAKE t \in Threads
  <2>1. guards[t] = 0 /\ pc[t] = "idle"
    BY DEF Init
  <2>. QED
    BY <2>1 DEF IsInside
<1>3. FlagOwned /\ Counted
  BY <1>2 DEF Init, FlagOwned, Counted
<1>4. LeavingIsFinal /\ OwnerNoted
  BY ConstantsAssumption DEF Init, LeavingIsFinal, OwnerNoted
<1>. QED
  BY <1>1, <1>3, <1>4 DEF IInv

\* Every step of every thread preserves the inductive invariant.
LEMMA StepInv == IInv /\ [Next]_vars => IInv'
<1> SUFFICES ASSUME IInv, [Next]_vars PROVE IInv'
  OBVIOUS
<1> USE ConstantsAssumption
<1> USE DEF IInv, TypeOK, Labels, FlagOwned, LeavingIsFinal, OwnerNoted,
            Counted, IsInside, Goto
<1>1. ASSUME NEW t \in Threads, NEW wait \in BOOLEAN, BeginLock(t, wait)
      PROVE  IInv'
  BY <1>1 DEF BeginLock
<1>2. ASSUME NEW t \in Threads, TestAndSet(t) PROVE IInv'
  BY <1>2 DEF TestAndSet
<1>3. ASSUME NEW t \in Threads, CompareOwner(t) PROVE IInv'
  <2>1. locking_thread = t <=> guards[t] > 0
    BY <1>3 DEF CompareOwner
  <2>. QED
    BY <1>3, <2>1 DEF CompareOwner
<1>4. ASSUME NEW t \in Threads, AddRef(t) PROVE IInv'
  BY <1>4 DEF AddRef
<1>5. ASSUME NEW t \in Threads, StoreOwner(t) PROVE IInv'
  BY <1>5 DEF StoreOwner
<1>6. ASSUME NEW t \in Threads, ReleaseRef(t) PROVE IInv'
  <2>1. ref_count = guards[t]
    BY <1>6 DEF ReleaseRef
  <2>. QED
    BY <1>6, <2>1 DEF ReleaseRef
<1>7. ASSUME NEW t \in Threads, ResetOwner(t) PROVE IInv'
  BY <1>7 DEF ResetOwner
<1>8. ASSUME NEW t \in Threads, ClearFlag(t) PROVE IInv'
  <2>1. \A u \in Threads : u # t => ~IsInside(u)
    BY <1>8 DEF ClearFlag
  <2>2. guards[t] = 0 /\ ref_count = 0
    BY <1>8 DEF ClearFlag
  <2>3. \A u \in Threads : ~IsInside(u)'
    BY <1>8, <2>1, <2>2 DEF ClearFlag
  <2>. QED
    BY <1>8, <2>2, <2>3 DEF ClearFlag
<1>9. ASSUME NEW t \in Threads, ProbeTakesFlag(t) PROVE IInv'
  BY <1>9 DEF ProbeTakesFlag
<1>10. ASSUME NEW t \in Threads, ProbeClearsFlag(t) PROVE IInv'
  <2>1. \A u \in Threads : u # t => ~IsInside(u)
    BY <1>10 DEF ProbeClearsFlag
  <2>2. guards[t] = 0 /\ ref_count = 0
    BY <1>10 DEF ProbeClearsFlag
  <2>3. \A u \in Threads : ~IsInside(u)'
    BY <1>10, <2>1, <2>2 DEF ProbeClearsFlag
  <2>. QED
    BY <1>10, <2>2, <2>3 DEF ProbeClearsFlag
<1>11. CASE UNCHANGED vars
  BY <1>11 DEF vars
<1>. QED
  BY <1>1, <1>2, <1>3, <1>4, <1>5, <1>6, <1>7, <1>8, <1>9, <1>10, <1>11
     DEF Next

\* The inductive invariant holds in every reachable state.
THEOREM Invariance == Spec => []IInv
BY InitInv, StepInv, PTL DEF Spec

\* Two threads never have locked guards of one recursive mutex.
THEOREM Exclusion == Spec => []MutualExclusion
<1>1. IInv => MutualExclusion
  BY DEF IInv, FlagOwned, IsInside, MutualExclusion, Holders
<1>. QED
  BY <1>1, Invariance, PTL

\* The reference counter is exact while a guard exists and zero when the last
\* one has been unlocked.
THEOREM CountExact == Spec => []RefCountExact
<1>1. ASSUME IInv PROVE RefCountExact
  <2> SUFFICES ASSUME NEW t \in Threads
               PROVE  /\ guards[t] > 0 =>
                           /\ flag
                           /\ ref_count = guards[t]
                                + (IF pc[t] = "store" THEN 1 ELSE 0)
                      /\ pc[t] \in {"disown", "clear", "probe"} =>
                           ref_count = 0
    BY DEF RefCountExact
  <2>1. CASE IsInside(t)
    <3>1. flag /\ ref_count = guards[t] + (IF pc[t] = "store" THEN 1 ELSE 0)
      BY <1>1, <2>1 DEF IInv, FlagOwned, Counted
    <3>2. pc[t] \in {"disown", "clear", "probe"} => guards[t] = 0
      BY <1>1 DEF IInv, LeavingIsFinal
    <3>. QED
      BY <3>1, <3>2
  <2>2. CASE ~IsInside(t)
    BY <2>2 DEF IsInside
  <2>. QED
    BY <2>1, <2>2
<1>. QED
  BY <1>1, Invariance, PTL

\* The owner is never refused and a stranger never admitted.
THEOREM OwnerDecision == Spec => []OwnerIsKnown
<1>1. IInv => OwnerIsKnown
  BY DEF IInv, TypeOK, OwnerNoted, OwnerIsKnown, OwnerNeverRefused, StrangerNeverAdmitted
<1>. QED
  BY <1>1, Invariance, PTL

-----------------------------------------------------------------------------

\* The refinement mapping is determined by the only thread with guards.
LEMMA HolderUnique ==
  ASSUME MutualExclusion, NEW t \in Holders
  PROVE  holder = t /\ depth = guards[t]
BY DEF MutualExclusion, holder, depth, Holders

\* Without guards the lock is free.
LEMMA HolderNone ==
  ASSUME Holders = {}
  PROVE  holder = NoThread /\ depth = 0
BY DEF holder, depth

\* The initial states map to the initial state of the reentrant lock.
LEMMA LockInit == Init => Lock!Init
<1> SUFFICES ASSUME Init PROVE Lock!Init
  OBVIOUS
<1>1. Holders = {}
  BY DEF Init, Holders
<1>. QED
  BY <1>1, HolderNone DEF Lock!Init

\* Every step maps to a step of the reentrant lock or leaves it alone.
LEMMA LockStep == IInv /\ IInv' /\ [Next]_vars => [Lock!Next]_<<holder, depth>>
<1> SUFFICES ASSUME IInv, IInv', [Next]_vars
             PROVE  [Lock!Next]_<<holder, depth>>
  OBVIOUS
<1> USE DEF IInv, TypeOK
<1>1. MutualExclusion /\ MutualExclusion'
  BY DEF FlagOwned, IsInside, MutualExclusion, Holders
<1>2. guards' = guards => UNCHANGED <<holder, depth>>
  BY DEF holder, depth, Holders
<1>3. ASSUME NEW t \in Threads, StoreOwner(t) PROVE Lock!Acquire(t)
  <2>1. t \in Holders' /\ guards'[t] = guards[t] + 1
    BY <1>3 DEF StoreOwner, Holders
  <2>2. holder' = t /\ depth' = guards[t] + 1
    BY <1>1, <2>1, HolderUnique DEF MutualExclusion, holder, depth
  <2>3. CASE guards[t] > 0
    <3>1. t \in Holders
      BY <2>3 DEF Holders
    <3>. QED
      BY <1>1, <2>2, <3>1, HolderUnique DEF Lock!Acquire
  <2>4. CASE guards[t] = 0
    <3>1. Holders = {}
      BY <1>3, <2>4 DEF StoreOwner, FlagOwned, IsInside, Holders
    <3>. QED
      BY <2>2, <2>4, <3>1, HolderNone DEF Lock!Acquire
  <2>. QED
    BY <2>3, <2>4
<1>4. ASSUME NEW t \in Threads, ReleaseRef(t) PROVE Lock!Release(t)
  <2>1. t \in Holders /\ guards'[t] = guards[t] - 1
    BY <1>4 DEF ReleaseRef, Holders
  <2>2. holder = t /\ depth = guards[t]
    BY <1>1, <2>1, HolderUnique
  <2>3. Holders' \subseteq {t}
    BY <1>1, <1>4, <2>1 DEF ReleaseRef, Holders, MutualExclusion
  <2>4. CASE guards[t] = 1
    <3>1. Holders' = {}
      BY <2>1, <2>3, <2>4 DEF Holders
    <3>2. holder' = NoThread /\ depth' = 0
      BY <3>1 DEF holder, depth
    <3>. QED
      BY <2>2, <2>4, <3>2 DEF Lock!Release
  <2>5. CASE guards[t] # 1
    <3>1. t \in Holders'
      BY <2>1, <2>5 DEF Holders
    <3>2. holder' = t /\ depth' = guards[t] - 1
      BY <2>1, <2>3, <3>1 DEF holder, depth
    <3>. QED
      BY <2>2, <2>5, <3>2 DEF Lock!Release
  <2>. QED
    BY <2>4, <2>5
<1>5. CASE UNCHANGED vars
  BY <1>2, <1>5 DEF vars
<1>6. CASE Next
  <2>1. PICK t \in Threads :
          guards' = guards \/ StoreOwner(t) \/ ReleaseRef(t)
    BY <1>6 DEF Next, BeginLock, TestAndSet, CompareOwner, AddRef, ResetOwner,
                ClearFlag, ProbeTakesFlag, ProbeClearsFlag
  <2>. QED
    BY <1>2, <1>3, <1>4, <2>1 DEF Lock!Next
<1>. QED
  BY <1>5, <1>6

\* The recursive spin lock implements the reentrant lock.
THEOREM Refinement == Spec => ImplementsReentrantLock
BY Invariance, LockInit, LockStep, PTL
   DEF Spec, ImplementsReentrantLock, Lock!Spec, Lock!vars
=============================================================================
