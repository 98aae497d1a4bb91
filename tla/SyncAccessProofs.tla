-------------------------- MODULE SyncAccessProofs --------------------------
(***************************************************************************)
(* SyncAccess for any number of threads and accesses, with both kinds of   *)
(* lock.  The argument: the lock is held once for every write access and   *)
(* for every thread inside a method; a thread that has tested for          *)
(* conflicts keeps the lock, without which no other access is handed out.  *)
(***************************************************************************)
EXTENDS SyncAccess, FiniteSetTheorems, TLAPS

\* Does the method that t is in hold the lock.
HasLock(t) ==
  \/ pc[t] \in {"test", "backoff", "count", "map", "unlock"}
  \/ pc[t] = "uncount" /\ op[t] \notin ReadOps

\* The accesses, finished or not, on whose behalf t holds the lock.
LocksOf(t) == writes[t] \cup {i \in {slot[t]} : HasLock(t)}

\* The types of the variables; the counters have theirs from CountsExact.
Fields ==
  /\ access_type \in AccessTypes
  /\ writing \in Threads \cup {NoThread}
  /\ lock_count \in Nat
  /\ reading \in Int
  /\ readthreadids \in [Threads -> Int]
  /\ known \subseteq Threads
  /\ reads \in [Threads -> SUBSET Slots]
  /\ writes \in [Threads -> SUBSET Slots]
  /\ pc \in [Threads -> Labels]
  /\ op \in [Threads -> Ops]
  /\ slot \in [Threads -> Slots]

\* A slot has one access, and none while its access is made or released; only
\* the lock of a read access is given back when the access is made already.
SlotsApart ==
  \A t \in Threads :
    /\ reads[t] \cap writes[t] = {}
    /\ pc[t] # "idle" => slot[t] \notin writes[t]
    /\ pc[t] \notin {"idle", "unlock"} => slot[t] \notin reads[t]

LockExact ==
  \A t \in Threads :
    IF writing = t
    THEN lock_count = Cardinality(LocksOf(t)) /\ LocksOf(t) # {}
    ELSE LocksOf(t) = {}

FreeIsZero == writing = NoThread => lock_count = 0

\* May t write, now or when its method returns.
Admitted(t) ==
  writes[t] # {} \/ (pc[t] \in {"count", "map"} /\ op[t] \notin ReadOps)

AdmittedAlone ==
  \A t, u \in Threads :
    t # u /\ Admitted(t) => reads[u] = {} /\ writes[u] = {}

\* With strict_access the thread itself has nothing else, either.
StrictAlone ==
  access_type = "strict_access" =>
    \A t \in Threads :
      /\ HasLock(t) => writes[t] = {}
      /\ pc[t] \in {"count", "map"} /\ op[t] \notin ReadOps => reads[t] = {}
      /\ \A i \in writes[t] : reads[t] = {} /\ writes[t] = {i}

IInv ==
  /\ Fields
  /\ SlotsApart
  /\ LockExact
  /\ FreeIsZero
  /\ CountsExact
  /\ AdmittedAlone
  /\ StrictAlone

-----------------------------------------------------------------------------

\* The accesses that are counted, and the locks that are held, can be counted.
LEMMA SetsFinite ==
  ASSUME Fields
  PROVE  /\ IsFiniteSet(Counted)
         /\ \A t \in Threads : /\ IsFiniteSet(LocksOf(t))
                               /\ IsFiniteSet(MappedOf(t))
                               /\ LocksOf(t) \subseteq Slots
                               /\ MappedOf(t) \subseteq Slots
<1>1. IsFiniteSet(Threads \X Slots)
  BY SyncAssumption, FS_Product
<1>2. Counted \in SUBSET (Threads \X Slots)
  BY DEF Counted
<1>3. \A t \in Threads : LocksOf(t) \in SUBSET Slots /\ MappedOf(t) \in SUBSET Slots
  BY DEF Fields, LocksOf, MappedOf
<1>. QED
  BY <1>1, <1>2, <1>3, SyncAssumption, FS_Subset

\* An unused SyncAccess satisfies the inductive invariant.
LEMMA InitInv == Init => IInv
<1> SUFFICES ASSUME Init PROVE IInv
  OBVIOUS
<1> USE SyncAssumption DEF Init
<1>1. Fields
  BY DEF Fields, Labels, Ops
<1>2. \A t \in Threads : LocksOf(t) = {} /\ MappedOf(t) = {} /\ CountedOf(t) = {}
  BY DEF LocksOf, HasLock, MappedOf, CountedOf
<1>3. Counted = {}
  BY <1>2 DEF Counted
<1>4. CountsExact
  BY <1>2, <1>3, FS_EmptySet DEF CountsExact
<1>5. SlotsApart /\ LockExact /\ FreeIsZero
  BY <1>2 DEF SlotsApart, LockExact, FreeIsZero
<1>6. AdmittedAlone /\ StrictAlone
  BY DEF AdmittedAlone, Admitted, StrictAlone, HasLock
<1>. QED
  BY <1>1, <1>4, <1>5, <1>6 DEF IInv

-----------------------------------------------------------------------------
\* What a step does to the sets that the counters count.

\* Every step keeps the types, and the slots of a thread apart.
LEMMA StepFields ==
  ASSUME IInv, NEW t \in Threads,
         \/ Inner(t)
         \/ \E i \in Slots : Release(t, i) \/ \E o \in Ops : Call(t, o, i)
  PROVE  Fields' /\ SlotsApart'
<1> USE SyncAssumption
<1> USE DEF IInv, Fields, SlotsApart, Labels, Ops, ReadOps, Goto, lock, counters, objects
<1>1. CASE Acquire(t)
  BY <1>1 DEF Acquire
<1>2. CASE Refused(t) \/ Test(t)
  BY <1>2 DEF Refused, Test
<1>3. CASE Backoff(t) \/ Unlock(t)
  <2>1. writing = t
    BY <1>3 DEF LockExact, LocksOf, HasLock, Backoff, Unlock
  <2>2. LocksOf(t) # {} /\ lock_count = Cardinality(LocksOf(t))
    BY <2>1 DEF LockExact
  <2>3. lock_count > 0
    BY <2>2, SetsFinite, FS_EmptySet
  <2>. QED
    BY <1>3, <2>1, <2>3 DEF Backoff, Unlock, GiveBack
<1>4. CASE Count(t)
  BY <1>4 DEF Count
<1>5. CASE Map(t)
  BY <1>5 DEF Map
<1>6. CASE Uncount(t)
  BY <1>6 DEF Uncount
<1>7. ASSUME NEW i \in Slots, Release(t, i) PROVE Fields' /\ SlotsApart'
  BY <1>7 DEF Release
<1>8. ASSUME NEW i \in Slots, NEW o \in Ops, Call(t, o, i)
      PROVE  Fields' /\ SlotsApart'
  BY <1>8 DEF Call
<1>. QED
  BY <1>1, <1>2, <1>3, <1>4, <1>5, <1>6, <1>7, <1>8 DEF Inner

\* The lock is counted once for each of LocksOf.
LEMMA StepLock ==
  ASSUME IInv, NEW t \in Threads,
         \/ Inner(t)
         \/ \E i \in Slots : Release(t, i) \/ \E o \in Ops : Call(t, o, i)
  PROVE  LockExact' /\ FreeIsZero'
<1> USE SyncAssumption
<1> USE DEF IInv, Fields, SlotsApart, Labels, Ops, ReadOps, Goto, lock, counters,
            objects, HasLock
<1>1. CASE Acquire(t)
  <2>1. slot[t] \notin LocksOf(t) /\ LocksOf(t)' = LocksOf(t) \cup {slot[t]}
    BY <1>1 DEF Acquire, LocksOf
  <2>2. \A u \in Threads \ {t} : LocksOf(u)' = LocksOf(u)
    BY <1>1 DEF Acquire, LocksOf
  <2>3. lock_count = Cardinality(LocksOf(t))
    BY <1>1, FS_EmptySet DEF Acquire, Free, LockExact, FreeIsZero
  <2>4. \A u \in Threads \ {t} : LocksOf(u) = {}
    BY <1>1 DEF Acquire, Free, LockExact
  <2>5. lock_count' = Cardinality(LocksOf(t)')
    BY <1>1, <2>1, <2>3, SetsFinite, FS_AddElement DEF Acquire
  <2>. QED
    BY <1>1, <2>1, <2>2, <2>4, <2>5 DEF Acquire, LockExact, FreeIsZero
<1>2. CASE Backoff(t) \/ Unlock(t)
  <2>1. slot[t] \in LocksOf(t) /\ LocksOf(t)' = LocksOf(t) \ {slot[t]}
    BY <1>2 DEF Backoff, Unlock, LocksOf
  <2>2. \A u \in Threads \ {t} : LocksOf(u)' = LocksOf(u)
    BY <1>2 DEF Backoff, Unlock, LocksOf
  <2>3. writing = t /\ lock_count = Cardinality(LocksOf(t))
    BY <2>1 DEF LockExact
  <2>4. \A u \in Threads \ {t} : LocksOf(u) = {}
    BY <2>3 DEF LockExact
  <2>5. lock_count' = Cardinality(LocksOf(t)') /\ IsFiniteSet(LocksOf(t)')
    BY <1>2, <2>1, <2>3, SetsFinite, FS_RemoveElement DEF Backoff, Unlock, GiveBack
  <2>6. writing' = (IF lock_count' = 0 THEN NoThread ELSE t)
    BY <1>2 DEF Backoff, Unlock, GiveBack
  <2>7. lock_count' = 0 <=> LocksOf(t)' = {}
    BY <2>5, FS_EmptySet
  <2>. QED
    BY <2>2, <2>4, <2>5, <2>6, <2>7 DEF LockExact, FreeIsZero
<1>3. ASSUME \A u \in Threads : LocksOf(u)' = LocksOf(u), UNCHANGED lock
      PROVE  LockExact' /\ FreeIsZero'
  BY <1>3 DEF LockExact, FreeIsZero
<1>4. CASE Refused(t) \/ Test(t)
  <2>1. \A u \in Threads : LocksOf(u)' = LocksOf(u)
    BY <1>4 DEF Refused, Test, LocksOf
  <2>. QED
    BY <1>3, <1>4, <2>1 DEF Refused, Test
<1>5. CASE Count(t) \/ Map(t) \/ Uncount(t)
  <2>1. \A u \in Threads : LocksOf(u)' = LocksOf(u)
    BY <1>5 DEF Count, Map, Uncount, LocksOf
  <2>. QED
    BY <1>3, <1>5, <2>1 DEF Count, Map, Uncount
<1>6. ASSUME NEW i \in Slots, Release(t, i) PROVE LockExact' /\ FreeIsZero'
  <2>1. \A u \in Threads : LocksOf(u)' = LocksOf(u)
    BY <1>6 DEF Release, LocksOf
  <2>. QED
    BY <1>3, <1>6, <2>1 DEF Release
<1>7. ASSUME NEW i \in Slots, NEW o \in Ops, Call(t, o, i)
      PROVE  LockExact' /\ FreeIsZero'
  <2>1. \A u \in Threads : LocksOf(u)' = LocksOf(u)
    BY <1>7 DEF Call, LocksOf
  <2>. QED
    BY <1>3, <1>7, <2>1 DEF Call
<1>. QED
  BY <1>1, <1>2, <1>4, <1>5, <1>6, <1>7 DEF Inner

\* What reading and readthreadids count.
LEMMA StepCounts ==
  ASSUME IInv, NEW t \in Threads,
         \/ Inner(t)
         \/ \E i \in Slots : Release(t, i) \/ \E o \in Ops : Call(t, o, i)
  PROVE  CountsExact'
<1> USE SyncAssumption
<1> USE DEF IInv, Fields, SlotsApart, Labels, Ops, ReadOps, Goto, lock, counters, objects
<1>1. CASE Count(t)
  <2>1. \A u \in Threads : MappedOf(u)' = MappedOf(u)
    BY <1>1 DEF Count, MappedOf
  <2>2. CountedOf(t)' = CountedOf(t) \cup {slot[t]} /\ slot[t] \notin CountedOf(t)
    BY <1>1 DEF Count, CountedOf
  <2>3. \A u \in Threads \ {t} : CountedOf(u)' = CountedOf(u)
    BY <1>1 DEF Count, CountedOf
  <2>4. Counted' = Counted \cup {<<t, slot[t]>>} /\ <<t, slot[t]>> \notin Counted
    BY <2>2, <2>3 DEF Counted
  <2>5. Cardinality(Counted') = Cardinality(Counted) + 1
    <3>1. IsFiniteSet(Counted)
      BY SetsFinite
    <3>2. PICK a : Counted' = Counted \cup {a} /\ a \notin Counted
      BY <2>4
    <3>3. Cardinality(Counted \cup {a}) = Cardinality(Counted) + 1
      BY <3>1, <3>2, FS_AddElement
    <3>. QED
      BY <3>2, <3>3
  <2>6. reading' = reading + 1 /\ readthreadids' = readthreadids
    BY <1>1 DEF Count
  <2>. QED
    BY <2>1, <2>5, <2>6 DEF CountsExact
<1>2. CASE Map(t)
  <2>1. MappedOf(t)' = MappedOf(t) \cup {slot[t]} /\ slot[t] \notin MappedOf(t)
    BY <1>2 DEF Map, MappedOf
  <2>2. \A u \in Threads \ {t} : MappedOf(u)' = MappedOf(u)
    BY <1>2 DEF Map, MappedOf
  <2>3. \A u \in Threads : CountedOf(u)' = CountedOf(u)
    BY <1>2 DEF Map, CountedOf
  <2>4. Counted' = Counted
    BY <2>3 DEF Counted
  <2>5. readthreadids' = [readthreadids EXCEPT ![t] = @ + 1] /\ reading' = reading
    BY <1>2 DEF Map
  <2>6. Cardinality(MappedOf(t)') = Cardinality(MappedOf(t)) + 1
    <3>1. IsFiniteSet(MappedOf(t))
      BY SetsFinite
    <3>. QED
      BY <2>1, <3>1, FS_AddElement
  <2>. QED
    BY <2>2, <2>4, <2>5, <2>6 DEF CountsExact
<1>3. CASE Uncount(t)
  <2>1. MappedOf(t)' = MappedOf(t) \ {slot[t]} /\ slot[t] \in MappedOf(t)
    BY <1>3 DEF Uncount, MappedOf
  <2>2. \A u \in Threads \ {t} : MappedOf(u)' = MappedOf(u)
    BY <1>3 DEF Uncount, MappedOf
  <2>3. \A u \in Threads : CountedOf(u)' = CountedOf(u)
    BY <1>3 DEF Uncount, CountedOf
  <2>4. Counted' = Counted
    BY <2>3 DEF Counted
  <2>5. readthreadids' = [readthreadids EXCEPT ![t] = @ - 1] /\ reading' = reading
    BY <1>3 DEF Uncount
  <2>6. Cardinality(MappedOf(t)') = Cardinality(MappedOf(t)) - 1
    <3>1. IsFiniteSet(MappedOf(t))
      BY SetsFinite
    <3>2. Cardinality(MappedOf(t) \ {slot[t]}) = Cardinality(MappedOf(t)) - 1
      BY <2>1, <3>1, FS_RemoveElement
    <3>. QED
      BY <2>1, <3>2
  <2>. QED
    BY <2>2, <2>4, <2>5, <2>6 DEF CountsExact
<1>4. ASSUME NEW i \in Slots, Release(t, i) PROVE CountsExact'
  <2>1. \A u \in Threads : MappedOf(u)' = MappedOf(u)
    BY <1>4 DEF Release, MappedOf
  <2>2. CountedOf(t)' = CountedOf(t) \ {i} /\ i \in CountedOf(t)
    BY <1>4 DEF Release, CountedOf
  <2>3. \A u \in Threads \ {t} : CountedOf(u)' = CountedOf(u)
    BY <1>4 DEF Release, CountedOf
  <2>4. Counted' = Counted \ {<<t, i>>} /\ <<t, i>> \in Counted
    BY <2>2, <2>3 DEF Counted
  <2>5. Cardinality(Counted') = Cardinality(Counted) - 1
    <3>1. IsFiniteSet(Counted)
      BY SetsFinite
    <3>2. PICK a : Counted' = Counted \ {a} /\ a \in Counted
      BY <2>4
    <3>3. Cardinality(Counted \ {a}) = Cardinality(Counted) - 1
      BY <3>1, <3>2, FS_RemoveElement
    <3>. QED
      BY <3>2, <3>3
  <2>6. reading' = reading - 1 /\ readthreadids' = readthreadids
    BY <1>4 DEF Release
  <2>. QED
    BY <2>1, <2>5, <2>6 DEF CountsExact
<1>5. ASSUME \A u \in Threads : /\ CountedOf(u)' = CountedOf(u)
                                /\ MappedOf(u)' = MappedOf(u),
             reading' = reading, readthreadids' = readthreadids
      PROVE  CountsExact'
  <2>1. Counted' = Counted
    BY <1>5 DEF Counted
  <2>. QED
    BY <1>5, <2>1 DEF CountsExact
<1>6. CASE Acquire(t) \/ Refused(t) \/ Test(t) \/ Backoff(t) \/ Unlock(t)
  <2>1. \A u \in Threads : CountedOf(u)' = CountedOf(u) /\ MappedOf(u)' = MappedOf(u)
    BY <1>6 DEF Acquire, Refused, Test, Backoff, Unlock, CountedOf, MappedOf
  <2>. QED
    BY <1>5, <1>6, <2>1 DEF Acquire, Refused, Test, Backoff, Unlock
<1>7. ASSUME NEW i \in Slots, NEW o \in Ops, Call(t, o, i) PROVE CountsExact'
  <2>1. \A u \in Threads : CountedOf(u)' = CountedOf(u) /\ MappedOf(u)' = MappedOf(u)
    BY <1>7 DEF Call, CountedOf, MappedOf
  <2>. QED
    BY <1>5, <1>7, <2>1 DEF Call
<1>. QED
  BY <1>1, <1>2, <1>3, <1>4, <1>6, <1>7 DEF Inner

-----------------------------------------------------------------------------

\* Without a conflict the counters say that nobody else has an access, and
\* with strict_access that the thread itself has none.
LEMMA NoConflict ==
  ASSUME IInv, NEW t \in Threads, ~Conflict(t)
  PROVE  /\ \A u \in Threads \ {t} : reads[u] = {} /\ writes[u] = {}
         /\ access_type = "strict_access" => reads[t] = {} /\ writes[t] = {}
<1>1. CASE access_type = "strict_access"
  <2>1. Counted = {}
    BY <1>1, SetsFinite, FS_EmptySet DEF Conflict, IInv, CountsExact
  <2>2. ASSUME NEW u \in Threads PROVE reads[u] = {} /\ writes[u] = {}
    <3>1. ASSUME NEW i \in reads[u] \cup writes[u] PROVE FALSE
      <4>1. i \in Slots
        BY <3>1 DEF IInv, Fields
      <4>2. <<u, i>> \in Counted
        BY <3>1, <4>1 DEF Counted, CountedOf
      <4>. QED
        BY <2>1, <4>2
    <3>. QED
      BY <3>1
  <2>. QED
    BY <2>2
<1>2. CASE access_type # "strict_access"
  <2>1. ASSUME NEW u \in Threads \ {t} PROVE MappedOf(u) = {}
    <3>1. Cardinality(MappedOf(u)) \in Nat /\ IsFiniteSet(MappedOf(u))
      BY SetsFinite, FS_CardinalityType DEF IInv
    <3>2. Cardinality(MappedOf(u)) = 0
      BY <1>2, <3>1 DEF Conflict, IInv, CountsExact
    <3>. QED
      BY <3>1, <3>2, FS_EmptySet
  <2>. QED
    BY <1>2, <2>1 DEF MappedOf
<1>. QED
  BY <1>1, <1>2

\* Whoever has the lock is alone with it.
LEMMA OneLock ==
  ASSUME IInv, NEW t \in Threads, NEW u \in Threads, t # u, HasLock(t)
  PROVE  ~HasLock(u) /\ writes[u] = {}
BY DEF IInv, LockExact, LocksOf

\* Every step keeps writers alone: the test under the lock admits a thread only
\* when nobody else has an access, and nobody gets one while it writes.
LEMMA StepAdmitted ==
  ASSUME IInv, NEW t \in Threads,
         \/ Inner(t)
         \/ \E i \in Slots : Release(t, i) \/ \E o \in Ops : Call(t, o, i)
  PROVE  AdmittedAlone' /\ StrictAlone'
<1> USE DEF IInv, Fields, SlotsApart, Labels, Ops, ReadOps, Goto, lock, counters,
            objects, AdmittedAlone, Admitted, StrictAlone, HasLock
<1>1. CASE Acquire(t)
  <2>1. access_type = "strict_access" => writes[t] = {}
    <3>1. access_type = "strict_access" => writing # t
      BY <1>1, SyncAssumption DEF Acquire, Free
    <3>. QED
      BY <3>1 DEF LockExact, LocksOf
  <2>. QED
    BY <1>1, <2>1 DEF Acquire
<1>2. CASE Refused(t)
  BY <1>2 DEF Refused
<1>3. CASE Test(t)
  <2>1. CASE ~Conflict(t)
    BY <1>3, <2>1, NoConflict, OneLock DEF Test
  <2>2. CASE Conflict(t)
    BY <1>3, <2>2 DEF Test
  <2>. QED
    BY <2>1, <2>2
<1>4. CASE Backoff(t) \/ Unlock(t)
  BY <1>4 DEF Backoff, Unlock
<1>5. CASE Count(t)
  BY <1>5 DEF Count
<1>6. CASE Map(t)
  <2>1. \A u \in Threads \ {t} : ~HasLock(u) /\ writes[u] = {}
    BY <1>6, OneLock DEF Map
  <2>2. CASE op[t] \in ReadOps
    BY <1>6, <2>1, <2>2 DEF Map
  <2>3. CASE op[t] \notin ReadOps
    BY <1>6, <2>1, <2>3 DEF Map
  <2>. QED
    BY <2>2, <2>3
<1>7. CASE Uncount(t)
  BY <1>7 DEF Uncount
<1>8. ASSUME NEW i \in Slots, Release(t, i) PROVE AdmittedAlone' /\ StrictAlone'
  BY <1>8 DEF Release
<1>9. ASSUME NEW i \in Slots, NEW o \in Ops, Call(t, o, i)
      PROVE  AdmittedAlone' /\ StrictAlone'
  BY <1>9 DEF Call
<1>. QED
  BY <1>1, <1>2, <1>3, <1>4, <1>5, <1>6, <1>7, <1>8, <1>9 DEF Inner

\* Every step of every thread preserves the inductive invariant.
LEMMA StepInv == IInv /\ [Next]_vars => IInv'
<1> SUFFICES ASSUME IInv, [Next]_vars PROVE IInv'
  OBVIOUS
<1>1. CASE Next
  BY <1>1, StepFields, StepLock, StepCounts, StepAdmitted DEF Next, IInv
<1>2. CASE UNCHANGED vars
  <2>1. Fields' /\ SlotsApart' /\ FreeIsZero'
    BY <1>2 DEF vars, IInv, Fields, SlotsApart, FreeIsZero
  <2>2. \A t \in Threads : /\ HasLock(t)' = HasLock(t)
                           /\ LocksOf(t)' = LocksOf(t)
                           /\ MappedOf(t)' = MappedOf(t)
                           /\ CountedOf(t)' = CountedOf(t)
                           /\ Admitted(t)' = Admitted(t)
    BY <1>2 DEF vars, HasLock, LocksOf, MappedOf, CountedOf, Admitted
  <2>3. LockExact' /\ CountsExact'
    BY <1>2, <2>2 DEF vars, IInv, LockExact, CountsExact, Counted
  <2>4. AdmittedAlone' /\ StrictAlone'
    BY <1>2, <2>2 DEF vars, IInv, AdmittedAlone, StrictAlone
  <2>. QED
    BY <2>1, <2>3, <2>4 DEF IInv
<1>. QED
  BY <1>1, <1>2

-----------------------------------------------------------------------------

\* The inductive invariant holds in every reachable state.
THEOREM Invariance == Spec => []IInv
BY InitInv, StepInv, PTL DEF Spec

\* Every variable keeps its type: no counter underflows.
THEOREM TypeCorrect == Spec => []TypeOK
<1>1. ASSUME IInv PROVE TypeOK
  <2>1. Cardinality(Counted) \in Nat
    BY <1>1, SetsFinite, FS_CardinalityType DEF IInv
  <2>2. \A t \in Threads : Cardinality(MappedOf(t)) \in Nat
    BY <1>1, SetsFinite, FS_CardinalityType DEF IInv
  <2>. QED
    BY <1>1, <2>1, <2>2 DEF IInv, Fields, CountsExact, TypeOK
<1>. QED
  BY <1>1, Invariance, PTL

\* The counters count the accesses exactly.
THEOREM Counting == Spec => []CountsExact
<1>1. IInv => CountsExact
  BY DEF IInv
<1>. QED
  BY <1>1, Invariance, PTL

\* While a thread can write no other thread has any access.
THEOREM Exclusion == Spec => []WriterExcludes
<1>1. IInv => WriterExcludes
  BY DEF IInv, AdmittedAlone, Admitted, WriterExcludes
<1>. QED
  BY <1>1, Invariance, PTL

\* With strict_access the thread that can write has nothing else itself.
THEOREM Strictness == Spec => []StrictIsExclusive
<1>1. IInv => StrictIsExclusive
  BY DEF IInv, StrictAlone, StrictIsExclusive
<1>. QED
  BY <1>1, Invariance, PTL

\* With strict_access a thread that backs off and waits for the others has no
\* access of its own: the counters, which it tests, tell it exactly that.
THEOREM StrictWaiting == Spec => []StrictWaiterHasNothing
<1> DEFINE Good == IInv /\ StrictWaiterHasNothing
<1>1. Init => StrictWaiterHasNothing
  BY DEF Init, StrictWaiterHasNothing
<1>2. ASSUME Good, [Next]_vars PROVE StrictWaiterHasNothing'
  <2> SUFFICES ASSUME access_type' = "strict_access",
                      NEW t \in Threads, pc'[t] = "backoff"
               PROVE  reads'[t] = {} /\ writes'[t] = {}
    BY DEF StrictWaiterHasNothing
  <2> USE <1>2 DEF IInv, Fields, Labels, Goto, lock, counters, objects
  <2>1. ASSUME Test(t) PROVE reads'[t] = {} /\ writes'[t] = {}
    <3>1. readthreadids[t] = 0 /\ pc[t] = "test"
      BY <2>1 DEF Test
    <3>2. MappedOf(t) = {}
      BY <3>1, SetsFinite, FS_EmptySet DEF CountsExact
    <3>. QED
      BY <2>1, <3>2 DEF Test, MappedOf
  <2>2. CASE pc[t] # "backoff"
    <3>1. Test(t)
      BY <2>2 DEF Next, Inner, Test, Acquire, Refused, Backoff, Count, Map, Unlock,
                  Uncount, Release, Call, vars
    <3>. QED
      BY <3>1, <2>1
  <2>3. CASE pc[t] = "backoff"
    <3>1. reads[t] = {} /\ writes[t] = {} /\ pc'[t] = pc[t]
      BY <2>3 DEF StrictWaiterHasNothing, Next, Inner, Test, Acquire, Refused, Backoff,
                  Count, Map, Unlock, Uncount, Release, Call, vars
    <3>. QED
      BY <2>3, <3>1 DEF Next, Inner, Test, Acquire, Refused, Backoff, Count, Map,
                        Unlock, Uncount, Release, Call, vars
  <2>. QED
    BY <2>2, <2>3
<1>3. Init => Good
  BY <1>1, InitInv
<1>4. Good /\ [Next]_vars => Good'
  BY <1>2, StepInv
<1>5. Good => StrictWaiterHasNothing
  OBVIOUS
<1>. QED
  BY <1>3, <1>4, <1>5, PTL DEF Spec

-----------------------------------------------------------------------------

\* A step of SyncAccess grants an access, drops one, or changes none.
LEMMA UsersStep == IInv /\ [Next]_vars => [Users!Next]_<<reads, writes>>
<1> SUFFICES ASSUME IInv, [Next]_vars
             PROVE  Users!Next \/ UNCHANGED <<reads, writes>>
  OBVIOUS
<1>1. ASSUME NEW t \in Threads, Map(t) PROVE Users!Next
  <2> USE <1>1 DEF IInv, Fields, HasLock, Map
  <2>1. \A u \in Threads \ {t} : writes[u] = {}
    BY OneLock
  <2>2. CASE op[t] \in ReadOps
    BY <2>1, <2>2 DEF Users!Next, Users!GrantRead
  <2>3. CASE op[t] \notin ReadOps
    <3>1. \A u \in Threads \ {t} : reads[u] = {} /\ writes[u] = {}
      BY <2>3 DEF AdmittedAlone, Admitted
    <3>. QED
      BY <2>3, <3>1 DEF Users!Next, Users!GrantWrite
  <2>. QED
    BY <2>2, <2>3
<1>2. ASSUME NEW t \in Threads, NEW i \in Slots, Release(t, i) PROVE Users!Next
  BY <1>2 DEF Release, Users!Next, Users!Drop
<1>3. ASSUME NEW t \in Threads, Inner(t), ~Map(t)
      PROVE  UNCHANGED <<reads, writes>>
  BY <1>3 DEF Inner, Acquire, Refused, Test, Backoff, Count, Unlock, Uncount, objects
<1>4. ASSUME NEW t \in Threads, NEW i \in Slots, NEW o \in Ops, Call(t, o, i)
      PROVE  UNCHANGED <<reads, writes>>
  BY <1>4 DEF Call, objects
<1>5. CASE UNCHANGED vars
  BY <1>5 DEF vars
<1>. QED
  BY <1>1, <1>2, <1>3, <1>4, <1>5 DEF Next

\* SyncAccess gives its users what ReadersWriter promises them.
THEOREM Refinement == Spec => ImplementsReadersWriter
<1>1. Init => Users!Init
  BY DEF Init, Users!Init
<1>. QED
  BY <1>1, UsersStep, Invariance, PTL
     DEF Spec, ImplementsReadersWriter, Users!Spec, Users!vars
=============================================================================
