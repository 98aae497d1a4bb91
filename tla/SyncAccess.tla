---------------------------- MODULE SyncAccess ----------------------------
(***************************************************************************)
(* WS::SyncAccess (headeronly/SyncReadWrite.h): read and write access to   *)
(* one resource.  A read access takes the write lock for a moment only, to *)
(* count itself in; a write access keeps it.  Accesses are released        *)
(* without the lock.  access_type chooses the lock:                        *)
(*   strict_access  Critical_atomic_flag, the algorithm of                 *)
(*                  MutexAtomicFlag: a thread that locks twice is told so  *)
(*   thread_write   Critical_recursive_mutex, a std::recursive_mutex       *)
(*                                                                         *)
(* A thread keeps an access object to itself, in one of its Slots.         *)
(***************************************************************************)
EXTENDS Naturals, FiniteSets

CONSTANTS Threads, NoThread, Slots,
          AccessTypes,  \* the instances of the template that are checked
          Known         \* the threads that are in readthreadids at the start

ASSUME SyncAssumption ==
  /\ NoThread \notin Threads
  /\ IsFiniteSet(Threads) /\ IsFiniteSet(Slots) /\ Slots # {}
  /\ AccessTypes \subseteq {"strict_access", "thread_write"}
  /\ Known \subseteq Threads

Ops == {"ReadAccessTry", "ReadAccessWait", "WriteAccessTry", "WriteAccessWait"}
ReadOps == {"ReadAccessTry", "ReadAccessWait"}
TryOps == {"ReadAccessTry", "WriteAccessTry"}

VARIABLES
  access_type,    \* never changes
  writing,        \* the thread that holds the write lock, or NoThread
  lock_count,     \* how often it holds it
  reading,        \* the number of accesses
  readthreadids,  \* the same for each thread
  known,          \* the keys of the map readthreadids
  reads, writes,  \* the access objects each thread has
  pc, op, slot    \* where each thread is in which method, for which object

vars == <<access_type, writing, lock_count, reading, readthreadids, known,
          reads, writes, pc, op, slot>>

lock == <<writing, lock_count>>
counters == <<reading, readthreadids, known>>
objects == <<reads, writes>>

Labels == {"idle", "lock", "test", "backoff", "count", "map", "unlock", "uncount"}

TypeOK ==
  /\ access_type \in AccessTypes
  /\ writing \in Threads \cup {NoThread}
  /\ lock_count \in Nat
  /\ reading \in Nat
  /\ readthreadids \in [Threads -> Nat]
  /\ known \subseteq Threads
  /\ reads \in [Threads -> SUBSET Slots]
  /\ writes \in [Threads -> SUBSET Slots]
  /\ pc \in [Threads -> Labels]
  /\ op \in [Threads -> Ops]
  /\ slot \in [Threads -> Slots]

Init ==
  /\ access_type \in AccessTypes
  /\ writing = NoThread
  /\ lock_count = 0
  /\ reading = 0
  /\ readthreadids = [t \in Threads |-> 0]
  /\ known = Known
  /\ reads = [t \in Threads |-> {}]
  /\ writes = [t \in Threads |-> {}]
  /\ pc = [t \in Threads |-> "idle"]
  /\ op = [t \in Threads |-> "ReadAccessTry"]
  /\ slot = [t \in Threads |-> CHOOSE i \in Slots : TRUE]

Goto(t, label) == pc' = [pc EXCEPT ![t] = label]

\* Can the write lock be taken by t now.
Free(t) == writing = NoThread \/ (access_type = "thread_write" /\ writing = t)

\* What keeps t, which has the write lock, from writing.
Conflict(t) ==
  IF access_type = "strict_access"
  THEN reading # 0
  ELSE \E u \in Threads \ {t} : readthreadids[u] > 0

-----------------------------------------------------------------------------
(***************************************************************************)
(* Faulty variants, none is part of Next.                                  *)
(***************************************************************************)

\* WriteAccessTry does not look at the accesses that are there already.
MutantTryIgnoresReaders(t) ==
  /\ pc[t] = "test"
  /\ Goto(t, IF ~Conflict(t) \/ op[t] = "WriteAccessTry" THEN "count"
             ELSE IF access_type = "strict_access" /\ readthreadids[t] # 0
             THEN "unlock" ELSE "backoff")
  /\ UNCHANGED <<access_type, lock, counters, objects, op, slot>>

\* WriteAccessWait does not look for an access of its own thread.
MutantNoSelfCheck(t) ==
  /\ pc[t] = "test"
  /\ Goto(t, IF ~Conflict(t) THEN "count"
             ELSE IF op[t] = "WriteAccessTry" THEN "unlock" ELSE "backoff")
  /\ UNCHANGED <<access_type, lock, counters, objects, op, slot>>

\* A write access is not counted for its thread.
MutantWriteNotCounted(t) ==
  /\ pc[t] = "map"
  /\ known' = known \cup {t}
  /\ IF op[t] \in ReadOps
     THEN /\ reads' = [reads EXCEPT ![t] = @ \cup {slot[t]}]
          /\ readthreadids' = [readthreadids EXCEPT ![t] = @ + 1]
          /\ Goto(t, "unlock")
          /\ UNCHANGED writes
     ELSE /\ writes' = [writes EXCEPT ![t] = @ \cup {slot[t]}]
          /\ Goto(t, "idle")
          /\ UNCHANGED <<reads, readthreadids>>
  /\ UNCHANGED <<access_type, lock, reading, op, slot>>

\* The first unlock gives back every nested lock of the recursive mutex.
MutantGiveBackAll(t) ==
  /\ lock_count' = 0
  /\ writing' = NoThread

-----------------------------------------------------------------------------

\* t gives the write lock back once.
GiveBack(t) ==
  /\ lock_count' = lock_count - 1
  /\ writing' = IF lock_count = 1 THEN NoThread ELSE t

\* A thread asks for an access and will keep it in a free slot.
Call(t, o, i) ==
  /\ pc[t] = "idle"
  /\ i \notin reads[t] \cup writes[t]
  /\ op' = [op EXCEPT ![t] = o]
  /\ slot' = [slot EXCEPT ![t] = i]
  /\ Goto(t, "lock")
  /\ UNCHANGED <<access_type, lock, counters, objects>>

\* writing.lock() or writing.try_lock() gets the write lock.
Acquire(t) ==
  /\ pc[t] = "lock"
  /\ Free(t)
  /\ writing' = t
  /\ lock_count' = lock_count + 1
  /\ Goto(t, IF op[t] \in ReadOps THEN "count" ELSE "test")
  /\ UNCHANGED <<access_type, counters, objects, op, slot>>

\* writing.try_lock() fails: an empty access is returned.  writing.lock() of
\* strict_access throws in the thread that has the lock.
Refused(t) ==
  /\ pc[t] = "lock"
  /\ ~Free(t)
  /\ op[t] \in TryOps \/ writing = t
  /\ Goto(t, "idle")
  /\ UNCHANGED <<access_type, lock, counters, objects, op, slot>>

\* WriteAccessTry and WriteAccessWait test with the lock whether there are
\* conflicting accesses.  If so the first gives up; so does the second, with
\* an exception, if it is strict and has an access itself; else it backs off.
Test(t) ==
  /\ pc[t] = "test"
  /\ Goto(t, IF ~Conflict(t) THEN "count"
             ELSE IF op[t] = "WriteAccessTry"
                     \/ (access_type = "strict_access" /\ readthreadids[t] # 0)
             THEN "unlock" ELSE "backoff")
  /\ UNCHANGED <<access_type, lock, counters, objects, op, slot>>

Backoff(t) ==
  /\ pc[t] = "backoff"
  /\ GiveBack(t)
  /\ Goto(t, "lock")
  /\ UNCHANGED <<access_type, counters, objects, op, slot>>

\* ++reading ...
Count(t) ==
  /\ pc[t] = "count"
  /\ reading' = reading + 1
  /\ Goto(t, "map")
  /\ UNCHANGED <<access_type, lock, readthreadids, known, objects, op, slot>>

\* ... and ++readthreadids[this thread], which may insert the key.  The access
\* object is made: one for writing takes over the lock.
Map(t) ==
  /\ pc[t] = "map"
  /\ known' = known \cup {t}
  /\ readthreadids' = [readthreadids EXCEPT ![t] = @ + 1]
  /\ IF op[t] \in ReadOps
     THEN /\ reads' = [reads EXCEPT ![t] = @ \cup {slot[t]}]
          /\ Goto(t, "unlock")
          /\ UNCHANGED writes
     ELSE /\ writes' = [writes EXCEPT ![t] = @ \cup {slot[t]}]
          /\ Goto(t, "idle")
          /\ UNCHANGED reads
  /\ UNCHANGED <<access_type, lock, reading, op, slot>>

\* A Locked goes out of scope: of a read access, of one that was not given, or
\* of a write access that has been released.
Unlock(t) ==
  /\ pc[t] = "unlock"
  /\ GiveBack(t)
  /\ Goto(t, "idle")
  /\ UNCHANGED <<access_type, counters, objects, op, slot>>

\* Access::release, in any order of the objects: --reading ...
Release(t, i) ==
  /\ pc[t] = "idle"
  /\ i \in reads[t] \cup writes[t]
  /\ reads' = [reads EXCEPT ![t] = @ \ {i}]
  /\ writes' = [writes EXCEPT ![t] = @ \ {i}]
  /\ reading' = reading - 1
  /\ op' = [op EXCEPT ![t] = IF i \in reads[t] THEN "ReadAccessTry"
                                               ELSE "WriteAccessTry"]
  /\ slot' = [slot EXCEPT ![t] = i]
  /\ Goto(t, "uncount")
  /\ UNCHANGED <<access_type, lock, readthreadids, known>>

\* ... and --readthreadids[this thread]; then the lock of a write access.
Uncount(t) ==
  /\ pc[t] = "uncount"
  /\ readthreadids' = [readthreadids EXCEPT ![t] = @ - 1]
  /\ Goto(t, IF op[t] \in ReadOps THEN "idle" ELSE "unlock")
  /\ UNCHANGED <<access_type, lock, reading, known, objects, op, slot>>

-----------------------------------------------------------------------------

Inner(t) ==
  \/ Acquire(t) \/ Refused(t) \/ Test(t) \/ Backoff(t) \/ Count(t) \/ Map(t)
  \/ Unlock(t) \/ Uncount(t)

Next ==
  \E t \in Threads :
    \/ Inner(t)
    \/ \E i \in Slots : Release(t, i) \/ \E o \in Ops : Call(t, o, i)

Spec == Init /\ [][Next]_vars

(***************************************************************************)
(* A thread inside a method goes on and gets the write lock in the end if  *)
(* it is given back again and again; a thread outside releases what it has *)
(* got in the end, but it need not ask for anything.                       *)
(***************************************************************************)
Fairness ==
  \A t \in Threads :
    /\ WF_vars(Inner(t)) /\ SF_vars(Acquire(t))
    /\ \A i \in Slots : SF_vars(Release(t, i))

FairSpec == Spec /\ Fairness

-----------------------------------------------------------------------------

\* The accesses that are counted in reading, and those of t in readthreadids.
CountedOf(t) ==
  reads[t] \cup writes[t] \cup {i \in {slot[t]} : pc[t] = "map"}

Counted == {a \in Threads \X Slots : a[2] \in CountedOf(a[1])}

MappedOf(t) ==
  reads[t] \cup writes[t] \cup {i \in {slot[t]} : pc[t] = "uncount"}

\* The counters decide who may write, and they are changed without a lock when
\* an access is released: neither loses one or counts one twice.
CountsExact ==
  /\ reading = Cardinality(Counted)
  /\ \A t \in Threads : readthreadids[t] = Cardinality(MappedOf(t))

\* Nobody has any access while another thread can write.
WriterExcludes ==
  \A t, u \in Threads :
    t # u /\ writes[t] # {} => reads[u] = {} /\ writes[u] = {}

\* With strict_access a thread can have a write access or read accesses, and
\* one of the former.
StrictIsExclusive ==
  access_type = "strict_access" =>
    \A t \in Threads : \A i \in writes[t] : reads[t] = {} /\ writes[t] = {i}

\* With strict_access a thread that waits for the accesses of others has none
\* that they could be waiting for: it would have got the exception.
StrictWaiterHasNothing ==
  access_type = "strict_access" =>
    \A t \in Threads : pc[t] = "backoff" => reads[t] = {} /\ writes[t] = {}

\* What the users rely on.
Users == INSTANCE ReadersWriter

ImplementsReadersWriter == Users!Spec
=============================================================================
