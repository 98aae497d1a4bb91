---------------------- MODULE RecursiveMutexAtomicFlag ----------------------
(***************************************************************************)
(* recursive_mutex_atomicflag (headeronly/mutex_atomicflag.h): the atomic  *)
(* flag, the plain owner field and the reference counter, each accessed in *)
(* a step of its own.  lock() is try_lock() in a loop, so both share the   *)
(* steps below; `blocking' remembers which of them a thread is in.         *)
(***************************************************************************)
EXTENDS Naturals

CONSTANTS Threads, NoThread,
          Pollers,    \* the threads that call islocked()
          MaxDepth    \* bound: guards one thread has at a time

ASSUME ConstantsAssumption ==
  /\ NoThread \notin Threads
  /\ Pollers \subseteq Threads
  /\ MaxDepth \in Nat \ {0}

VARIABLES
  flag,            \* std::atomic_flag
  locking_thread,  \* the owner
  ref_count,       \* std::atomic_size_t, how often it is locked
  guards,          \* how many locked lock_guards each thread has
  blocking,        \* is the thread's call lock() (else try_lock())
  pc

vars == <<flag, locking_thread, ref_count, guards, blocking, pc>>

Labels == {"idle",
           "tas",     \* try_lock(): test_and_set is next
           "compare", \* the flag was set, the owner is compared next
           "addref",  \* the lock is this thread's, it is counted next
           "store",   \* it is counted, the owner is stored next
           "disown",  \* the count is zero, the owner is reset next
           "clear",   \* the flag is cleared next
           "probe"}   \* islocked() took the flag and clears it next

TypeOK ==
  /\ flag \in BOOLEAN
  /\ locking_thread \in Threads \cup {NoThread}
  /\ ref_count \in Nat
  /\ guards \in [Threads -> Nat]
  /\ blocking \in [Threads -> BOOLEAN]
  /\ pc \in [Threads -> Labels]

Init ==
  /\ flag = FALSE
  /\ locking_thread = NoThread
  /\ ref_count = 0
  /\ guards = [t \in Threads |-> 0]
  /\ blocking = [t \in Threads |-> FALSE]
  /\ pc = [t \in Threads |-> "idle"]

Goto(t, label) == pc' = [pc EXCEPT ![t] = label]

-----------------------------------------------------------------------------
(***************************************************************************)
(* Faulty variants, one for each property; none is part of Next.           *)
(***************************************************************************)

\* A flag without an owner noted is taken for this thread's own.
MutantUnownedAdmits(t) ==
  /\ pc[t] = "compare"
  /\ Goto(t, IF locking_thread \in {t, NoThread} THEN "addref"
             ELSE IF blocking[t] THEN "tas" ELSE "idle")
  /\ UNCHANGED <<flag, locking_thread, ref_count, guards, blocking>>

\* A nested lock is not counted.
MutantNotCounted(t) ==
  /\ pc[t] = "addref"
  /\ ref_count' = 1
  /\ Goto(t, "store")
  /\ UNCHANGED <<flag, locking_thread, guards, blocking>>

\* try_lock() does not store its thread.
MutantOwnerNotStored(t) ==
  /\ pc[t] = "store"
  /\ guards' = [guards EXCEPT ![t] = @ + 1]
  /\ Goto(t, "idle")
  /\ UNCHANGED <<flag, locking_thread, ref_count, blocking>>

-----------------------------------------------------------------------------

\* A guard is constructed with lock() or with try_lock().
BeginLock(t, wait) ==
  /\ pc[t] = "idle"
  /\ guards[t] < MaxDepth
  /\ blocking' = [blocking EXCEPT ![t] = wait]
  /\ Goto(t, "tas")
  /\ UNCHANGED <<flag, locking_thread, ref_count, guards>>

TestAndSet(t) ==
  /\ pc[t] = "tas"
  /\ flag' = TRUE
  /\ Goto(t, IF flag THEN "compare" ELSE "addref")
  /\ UNCHANGED <<locking_thread, ref_count, guards, blocking>>

\* The owner takes it once more; anybody else is refused, lock() tries again.
CompareOwner(t) ==
  /\ pc[t] = "compare"
  /\ Goto(t, IF locking_thread = t THEN "addref"
             ELSE IF blocking[t] THEN "tas" ELSE "idle")
  /\ UNCHANGED <<flag, locking_thread, ref_count, guards, blocking>>

AddRef(t) ==
  /\ pc[t] = "addref"
  /\ ref_count' = ref_count + 1
  /\ Goto(t, "store")
  /\ UNCHANGED <<flag, locking_thread, guards, blocking>>

StoreOwner(t) ==
  /\ pc[t] = "store"
  /\ locking_thread' = t
  /\ guards' = [guards EXCEPT ![t] = @ + 1]
  /\ Goto(t, "idle")
  /\ UNCHANGED <<flag, ref_count, blocking>>

\* unlock() of a guard: only the last one goes on to release the flag.
ReleaseRef(t) ==
  /\ pc[t] = "idle"
  /\ guards[t] > 0
  /\ guards' = [guards EXCEPT ![t] = @ - 1]
  /\ ref_count' = ref_count - 1
  /\ Goto(t, IF ref_count = 1 THEN "disown" ELSE "idle")
  /\ UNCHANGED <<flag, locking_thread, blocking>>

ResetOwner(t) ==
  /\ pc[t] = "disown"
  /\ locking_thread' = NoThread
  /\ Goto(t, "clear")
  /\ UNCHANGED <<flag, ref_count, guards, blocking>>

ClearFlag(t) ==
  /\ pc[t] = "clear"
  /\ flag' = FALSE
  /\ Goto(t, "idle")
  /\ UNCHANGED <<locking_thread, ref_count, guards, blocking>>

\* islocked(): a test_and_set that finds the flag clear is undone.
ProbeTakesFlag(t) ==
  /\ pc[t] = "idle"
  /\ t \in Pollers
  /\ ~flag
  /\ flag' = TRUE
  /\ Goto(t, "probe")
  /\ UNCHANGED <<locking_thread, ref_count, guards, blocking>>

ProbeClearsFlag(t) ==
  /\ pc[t] = "probe"
  /\ flag' = FALSE
  /\ Goto(t, "idle")
  /\ UNCHANGED <<locking_thread, ref_count, guards, blocking>>

Next ==
  \E t \in Threads :
    \/ \E wait \in BOOLEAN : BeginLock(t, wait)
    \/ TestAndSet(t) \/ CompareOwner(t) \/ AddRef(t) \/ StoreOwner(t)
    \/ ReleaseRef(t) \/ ResetOwner(t) \/ ClearFlag(t)
    \/ ProbeTakesFlag(t) \/ ProbeClearsFlag(t)

Spec == Init /\ [][Next]_vars

-----------------------------------------------------------------------------

Holders == {t \in Threads : guards[t] > 0}

\* Two threads never have locked guards of one recursive mutex.
MutualExclusion == \A t, u \in Holders : t = u

\* The counter is what the guards add up to, so that the unlock of a nested
\* guard does not release the lock and the unlock of the last one does; it
\* lags behind by the one guard whose try_lock() is about to return.
RefCountExact ==
  \A t \in Threads :
    /\ guards[t] > 0 =>
         /\ flag
         /\ ref_count = guards[t] + (IF pc[t] = "store" THEN 1 ELSE 0)
    /\ pc[t] \in {"disown", "clear", "probe"} => ref_count = 0

\* A thread that has the lock always gets it again: its comparison with the
\* unprotected owner field never makes try_lock() refuse or lock() spin.
OwnerNeverRefused ==
  \A t \in Threads : guards[t] > 0 /\ pc[t] = "compare" => locking_thread = t

\* A thread that does not have the lock never passes for its owner.
StrangerNeverAdmitted ==
  \A t \in Threads : guards[t] = 0 => locking_thread # t \/ pc[t] = "disown"

\* try_lock() always tells the owner from a stranger, though it reads the owner
\* field without any protection.
OwnerIsKnown == OwnerNeverRefused /\ StrangerNeverAdmitted

\* The recursive lock its users rely on.
holder == IF Holders = {} THEN NoThread ELSE CHOOSE t \in Holders : TRUE
depth == IF Holders = {} THEN 0 ELSE guards[holder]

Lock == INSTANCE ReentrantLock

ImplementsReentrantLock == Lock!Spec
=============================================================================
