-------------------------- MODULE MutexAtomicFlag --------------------------
(***************************************************************************)
(* mutex_atomicflag (headeronly/mutex_atomicflag.h), the spin lock under   *)
(* Semaphore, Signal and ContainerMitSuche, together with the lock_guard   *)
(* and trylock_guard that call it.  Every access to the atomic flag and    *)
(* every access to the plain field locking_thread is a step of its own, so *)
(* that the window between test_and_set and the store of the owner, the    *)
(* window between the reset of the owner and clear, and the moment during  *)
(* which islocked() itself owns the flag are all visible to other threads. *)
(*                                                                         *)
(* locking_thread is a plain std::thread::id that lock() reads while       *)
(* another thread may store it.  It is a word, and a racing read returns   *)
(* the value before or after the store: the interleavings of the separate  *)
(* read and store steps below are these outcomes.                          *)
(***************************************************************************)

CONSTANTS Threads, NoThread,
          Pollers      \* the threads that call islocked()

ASSUME ThreadsAssumption ==
  /\ NoThread \notin Threads
  /\ Pollers \subseteq Threads

VARIABLES
  flag,            \* std::atomic_flag
  locking_thread,  \* the owner noted for the deadlock detection
  guard,           \* the threads whose lock_guard is locked
  pc               \* where each thread is inside a method, "idle" between calls

vars == <<flag, locking_thread, guard, pc>>

Labels == {"idle",    \* in no method of the mutex
           "owner",   \* the flag is taken, the owner is stored next
           "compare", \* lock(): the flag was set, the owner is read next
           "spin",    \* lock(): in the test_and_set loop
           "thrown",  \* lock() has thrown deadlock_exception
           "clear",   \* unlock(): the owner is reset, the flag is cleared next
           "probe"}   \* islocked(): it took the flag itself and clears it next

TypeOK ==
  /\ flag \in BOOLEAN
  /\ locking_thread \in Threads \cup {NoThread}
  /\ guard \in SUBSET Threads
  /\ pc \in [Threads -> Labels]

Init ==
  /\ flag = FALSE
  /\ locking_thread = NoThread
  /\ guard = {}
  /\ pc = [t \in Threads |-> "idle"]

Goto(t, label) == pc' = [pc EXCEPT ![t] = label]

-----------------------------------------------------------------------------

(***************************************************************************)
(* Faulty variants of the actions below, one for each property: what a     *)
(* plausible slip in the code would do.  None is part of Next.             *)
(***************************************************************************)

\* unlock() leaves its owner behind in locking_thread.
MutantOwnerNotReset(t) ==
  /\ pc[t] = "idle"
  /\ t \in guard
  /\ guard' = guard \ {t}
  /\ Goto(t, "clear")
  /\ UNCHANGED <<flag, locking_thread>>

\* The guard whose constructor throws unlocks the mutex.
MutantThrowUnlocks(t) ==
  /\ pc[t] = "thrown"
  /\ flag' = FALSE
  /\ Goto(t, "idle")
  /\ UNCHANGED <<locking_thread, guard>>

\* unlock() forgets to clear the flag.
MutantFlagKept(t) ==
  /\ pc[t] = "clear"
  /\ Goto(t, "idle")
  /\ UNCHANGED <<flag, locking_thread, guard>>

-----------------------------------------------------------------------------

\* The first test_and_set of lock() or of try_lock() finds the flag clear.
\* A try_lock() that finds it set returns false and changes nothing.
TakeFlag(t) ==
  /\ pc[t] = "idle"
  /\ ~flag
  /\ flag' = TRUE
  /\ Goto(t, "owner")
  /\ UNCHANGED <<locking_thread, guard>>

\* The first test_and_set of lock() finds the flag set, possibly by t itself.
FlagWasSet(t) ==
  /\ pc[t] = "idle"
  /\ flag
  /\ Goto(t, "compare")
  /\ UNCHANGED <<flag, locking_thread, guard>>

\* lock() compares the owner: its own thread is a deadlock, which it throws.
CompareOwner(t) ==
  /\ pc[t] = "compare"
  /\ Goto(t, IF locking_thread = t THEN "thrown" ELSE "spin")
  /\ UNCHANGED <<flag, locking_thread, guard>>

\* A test_and_set of the loop succeeds; one that fails only yields.
SpinTakesFlag(t) ==
  /\ pc[t] = "spin"
  /\ ~flag
  /\ flag' = TRUE
  /\ Goto(t, "owner")
  /\ UNCHANGED <<locking_thread, guard>>

\* The owner is stored, the method returns and the guard is locked.
StoreOwner(t) ==
  /\ pc[t] = "owner"
  /\ locking_thread' = t
  /\ guard' = guard \cup {t}
  /\ Goto(t, "idle")
  /\ UNCHANGED flag

\* The caller handles deadlock_exception; a guard under construction is gone,
\* the one the thread already had is still locked.
HandleException(t) ==
  /\ pc[t] = "thrown"
  /\ Goto(t, "idle")
  /\ UNCHANGED <<flag, locking_thread, guard>>

\* lock_guard::unlock or its destructor: the guard is marked unlocked before
\* the mutex is, and unlock() resets the owner before it clears the flag.
ResetOwner(t) ==
  /\ pc[t] = "idle"
  /\ t \in guard
  /\ guard' = guard \ {t}
  /\ locking_thread' = NoThread
  /\ Goto(t, "clear")
  /\ UNCHANGED flag

ClearFlag(t) ==
  /\ pc[t] = "clear"
  /\ flag' = FALSE
  /\ Goto(t, "idle")
  /\ UNCHANGED <<locking_thread, guard>>

\* islocked() on a free mutex takes the flag for a moment, without an owner.
\* On a mutex that is locked its test_and_set changes nothing.
ProbeTakesFlag(t) ==
  /\ pc[t] = "idle"
  /\ t \in Pollers
  /\ ~flag
  /\ flag' = TRUE
  /\ Goto(t, "probe")
  /\ UNCHANGED <<locking_thread, guard>>

ProbeClearsFlag(t) ==
  /\ pc[t] = "probe"
  /\ flag' = FALSE
  /\ Goto(t, "idle")
  /\ UNCHANGED <<locking_thread, guard>>

Next ==
  \E t \in Threads :
    \/ TakeFlag(t) \/ FlagWasSet(t) \/ CompareOwner(t) \/ SpinTakesFlag(t)
    \/ StoreOwner(t) \/ HandleException(t)
    \/ ResetOwner(t) \/ ClearFlag(t)
    \/ ProbeTakesFlag(t) \/ ProbeClearsFlag(t)

Spec == Init /\ [][Next]_vars

(***************************************************************************)
(* Fairness: the scheduler runs every thread that is inside a method.  The *)
(* guard is a local object: its thread destroys it at the end of its scope *)
(* even if it keeps calling the mutex before, hence strong fairness there. *)
(* Nothing makes a thread call lock(), and the loop, which only yields,    *)
(* favours no spinning thread: it has weak fairness.                       *)
(***************************************************************************)
Fairness ==
  \A t \in Threads :
    /\ WF_vars(CompareOwner(t)) /\ WF_vars(SpinTakesFlag(t))
    /\ WF_vars(StoreOwner(t)) /\ WF_vars(HandleException(t))
    /\ SF_vars(ResetOwner(t)) /\ WF_vars(ClearFlag(t))
    /\ WF_vars(ProbeClearsFlag(t))

FairSpec == Spec /\ Fairness

-----------------------------------------------------------------------------

\* The threads on whose behalf the flag is set.
Inside == guard \cup {t \in Threads : pc[t] \in {"owner", "clear", "probe"}}

\* Two threads never have a locked guard of the same mutex, although
\* islocked() of a third takes and clears the very flag the lock is made of.
MutualExclusion == \A t, u \in guard : t = u

\* The deadlock detection is exact: lock() throws only in a thread that has
\* the lock already, never because of an owner left over from an earlier or
\* another critical section, and a thread that has the lock never ends up in
\* the endless test_and_set loop.
DeadlockDetectionExact ==
  \A t \in Threads :
    /\ pc[t] = "thrown" => t \in guard
    /\ pc[t] = "spin" => t \notin guard

\* The flag is set exactly as long as one thread is inside, and clearing it,
\* by unlock() or by islocked(), never opens the lock of another thread.
FlagHasOneCause ==
  /\ flag <=> Inside # {}
  /\ \A t, u \in Inside : t = u

\* Unless islocked() is polled for ever, threads that spin in lock() are not
\* stuck: the flag is taken again by one of them or by a newcomer.
LockIsTakenOver ==
  <>[](\A t \in Threads : pc[t] # "probe") =>
    ((\E t \in Threads : pc[t] = "spin") ~> (\E t \in Threads : pc[t] = "owner"))

\* The lock its users rely on.
holder == IF guard = {} THEN NoThread ELSE CHOOSE t \in guard : TRUE

Lock == INSTANCE ExclusiveLock

ImplementsLock == Lock!Spec
=============================================================================
