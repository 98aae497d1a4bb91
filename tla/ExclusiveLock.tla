--------------------------- MODULE ExclusiveLock ---------------------------
(***************************************************************************)
(* What a lock of this library promises to the code that uses it: at most  *)
(* one thread holds it, a thread that asks gets it only when it is free,   *)
(* and only the holder gives it back.  MutexAtomicFlag is shown to         *)
(* implement this specification; Semaphore, Pipe and Signal, whose code    *)
(* takes such locks around short critical sections, use it in one step.    *)
(***************************************************************************)

CONSTANTS Threads,   \* the threads of the process
          NoThread   \* not a thread: the default-constructed std::thread::id

VARIABLE holder      \* the thread that holds the lock, or NoThread

TypeOK == holder \in Threads \cup {NoThread}

Init == holder = NoThread

\* lock() or try_lock() returns with the lock taken.
Acquire(t) ==
  /\ holder = NoThread
  /\ holder' = t

\* The guard of the holder is unlocked.
Release(t) ==
  /\ holder = t
  /\ holder' = NoThread

Next == \E t \in Threads : Acquire(t) \/ Release(t)

Spec == Init /\ [][Next]_holder
=============================================================================
