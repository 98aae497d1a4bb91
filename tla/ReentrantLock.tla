--------------------------- MODULE ReentrantLock ---------------------------
(***************************************************************************)
(* What a recursive lock promises: one thread holds it, may take it again, *)
(* and gives it up with as many releases as it made acquisitions.          *)
(* RecursiveMutexAtomicFlag is shown to implement this specification.      *)
(***************************************************************************)
EXTENDS Naturals

CONSTANTS Threads, NoThread

VARIABLES holder,   \* the thread that holds the lock, or NoThread
          depth     \* how often it holds it

vars == <<holder, depth>>

TypeOK ==
  /\ holder \in Threads \cup {NoThread}
  /\ depth \in Nat

Init ==
  /\ holder = NoThread
  /\ depth = 0

Acquire(t) ==
  /\ holder \in {NoThread, t}
  /\ holder' = t
  /\ depth' = depth + 1

Release(t) ==
  /\ holder = t
  /\ depth' = depth - 1
  /\ holder' = IF depth = 1 THEN NoThread ELSE t

Next == \E t \in Threads : Acquire(t) \/ Release(t)

Spec == Init /\ [][Next]_vars
=============================================================================
