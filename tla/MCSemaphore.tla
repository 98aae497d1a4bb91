---------------------------- MODULE MCSemaphore ----------------------------
(***************************************************************************)
(* An instance of Semaphore for TLC.  Three threads are enough for two     *)
(* that wait, one of which blocks the gate itself, and one that opens it   *)
(* with each of the calls the class has for that.                          *)
(***************************************************************************)
EXTENDS Semaphore, TLC

CONSTANTS t1, t2, t3

MCThreads == {t1, t2, t3}

WorkersAndClock ==
  (t1 :> {"wait", "set_blocked_and_wait"})
    @@ (t2 :> {"wait"})
    @@ (t3 :> {"run_one", "run_none", "run_all", "pulse", "set_blocked", "notify_all", "is_signaled"})
=============================================================================
