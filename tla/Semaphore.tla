----------------------------- MODULE Semaphore -----------------------------
(***************************************************************************)
(* WS::Semaphore (headeronly/semaphore.h): a gate that threads pass while  *)
(* it is running and wait at while it is blocked, with pulse() to let      *)
(* every waiting thread pass once.  The module follows one call of a       *)
(* method from its lock of state_mutex to its return; every access to the  *)
(* shared fields, to the condition variable and to the two mutexes is a    *)
(* step of its own.                                                        *)
(*                                                                         *)
(* state_mutex is a mutex_atomicflag; here it is the exclusive lock which  *)
(* MutexAtomicFlag implements.  wait_mutex and cv are std::mutex and       *)
(* std::condition_variable: waiting releases the mutex and blocks in one   *)
(* step, a notification reaches only threads that are blocked at that      *)
(* moment, and a blocked thread may wake without one.                      *)
(***************************************************************************)
EXTENDS Naturals, FiniteSets

CONSTANTS Threads, NoThread,
          CallsOf,    \* the methods each thread calls
          Spurious    \* may cv.wait wake up without a notification

Waits == {"wait", "set_blocked_and_wait"}
Opens == {"run_all", "run_one", "run_none", "pulse"}
Queries == {"is_signaled", "is_blocked"}
Calls == Waits \cup Opens \cup Queries \cup {"set_blocked", "notify_all"}

ASSUME ConstantsAssumption ==
  /\ NoThread \notin Threads
  /\ IsFiniteSet(Threads)
  /\ CallsOf \in [Threads -> SUBSET Calls]
  /\ Spurious \in BOOLEAN

VARIABLES
  running,          \* is the gate open
  waiting_counter,  \* how many threads have registered as waiting
  state_mutex,      \* the thread that holds it, or NoThread
  wait_mutex,       \* the same
  cv,               \* the threads blocked in the condition variable
  pc, call,         \* where each thread is in which method
  seen,             \* the value of running a thread has read last
  threads_waiting,  \* an opening call: waiting_counter before it opened
  counter           \* an opening call: rounds since the last notification

vars == <<running, waiting_counter, state_mutex, wait_mutex, cv, pc, call,
          seen, threads_waiting, counter>>

gate == <<running, waiting_counter>>
mutexes == <<state_mutex, wait_mutex>>
locals == <<call, seen, threads_waiting, counter>>

Labels == {"idle",
           "lock",    \* about to lock state_mutex
           "block", "test", "open", "query",  \* the body, with state_mutex
           "wlock",   \* _wait(): about to lock wait_mutex
           "pred",    \* the predicate reads running
           "count",   \* the predicate counts the thread in or out
           "letgo",   \* the predicate unlocks state_mutex
           "sleep",   \* cv.wait releases wait_mutex and blocks
           "asleep",  \* blocked in cv, or notified and not yet running
           "leave",   \* cv.wait returns, wait_mutex is released
           "set", "notify", "drain", "close",  \* opening, with state_mutex
           "unlock"}  \* the method returns and unlocks state_mutex

TypeOK ==
  /\ running \in BOOLEAN
  /\ waiting_counter \in Nat
  /\ state_mutex \in Threads \cup {NoThread}
  /\ wait_mutex \in Threads \cup {NoThread}
  /\ cv \in SUBSET Threads
  /\ pc \in [Threads -> Labels]
  /\ call \in [Threads -> Calls \cup {"none"}]
  /\ seen \in [Threads -> BOOLEAN]
  /\ threads_waiting \in [Threads -> Nat]
  /\ counter \in [Threads -> Nat]

Init ==
  /\ running = FALSE
  /\ waiting_counter = 0
  /\ state_mutex = NoThread
  /\ wait_mutex = NoThread
  /\ cv = {}
  /\ pc = [t \in Threads |-> "idle"]
  /\ call = [t \in Threads |-> "none"]
  /\ seen = [t \in Threads |-> FALSE]
  /\ threads_waiting = [t \in Threads |-> 0]
  /\ counter = [t \in Threads |-> 0]

Goto(t, label) == pc' = [pc EXCEPT ![t] = label]

\* What a method does first once it has state_mutex.
Body(c) ==
  CASE c = "wait" -> "test"
    [] c \in {"set_blocked", "set_blocked_and_wait"} -> "block"
    [] c \in Opens -> "open"
    [] c \in Queries -> "query"
    [] OTHER -> "idle"

\* notify_one wakes some blocked thread, notify_all every one of them.
NotifyCv(c) ==
  IF c = "run_one" /\ cv # {} THEN \E t \in cv : cv' = cv \ {t}
                              ELSE cv' = {}

\* The threads that are counted in waiting_counter: from the first evaluation
\* of the predicate, in which they still hold state_mutex, to the last one.
Waiters ==
  {t \in Threads :
     \/ pc[t] \in {"sleep", "asleep"}
     \/ pc[t] = "letgo" /\ ~seen[t]
     \/ pc[t] \in {"pred", "count"} /\ state_mutex # t}

-----------------------------------------------------------------------------
(***************************************************************************)
(* Faulty variants, one for each property; none is part of Next.           *)
(***************************************************************************)

\* set_blocked_and_wait() as set_blocked(); wait(): state_mutex is free between.
MutantBlockThenWait(t) ==
  /\ pc[t] = "block"
  /\ running' = FALSE
  /\ IF call[t] = "set_blocked_and_wait"
     THEN /\ state_mutex' = NoThread
          /\ Goto(t, "lock")
          /\ call' = [call EXCEPT ![t] = "wait"]
     ELSE /\ Goto(t, "unlock")
          /\ UNCHANGED <<state_mutex, call>>
  /\ UNCHANGED <<waiting_counter, wait_mutex, cv, seen, threads_waiting, counter>>

\* The predicate does not count the thread out.
MutantNeverCountedOut(t) ==
  /\ pc[t] = "count"
  /\ waiting_counter' = IF ~seen[t] /\ state_mutex = t THEN waiting_counter + 1
                                                       ELSE waiting_counter
  /\ Goto(t, IF state_mutex = t THEN "letgo"
             ELSE IF seen[t] THEN "leave" ELSE "sleep")
  /\ UNCHANGED <<running, mutexes, cv, locals>>

\* The opening call gives state_mutex back before its threads have left.
MutantUnlockBeforeDrain(t) ==
  /\ pc[t] = "notify"
  /\ NotifyCv(call[t])
  /\ state_mutex' = NoThread
  /\ counter' = [counter EXCEPT ![t] = 0]
  /\ Goto(t, "drain")
  /\ UNCHANGED <<gate, wait_mutex, call, seen, threads_waiting>>

\* The waiting loop never repeats its notification.
MutantNotifyOnce(t) ==
  /\ pc[t] = "drain"
  /\ waiting_counter # 0
  /\ call[t] = "run_one" => waiting_counter >= threads_waiting[t]
  /\ counter' = [counter EXCEPT ![t] = 1]
  /\ UNCHANGED <<gate, mutexes, cv, pc, call, seen, threads_waiting>>

-----------------------------------------------------------------------------

\* A thread calls a method that locks state_mutex.
Begin(t, c) ==
  /\ pc[t] = "idle"
  /\ c # "notify_all"
  /\ call' = [call EXCEPT ![t] = c]
  /\ Goto(t, "lock")
  /\ UNCHANGED <<gate, mutexes, cv, seen, threads_waiting, counter>>

LockState(t) ==
  /\ pc[t] = "lock"
  /\ state_mutex = NoThread
  /\ state_mutex' = t
  /\ Goto(t, Body(call[t]))
  /\ UNCHANGED <<gate, wait_mutex, cv, locals>>

\* The method returns; its lock of state_mutex is destroyed.
UnlockState(t) ==
  /\ pc[t] = "unlock"
  /\ state_mutex' = NoThread
  /\ Goto(t, "idle")
  /\ UNCHANGED <<gate, wait_mutex, cv, locals>>

\* is_signaled() and is_blocked(): both read running.
Query(t) ==
  /\ pc[t] = "query"
  /\ seen' = [seen EXCEPT ![t] = running]
  /\ Goto(t, "unlock")
  /\ UNCHANGED <<gate, mutexes, cv, call, threads_waiting, counter>>

\* set_blocked(), and set_blocked_and_wait() which goes on to wait without
\* giving state_mutex back.
SetBlocked(t) ==
  /\ pc[t] = "block"
  /\ running' = FALSE
  /\ Goto(t, IF call[t] = "set_blocked_and_wait" THEN "test" ELSE "unlock")
  /\ UNCHANGED <<waiting_counter, mutexes, cv, locals>>

-----------------------------------------------------------------------------
\* wait()

\* _wait() returns at once while the gate is open.
WaitTest(t) ==
  /\ pc[t] = "test"
  /\ Goto(t, IF running THEN "unlock" ELSE "wlock")
  /\ UNCHANGED <<gate, mutexes, cv, locals>>

LockWait(t) ==
  /\ pc[t] = "wlock"
  /\ wait_mutex = NoThread
  /\ wait_mutex' = t
  /\ Goto(t, "pred")
  /\ UNCHANGED <<gate, state_mutex, cv, locals>>

\* The predicate of cv.wait reads running into a local variable ...
PredRead(t) ==
  /\ pc[t] = "pred"
  /\ seen' = [seen EXCEPT ![t] = running]
  /\ Goto(t, "count")
  /\ UNCHANGED <<gate, mutexes, cv, call, threads_waiting, counter>>

\* ... counts the thread in on its first evaluation, which still holds
\* state_mutex, and out on the evaluation that lets it go ...
PredCount(t) ==
  /\ pc[t] = "count"
  /\ waiting_counter' =
       CASE ~seen[t] /\ state_mutex = t -> waiting_counter + 1
         [] seen[t] /\ state_mutex # t -> waiting_counter - 1
         [] OTHER -> waiting_counter
  /\ Goto(t, IF state_mutex = t THEN "letgo"
             ELSE IF seen[t] THEN "leave" ELSE "sleep")
  /\ UNCHANGED <<running, mutexes, cv, locals>>

\* ... and then, the first time, unlocks state_mutex.
PredUnlock(t) ==
  /\ pc[t] = "letgo"
  /\ state_mutex' = NoThread
  /\ Goto(t, IF seen[t] THEN "leave" ELSE "sleep")
  /\ UNCHANGED <<gate, wait_mutex, cv, locals>>

\* cv.wait blocks.  A notification sent before this step does not reach t.
Sleep(t) ==
  /\ pc[t] = "sleep"
  /\ wait_mutex' = NoThread
  /\ cv' = cv \cup {t}
  /\ Goto(t, "asleep")
  /\ UNCHANGED <<gate, state_mutex, locals>>

SpuriousWake(t) ==
  /\ Spurious
  /\ t \in cv
  /\ cv' = cv \ {t}
  /\ UNCHANGED <<gate, mutexes, pc, locals>>

\* A woken thread has wait_mutex again and evaluates the predicate.
Rewake(t) ==
  /\ pc[t] = "asleep"
  /\ t \notin cv
  /\ wait_mutex = NoThread
  /\ wait_mutex' = t
  /\ Goto(t, "pred")
  /\ UNCHANGED <<gate, state_mutex, cv, locals>>

Leave(t) ==
  /\ pc[t] = "leave"
  /\ wait_mutex' = NoThread
  /\ Goto(t, "idle")
  /\ UNCHANGED <<gate, state_mutex, cv, locals>>

-----------------------------------------------------------------------------
\* set_running(notify) and pulse()

\* Nothing to do when the gate is open already; else the number of waiting
\* threads is remembered.
Open(t) ==
  /\ pc[t] = "open"
  /\ IF running
     THEN Goto(t, "unlock") /\ UNCHANGED threads_waiting
     ELSE /\ Goto(t, "set")
          /\ threads_waiting' = [threads_waiting EXCEPT ![t] = waiting_counter]
  /\ UNCHANGED <<gate, mutexes, cv, call, seen, counter>>

SetRunning(t) ==
  /\ pc[t] = "set"
  /\ running' = TRUE
  /\ Goto(t, IF call[t] = "run_none" THEN "unlock" ELSE "notify")
  /\ UNCHANGED <<waiting_counter, mutexes, cv, locals>>

Notify(t) ==
  /\ pc[t] = "notify"
  /\ NotifyCv(call[t])
  /\ counter' = [counter EXCEPT ![t] = 0]
  /\ Goto(t, "drain")
  /\ UNCHANGED <<gate, mutexes, call, seen, threads_waiting>>

\* The waiting loop ends when no thread waits, or, after Notify::one, when
\* fewer wait than before.
DrainDone(t) ==
  /\ pc[t] = "drain"
  /\ \/ waiting_counter = 0
     \/ call[t] = "run_one" /\ waiting_counter < threads_waiting[t]
  /\ Goto(t, IF call[t] = "pulse" THEN "close" ELSE "unlock")
  /\ UNCHANGED <<gate, mutexes, cv, locals>>

\* It yields otherwise, and repeats the notification after a while.
DrainRetry(t) ==
  /\ pc[t] = "drain"
  /\ waiting_counter # 0
  /\ call[t] = "run_one" => waiting_counter >= threads_waiting[t]
  /\ IF counter[t] + 1 > threads_waiting[t]
     THEN NotifyCv(call[t]) /\ counter' = [counter EXCEPT ![t] = 0]
     ELSE UNCHANGED cv /\ counter' = [counter EXCEPT ![t] = @ + 1]
  /\ UNCHANGED <<gate, mutexes, pc, call, seen, threads_waiting>>

\* pulse() blocks the gate again.
Close(t) ==
  /\ pc[t] = "close"
  /\ running' = FALSE
  /\ Goto(t, "unlock")
  /\ UNCHANGED <<waiting_counter, mutexes, cv, locals>>

\* notify_all() alone, which takes no mutex.
NotifyAll(t) ==
  /\ pc[t] = "idle"
  /\ cv' = {}
  /\ UNCHANGED <<gate, mutexes, pc, locals>>

-----------------------------------------------------------------------------

\* One step of the method that t is in.
Step(t) ==
  \/ LockState(t) \/ UnlockState(t) \/ Query(t) \/ SetBlocked(t)
  \/ WaitTest(t) \/ LockWait(t) \/ PredRead(t) \/ PredCount(t)
  \/ PredUnlock(t) \/ Sleep(t) \/ Rewake(t) \/ Leave(t)
  \/ Open(t) \/ SetRunning(t) \/ Notify(t) \/ DrainDone(t)
  \/ DrainRetry(t) \/ Close(t)

Next ==
  \E t \in Threads :
    \/ \E c \in CallsOf[t] : Begin(t, c)
    \/ "notify_all" \in CallsOf[t] /\ NotifyAll(t)
    \/ SpuriousWake(t)
    \/ Step(t)

Spec == Init /\ [][Next]_vars

(***************************************************************************)
(* Fairness: the scheduler runs every thread that can take a step of its   *)
(* method.  Locking state_mutex is a spin loop that favours nobody, so it  *)
(* has weak fairness only, and no thread is obliged to call a method.      *)
(***************************************************************************)
Fairness == \A t \in Threads : WF_vars(Step(t))

FairSpec == Spec /\ Fairness

-----------------------------------------------------------------------------

\* pulse() and set_running() wait until waiting_counter is zero, so a thread
\* counted twice or not counted out would hang them and one not counted in
\* would miss its turn: the counter is exact at every step of the predicate.
WaitingExact == waiting_counter = Cardinality(Waiters)

\* A gate that is open has no waiting threads left, except during the call
\* that has just opened it (provided nobody opens it with Notify::one or
\* Notify::none).
OpenGateIsEmpty ==
  running /\ Waiters # {} => \E t \in Threads : pc[t] \in {"notify", "drain"}

\* The thread that holds state_mutex inside an opening call.
Pulsing(t) == call[t] = "pulse" /\ pc[t] \in {"notify", "drain", "close"}

\* pulse() gives every thread that waits at its start exactly one turn: until
\* it has blocked the gate again no thread starts to wait or passes the open
\* gate, and it blocks it only when all of them have left.
PulseIsOneTurn ==
  [][\A p \in Threads :
       Pulsing(p) =>
         /\ Waiters' \subseteq Waiters
         /\ \A t \in Threads : ~(pc[t] = "test" /\ pc'[t] = "unlock")
         /\ pc'[p] = "unlock" => Waiters' = {} /\ ~running']_vars

\* A thread that blocks the gate in order to wait at it is waiting before any
\* other thread can see the gate blocked, so the other side finds it counted.
BlockAndWaitIsAtomic ==
  [][\A t \in Threads :
       /\ state_mutex = t /\ state_mutex' # t
       /\ pc[t] # "unlock"
       => t \in Waiters' /\ ~running']_vars

\* A call that opens the gate returns: a notification that came before a
\* thread had blocked is repeated until all, or one, of them have left.
OpeningReturns ==
  \A t \in Threads : pc[t] = "notify" ~> pc[t] = "idle"

\* No wakeup is lost: a thread that waits when the gate is opened for all
\* gets through.
NoLostWakeup ==
  \A t, u \in Threads :
    t \in Waiters /\ pc[u] = "notify" /\ call[u] # "run_one" ~> t \notin Waiters
=============================================================================
