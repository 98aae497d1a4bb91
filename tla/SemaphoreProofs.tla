-------------------------- MODULE SemaphoreProofs --------------------------
(***************************************************************************)
(* The gate of Semaphore for any number of threads.  The argument rests on *)
(* who may hold state_mutex at which label: waiting_counter and running    *)
(* change only under it, except for a waiting thread that leaves.          *)
(***************************************************************************)
EXTENDS Semaphore, FiniteSetTheorems, TLAPS

\* The labels at which a thread has state_mutex.
Inside == {"block", "test", "open", "query", "wlock", "letgo",
           "set", "notify", "drain", "close", "unlock"}

\* The types of everything but the counter, whose type follows from its value.
FieldTypes ==
  /\ running \in BOOLEAN
  /\ state_mutex \in Threads \cup {NoThread}
  /\ wait_mutex \in Threads \cup {NoThread}
  /\ cv \in SUBSET Threads
  /\ pc \in [Threads -> Labels]
  /\ call \in [Threads -> Calls \cup {"none"}]
  /\ seen \in [Threads -> BOOLEAN]
  /\ threads_waiting \in [Threads -> Nat]
  /\ counter \in [Threads -> Nat]

\* A thread inside a method has state_mutex; in the predicate it may have it.
StateOwned ==
  \A t \in Threads :
    /\ pc[t] \in Inside => state_mutex = t
    /\ state_mutex = t => pc[t] \in Inside \cup {"pred", "count"}

\* The first evaluation of the predicate finds the gate blocked.
FirstLook ==
  \A t \in Threads :
    state_mutex = t =>
      /\ pc[t] \in {"wlock", "pred", "count", "letgo"} => ~running
      /\ pc[t] \in {"count", "letgo"} => ~seen[t]

\* pulse() closes the gate when every thread is through.
TurnOver == \A t \in Threads : pc[t] = "close" => Waiters = {}

\* A thread that is inside a method has called it.
CallsMade ==
  \A t \in Threads : pc[t] # "idle" => call[t] \in CallsOf[t] \ {"notify_all"}

IInv ==
  /\ FieldTypes
  /\ CallsMade
  /\ StateOwned
  /\ FirstLook
  /\ WaitingExact
  /\ TurnOver

-----------------------------------------------------------------------------

\* The waiting threads can be counted.
LEMMA WaitersFinite == IsFiniteSet(Waiters) /\ Cardinality(Waiters) \in Nat
<1>1. Waiters \in SUBSET Threads
  BY DEF Waiters
<1>. QED
  BY <1>1, ConstantsAssumption, FS_Subset, FS_CardinalityType

\* The constructed semaphore satisfies the inductive invariant.
LEMMA InitInv == Init => IInv
<1> SUFFICES ASSUME Init PROVE IInv
  OBVIOUS
<1>1. Waiters = {}
  BY DEF Init, Waiters
<1>2. FieldTypes
  BY DEF Init, FieldTypes, Labels, Calls
<1>. QED
  BY <1>1, <1>2, ConstantsAssumption, FS_EmptySet
     DEF IInv, Init, CallsMade, StateOwned, Inside, FirstLook, WaitingExact, TurnOver

\* Only the predicate changes who is counted, and the counter with it.
LEMMA OthersKeepWaiters ==
  ASSUME IInv, [Next]_vars, \A t \in Threads : ~PredCount(t)
  PROVE  Waiters' = Waiters /\ waiting_counter' = waiting_counter
<1> USE DEF IInv, FieldTypes, Labels, StateOwned, Inside, FirstLook, Waiters, Goto,
            gate, mutexes, locals
<1>1. ASSUME NEW t \in Threads, NEW c \in CallsOf[t], Begin(t, c)
      PROVE  Waiters' = Waiters /\ waiting_counter' = waiting_counter
  BY <1>1 DEF Begin
<1>2. ASSUME NEW t \in Threads, NotifyAll(t)
      PROVE  Waiters' = Waiters /\ waiting_counter' = waiting_counter
  BY <1>2 DEF NotifyAll
<1>3. ASSUME NEW t \in Threads, SpuriousWake(t)
      PROVE  Waiters' = Waiters /\ waiting_counter' = waiting_counter
  BY <1>3 DEF SpuriousWake
<1>4. ASSUME NEW t \in Threads, LockState(t)
      PROVE  Waiters' = Waiters /\ waiting_counter' = waiting_counter
  <2>1. Body(call[t]) \in {"test", "block", "open", "query", "idle"}
    BY DEF Body
  <2>2. pc' = [pc EXCEPT ![t] = Body(call[t])] /\ pc[t] = "lock"
    BY <1>4 DEF LockState
  <2>3. \A u \in Threads : u \in Waiters' <=> u \in Waiters
    BY <1>4, <2>1, <2>2, ConstantsAssumption DEF LockState
  <2>. QED
    BY <1>4, <2>3 DEF LockState
<1>5. ASSUME NEW t \in Threads, UnlockState(t)
      PROVE  Waiters' = Waiters /\ waiting_counter' = waiting_counter
  BY <1>5, ConstantsAssumption DEF UnlockState
<1>6. ASSUME NEW t \in Threads, PredUnlock(t)
      PROVE  Waiters' = Waiters /\ waiting_counter' = waiting_counter
  BY <1>6, ConstantsAssumption DEF PredUnlock
<1>7. ASSUME NEW t \in Threads,
             Query(t) \/ SetBlocked(t) \/ WaitTest(t) \/ LockWait(t)
      PROVE  Waiters' = Waiters /\ waiting_counter' = waiting_counter
  BY <1>7 DEF Query, SetBlocked, WaitTest, LockWait
<1>8. ASSUME NEW t \in Threads,
             PredRead(t) \/ Sleep(t) \/ Rewake(t) \/ Leave(t)
      PROVE  Waiters' = Waiters /\ waiting_counter' = waiting_counter
  BY <1>8, ConstantsAssumption DEF PredRead, Sleep, Rewake, Leave
<1>9. ASSUME NEW t \in Threads,
             \/ Open(t) \/ SetRunning(t) \/ Notify(t)
             \/ DrainDone(t) \/ DrainRetry(t) \/ Close(t)
      PROVE  Waiters' = Waiters /\ waiting_counter' = waiting_counter
  BY <1>9 DEF Open, SetRunning, Notify, DrainDone, DrainRetry, Close
<1>10. CASE UNCHANGED vars
  BY <1>10 DEF vars
<1>. QED
  BY <1>1, <1>2, <1>3, <1>4, <1>5, <1>6, <1>7, <1>8, <1>9, <1>10
     DEF Next, Step

\* The predicate counts a thread that joins the waiting ones or leaves them.
LEMMA PredCountKeepsExact ==
  ASSUME IInv, NEW t \in Threads, PredCount(t)
  PROVE  WaitingExact' /\ TurnOver'
<1> USE DEF IInv, FieldTypes, Labels, StateOwned, Inside, FirstLook, Goto,
            PredCount, gate, mutexes, locals
<1>1. CASE state_mutex = t
  <2>1. ~seen[t] /\ t \notin Waiters
    BY <1>1 DEF Waiters
  <2>2. Waiters' = Waiters \cup {t}
    BY <1>1, <2>1 DEF Waiters
  <2>3. waiting_counter' = waiting_counter + 1
    BY <1>1, <2>1
  <2>4. \A u \in Threads : pc'[u] # "close"
    BY <1>1
  <2>. QED
    BY <2>1, <2>2, <2>3, <2>4, WaitersFinite, FS_AddElement
       DEF WaitingExact, TurnOver
<1>2. CASE state_mutex # t /\ seen[t]
  <2>1. t \in Waiters
    BY <1>2 DEF Waiters
  <2>2. Waiters' = Waiters \ {t}
    BY <1>2 DEF Waiters
  <2>3. waiting_counter' = waiting_counter - 1
    BY <1>2
  <2>. QED
    BY <2>1, <2>2, <2>3, WaitersFinite, FS_RemoveElement
       DEF WaitingExact, TurnOver
<1>3. CASE state_mutex # t /\ ~seen[t]
  <2>1. Waiters' = Waiters
    BY <1>3 DEF Waiters
  <2>2. waiting_counter' = waiting_counter
    BY <1>3
  <2>. QED
    BY <2>1, <2>2 DEF WaitingExact, TurnOver
<1>. QED
  BY <1>1, <1>2, <1>3

-----------------------------------------------------------------------------

\* Every other part of the invariant, action by action.
LEMMA StepFields ==
  ASSUME IInv, [Next]_vars
  PROVE  FieldTypes' /\ CallsMade' /\ StateOwned' /\ FirstLook'
<1> USE ConstantsAssumption
<1> USE DEF IInv, FieldTypes, CallsMade, Labels, Calls, Waits, Opens, Queries,
            StateOwned, Inside, FirstLook, Goto, gate, mutexes, locals
<1>1. ASSUME NEW t \in Threads, NEW c \in CallsOf[t], Begin(t, c)
      PROVE  FieldTypes' /\ CallsMade' /\ StateOwned' /\ FirstLook'
  <2>1. c \in Calls
    OBVIOUS
  <2>. QED
    BY <1>1, <2>1 DEF Begin
<1>2. ASSUME NEW t \in Threads, NotifyAll(t) \/ SpuriousWake(t)
      PROVE  FieldTypes' /\ CallsMade' /\ StateOwned' /\ FirstLook'
  BY <1>2 DEF NotifyAll, SpuriousWake
<1>3. ASSUME NEW t \in Threads, LockState(t)
      PROVE  FieldTypes' /\ CallsMade' /\ StateOwned' /\ FirstLook'
  <2>1. call[t] \in Calls \ {"notify_all"}
    BY <1>3 DEF LockState
  <2>2. Body(call[t]) \in {"test", "block", "open", "query"}
    BY <2>1 DEF Body
  <2>. QED
    BY <1>3, <2>2 DEF LockState
<1>4. ASSUME NEW t \in Threads, UnlockState(t)
      PROVE  FieldTypes' /\ CallsMade' /\ StateOwned' /\ FirstLook'
  BY <1>4 DEF UnlockState
<1>5. ASSUME NEW t \in Threads, Query(t)
      PROVE  FieldTypes' /\ CallsMade' /\ StateOwned' /\ FirstLook'
  BY <1>5 DEF Query
<1>6. ASSUME NEW t \in Threads, SetBlocked(t)
      PROVE  FieldTypes' /\ CallsMade' /\ StateOwned' /\ FirstLook'
  BY <1>6 DEF SetBlocked
<1>7. ASSUME NEW t \in Threads, WaitTest(t)
      PROVE  FieldTypes' /\ CallsMade' /\ StateOwned' /\ FirstLook'
  BY <1>7 DEF WaitTest
<1>8. ASSUME NEW t \in Threads, LockWait(t)
      PROVE  FieldTypes' /\ CallsMade' /\ StateOwned' /\ FirstLook'
  BY <1>8 DEF LockWait
<1>9. ASSUME NEW t \in Threads, PredRead(t)
      PROVE  FieldTypes' /\ CallsMade' /\ StateOwned' /\ FirstLook'
  BY <1>9 DEF PredRead
<1>10. ASSUME NEW t \in Threads, PredCount(t)
      PROVE  FieldTypes' /\ CallsMade' /\ StateOwned' /\ FirstLook'
  BY <1>10 DEF PredCount
<1>11. ASSUME NEW t \in Threads, PredUnlock(t)
      PROVE  FieldTypes' /\ CallsMade' /\ StateOwned' /\ FirstLook'
  BY <1>11 DEF PredUnlock
<1>12. ASSUME NEW t \in Threads, Sleep(t) \/ Rewake(t) \/ Leave(t)
      PROVE  FieldTypes' /\ CallsMade' /\ StateOwned' /\ FirstLook'
  BY <1>12 DEF Sleep, Rewake, Leave
<1>13. ASSUME NEW t \in Threads, Open(t)
      PROVE  FieldTypes' /\ CallsMade' /\ StateOwned' /\ FirstLook'
  BY <1>13, WaitersFinite DEF Open, WaitingExact
<1>14. ASSUME NEW t \in Threads, SetRunning(t)
      PROVE  FieldTypes' /\ CallsMade' /\ StateOwned' /\ FirstLook'
  BY <1>14 DEF SetRunning
<1>15. ASSUME NEW t \in Threads, Notify(t)
      PROVE  FieldTypes' /\ CallsMade' /\ StateOwned' /\ FirstLook'
  BY <1>15 DEF Notify, NotifyCv
<1>16. ASSUME NEW t \in Threads, DrainDone(t)
      PROVE  FieldTypes' /\ CallsMade' /\ StateOwned' /\ FirstLook'
  BY <1>16 DEF DrainDone
<1>17. ASSUME NEW t \in Threads, DrainRetry(t)
      PROVE  FieldTypes' /\ CallsMade' /\ StateOwned' /\ FirstLook'
  BY <1>17 DEF DrainRetry, NotifyCv
<1>18. ASSUME NEW t \in Threads, Close(t)
      PROVE  FieldTypes' /\ CallsMade' /\ StateOwned' /\ FirstLook'
  BY <1>18 DEF Close
<1>19. CASE UNCHANGED vars
  BY <1>19 DEF vars
<1>. QED
  BY <1>1, <1>2, <1>3, <1>4, <1>5, <1>6, <1>7, <1>8, <1>9, <1>10, <1>11, <1>12,
     <1>13, <1>14, <1>15, <1>16, <1>17, <1>18, <1>19 DEF Next, Step

\* When the counter is zero nobody is waiting: what pulse() concludes from it.
LEMMA EmptyCount == WaitingExact /\ waiting_counter = 0 => Waiters = {}
BY WaitersFinite, FS_EmptySet DEF WaitingExact

\* A thread comes to the end of pulse() only when the waiting loop is done.
LEMMA OthersKeepTurnOver ==
  ASSUME IInv, [Next]_vars, \A t \in Threads : ~PredCount(t)
  PROVE  TurnOver'
<1> SUFFICES ASSUME NEW t \in Threads, pc'[t] = "close"
             PROVE  Waiters = {}
  BY OthersKeepWaiters DEF TurnOver
<1>1. CASE pc[t] = "close"
  BY <1>1 DEF IInv, TurnOver
<1>2. CASE pc[t] # "close"
  <2>1. DrainDone(t) /\ call[t] = "pulse"
    <3> USE <1>2 DEF IInv, FieldTypes, Labels, Goto, mutexes, locals
    <3>1. ASSUME NEW u \in Threads, LockState(u)
          PROVE  Body(call[u]) # "close"
      BY DEF Body
    <3>2. ASSUME NEW u \in Threads, Step(u) PROVE u = t
      BY <3>1, <3>2 DEF Step, LockState, UnlockState, Query, SetBlocked,
         WaitTest, LockWait, PredRead, PredCount, PredUnlock, Sleep, Rewake,
         Leave, Open, SetRunning, Notify, DrainDone, DrainRetry, Close
    <3>3. Step(t)
      BY <3>2 DEF Next, Begin, NotifyAll, SpuriousWake, vars
    <3>. QED
      BY <3>1, <3>3 DEF Step, LockState, UnlockState, Query, SetBlocked,
         WaitTest, LockWait, PredRead, PredUnlock, Sleep, Rewake,
         Leave, Open, SetRunning, Notify, DrainDone, DrainRetry, Close
  <2>2. waiting_counter = 0
    BY <2>1 DEF DrainDone
  <2>. QED
    BY <2>2, EmptyCount DEF IInv
<1>. QED
  BY <1>1, <1>2

\* Every step of every thread preserves the inductive invariant.
LEMMA StepInv == IInv /\ [Next]_vars => IInv'
<1> SUFFICES ASSUME IInv, [Next]_vars PROVE WaitingExact' /\ TurnOver'
  BY StepFields DEF IInv
<1>1. CASE \E t \in Threads : PredCount(t)
  BY <1>1, PredCountKeepsExact
<1>2. CASE \A t \in Threads : ~PredCount(t)
  BY <1>2, OthersKeepWaiters, OthersKeepTurnOver DEF IInv, WaitingExact
<1>. QED
  BY <1>1, <1>2

\* The inductive invariant holds in every reachable state.
THEOREM Invariance == Spec => []IInv
BY InitInv, StepInv, PTL DEF Spec

\* Every field of the semaphore keeps its type; the counter never underflows.
THEOREM TypeCorrect == Spec => []TypeOK
<1>1. IInv => TypeOK
  BY WaitersFinite DEF IInv, FieldTypes, WaitingExact, TypeOK
<1>. QED
  BY <1>1, Invariance, PTL

\* waiting_counter is the number of threads inside their wait, at every step
\* of the predicate and however often cv.wait evaluates it.
THEOREM CountExact == Spec => []WaitingExact
<1>1. IInv => WaitingExact
  BY DEF IInv
<1>. QED
  BY <1>1, Invariance, PTL

-----------------------------------------------------------------------------

\* set_blocked_and_wait() and wait() give state_mutex back only as a waiting
\* thread at a blocked gate.
THEOREM AtomicWait == Spec => BlockAndWaitIsAtomic
<1>1. ASSUME IInv, [Next]_vars, NEW t \in Threads,
             state_mutex = t, state_mutex' # t, pc[t] # "unlock"
      PROVE  t \in Waiters' /\ ~running'
  <2> USE <1>1, ConstantsAssumption
      DEF IInv, FieldTypes, StateOwned, Inside, mutexes, gate
  <2>1. PredUnlock(t)
    BY DEF Next, Step, vars, Begin, NotifyAll, SpuriousWake,
       LockState, UnlockState, Query, SetBlocked,
       WaitTest, LockWait, PredRead, PredCount, PredUnlock, Sleep, Rewake,
       Leave, Open, SetRunning, Notify, DrainDone, DrainRetry, Close
  <2>2. ~seen[t] /\ ~running
    BY <2>1 DEF PredUnlock, FirstLook
  <2>. QED
    BY <2>1, <2>2 DEF PredUnlock, Goto, Waiters
<1>2. IInv /\ [Next]_vars =>
        [\A t \in Threads :
           /\ state_mutex = t /\ state_mutex' # t
           /\ pc[t] # "unlock"
           => t \in Waiters' /\ ~running']_vars
  BY <1>1
<1>. QED
  BY <1>2, Invariance, PTL DEF Spec, BlockAndWaitIsAtomic

\* While a pulse is under way nobody joins the waiting threads or passes the
\* gate without waiting, and the pulse ends with all of them gone.
THEOREM PulseTurn == Spec => PulseIsOneTurn
<1>1. ASSUME IInv, [Next]_vars, NEW p \in Threads, Pulsing(p)
      PROVE  Waiters' \subseteq Waiters
  <2>1. state_mutex = p /\ pc[p] # "count"
    BY <1>1 DEF IInv, StateOwned, Inside, Pulsing
  <2>2. CASE \E t \in Threads : PredCount(t)
    BY <1>1, <2>1, <2>2
       DEF PredCount, Goto, Waiters, IInv, FieldTypes, mutexes, locals
  <2>3. CASE \A t \in Threads : ~PredCount(t)
    BY <1>1, <2>3, OthersKeepWaiters
  <2>. QED
    BY <2>2, <2>3
<1>2. ASSUME IInv, [Next]_vars, NEW p \in Threads, Pulsing(p),
             NEW t \in Threads
      PROVE  ~(pc[t] = "test" /\ pc'[t] = "unlock")
  BY <1>2 DEF IInv, StateOwned, Inside, Pulsing
<1>3. ASSUME IInv, [Next]_vars, NEW p \in Threads, Pulsing(p),
             pc'[p] = "unlock"
      PROVE  Waiters' = {} /\ ~running'
  <2> USE <1>3 DEF IInv, FieldTypes, Pulsing, Goto, locals
  <2>1. Close(p)
    BY DEF Next, Step, vars, Begin, NotifyAll, SpuriousWake,
       LockState, UnlockState, Query, SetBlocked,
       WaitTest, LockWait, PredRead, PredCount, PredUnlock, Sleep, Rewake,
       Leave, Open, SetRunning, Notify, DrainDone, DrainRetry, Close
  <2>2. \A t \in Threads : ~PredCount(t)
    BY <2>1 DEF Close, PredCount
  <2>3. Waiters' = {}
    BY <2>1, <2>2, OthersKeepWaiters DEF TurnOver, Close
  <2>. QED
    BY <2>1, <2>3 DEF Close
<1>4. IInv /\ [Next]_vars =>
        [\A p \in Threads :
           Pulsing(p) =>
             /\ Waiters' \subseteq Waiters
             /\ \A t \in Threads : ~(pc[t] = "test" /\ pc'[t] = "unlock")
             /\ pc'[p] = "unlock" => Waiters' = {} /\ ~running']_vars
  BY <1>1, <1>2, <1>3
<1>. QED
  BY <1>4, Invariance, PTL DEF Spec, PulseIsOneTurn

-----------------------------------------------------------------------------

\* No thread opens the gate with Notify::one or Notify::none.
OpensForAll ==
  \A t \in Threads : CallsOf[t] \cap {"run_one", "run_none"} = {}

\* Then a thread never stays behind an open gate once the call that has opened
\* it returns.
THEOREM NobodyLeftBehind ==
  ASSUME OpensForAll
  PROVE  Spec => []OpenGateIsEmpty
<1> DEFINE Good == IInv /\ OpenGateIsEmpty
<1>1. Init => Good
  BY InitInv DEF Init, OpenGateIsEmpty
<1>2. Good /\ [Next]_vars => Good'
  <2> SUFFICES ASSUME Good, [Next]_vars, running', Waiters' # {}
               PROVE  \E t \in Threads : pc'[t] \in {"notify", "drain"}
    BY StepInv DEF OpenGateIsEmpty
  <2> USE DEF IInv, FieldTypes, Labels, Goto, locals, gate, mutexes
  <2>1. CASE \E t \in Threads : SetRunning(t)
    <3>1. PICK t \in Threads : SetRunning(t)
      BY <2>1
    <3>2. call[t] # "run_none"
      BY <3>1 DEF SetRunning, OpensForAll, CallsMade
    <3>. QED
      BY <3>1, <3>2 DEF SetRunning
  <2>2. CASE \E t \in Threads : PredCount(t)
    <3>1. PICK t \in Threads : PredCount(t)
      BY <2>2
    <3>2. running
      BY <3>1 DEF PredCount
    <3>3. state_mutex # t
      BY <3>1, <3>2 DEF PredCount, FirstLook
    <3>4. Waiters # {}
      BY <3>1, <3>3 DEF PredCount, Waiters
    <3>5. PICK u \in Threads : pc[u] \in {"notify", "drain"}
      BY <3>2, <3>4 DEF OpenGateIsEmpty
    <3>. QED
      BY <3>1, <3>5 DEF PredCount
  <2>3. CASE /\ \A t \in Threads : ~SetRunning(t)
             /\ \A t \in Threads : ~PredCount(t)
    <3>1. Waiters # {}
      BY <2>3, OthersKeepWaiters
    <3>2. running
      BY <2>3 DEF Next, Step, vars, Begin, NotifyAll, SpuriousWake,
         LockState, UnlockState, Query, SetBlocked,
         WaitTest, LockWait, PredRead, PredUnlock, Sleep, Rewake,
         Leave, Open, Notify, DrainDone, DrainRetry, Close
    <3>3. PICK u \in Threads : pc[u] \in {"notify", "drain"}
      BY <3>1, <3>2 DEF OpenGateIsEmpty
    <3>4. ~DrainDone(u)
      BY <3>1, <3>3, EmptyCount DEF DrainDone, CallsMade, OpensForAll
    <3>5. ASSUME NEW t \in Threads, DrainDone(t) PROVE t # u
      BY <3>4, <3>5
    <3>. QED
      BY <2>3, <3>3, <3>4 DEF Next, Step, vars, Begin, NotifyAll, SpuriousWake,
         LockState, UnlockState, Query, SetBlocked,
         WaitTest, LockWait, PredRead, PredUnlock, Sleep, Rewake,
         Leave, Open, Notify, DrainDone, DrainRetry, Close
  <2>. QED
    BY <2>1, <2>2, <2>3
<1>3. Good => OpenGateIsEmpty
  OBVIOUS
<1>. QED
  BY <1>1, <1>2, <1>3, PTL DEF Spec
=============================================================================
