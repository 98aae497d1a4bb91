----------------------------- MODULE PipeProofs -----------------------------
(***************************************************************************)
(* The pipe for any number of producers and any data.  The steps of the    *)
(* pipe are steps of Semaphore under the refinement mapping Sema, so what  *)
(* SemaphoreProofs shows of the semaphore holds of the pipe's; on top of   *)
(* it stands the argument of the pipe itself: the worker closes the gate   *)
(* only with the mutex and an empty pool, and a client that fills the pool *)
(* keeps the mutex until its call has opened the gate.                     *)
(***************************************************************************)
EXTENDS Pipe, SequenceTheorems, FiniteSetTheorems, TLAPS

SP == INSTANCE SemaphoreProofs WITH CallsOf <- SemaphoreCalls

\* The types of the pipe's own state; worker and clients are each in their
\* own code.
OwnTypes ==
  /\ threadstate \in {"running", "process_and_terminate", "terminate", "blocked"}
  /\ mutex \in Threads \cup {NoThread}
  /\ data_pool \in Seq(Data)
  /\ at \in [Threads -> WorkerLabels \cup ClientLabels]
  /\ \A t \in Threads : at[t] \in IF t = Worker THEN WorkerLabels ELSE ClientLabels
  /\ item \in [Threads -> Data \cup {NoData}]
  /\ pushed \in Seq(Data)
  /\ processed \in Seq(Data)

\* The places at which a thread has the pipe's mutex.
Holding == {"pop", "pop_done", "push", "signal", "add_done",
            "processing_test", "processing_done"}

\* A thread has the mutex at these places and nowhere else.
MutexOwned == \A t \in Threads : mutex = t <=> at[t] \in Holding

\* Who has a data set in hand.
Hands ==
  /\ at[Worker] \notin {"pop_done", "process"} => item[Worker] = NoData
  /\ at[Worker] = "process" => item[Worker] # NoData
  /\ \A t \in Threads : at[t] = "push" => item[t] # NoData

\* The call of the semaphore that a thread begins when it comes to a place.
Begins(label, c) ==
  \/ label \in {"pop_done", "out"} /\ c = "set_blocked"
  \/ label = "top" /\ c = "wait"
  \/ label \in {"add_done", "processing_done", "join"} /\ c = "run_all"
  \/ label = "gone" /\ c = "run_none"

CallMatches == \A t \in Threads : pc[t] # "idle" => Begins(at[t], call[t])

\* In the semaphore, a thread is in the code of the method it has called.
InItsMethod ==
  \A t \in Threads :
    /\ pc[t] = "block" => call[t] = "set_blocked"
    /\ pc[t] \in {"test", "wlock", "pred", "count", "letgo", "sleep", "asleep",
                  "leave"} => call[t] = "wait"
    /\ pc[t] \notin {"query", "close"}

\* set_blocked() is called when there is nothing to wake up for.
BlockedForAReason ==
  /\ at[Worker] = "pop_done" /\ pc[Worker] # "idle" => data_pool = <<>>
  /\ at[Controller] = "block" => threadstate = "blocked"
  /\ \A t \in Threads : at[t] = "out" /\ pc[t] # "idle" =>
       t = Controller /\ threadstate = "blocked"

\* An opening call leaves the gate open.
OpenedStays ==
  \A t \in Threads :
    call[t] \in {"run_all", "run_none"} /\ pc[t] \in {"notify", "drain", "unlock"}
      => running

\* The invariant of the pipe's own code ...
Own ==
  /\ OwnTypes
  /\ MutexOwned
  /\ Hands
  /\ CallMatches
  /\ InItsMethod
  /\ BlockedForAReason
  /\ OpenedStays
  /\ DataOpensSemaphore

\* ... rests on that of the semaphore's.
IInv == SP!IInv /\ Own /\ FifoOrder

-----------------------------------------------------------------------------
\* The semaphore of the pipe

\* The threads of the pipe and their calls are an instance of Semaphore.
LEMMA ConstantsFit == SP!ConstantsAssumption
<1>1. IsFiniteSet(Threads)
  <2>1. IsFiniteSet(Producers \cup {Worker})
    BY PipeAssumption, FS_AddElement
  <2>2. IsFiniteSet((Producers \cup {Worker}) \cup {Controller})
    BY <2>1, FS_AddElement
  <2>3. Threads = (Producers \cup {Worker}) \cup {Controller}
    BY DEF Threads
  <2>. QED
    BY <2>2, <2>3
<1>2. SemaphoreCalls \in [Threads -> SUBSET SP!Calls]
  <2>1. {"wait", "set_blocked"} \in SUBSET SP!Calls
    BY DEF SP!Calls, SP!Waits, SP!Opens, SP!Queries
  <2>2. {"run_all", "run_none", "set_blocked"} \in SUBSET SP!Calls
    BY DEF SP!Calls, SP!Waits, SP!Opens, SP!Queries
  <2>. QED
    BY <2>1, <2>2 DEF SemaphoreCalls
<1>. QED
  BY <1>1, <1>2, PipeAssumption
     DEF SP!ConstantsAssumption, IsFiniteSet, SP!IsFiniteSet

\* Both instances of the semaphore are the same specification.
LEMMA SameSemaphore ==
  /\ Sema!Init <=> SP!Init
  /\ Sema!vars = SP!vars
  /\ \A t, c : Sema!Begin(t, c) <=> SP!Begin(t, c)
  /\ \A t : Sema!NotifyAll(t) <=> SP!NotifyAll(t)
  /\ \A t : Sema!SpuriousWake(t) <=> SP!SpuriousWake(t)
  /\ \A t : Sema!Step(t) <=> SP!Step(t)
<1> USE DEF Sema!gate, SP!gate, Sema!mutexes, SP!mutexes, Sema!locals, SP!locals,
            Sema!Goto, SP!Goto, Sema!Opens, SP!Opens, Sema!Queries, SP!Queries
<1>1. Sema!Init <=> SP!Init
  BY DEF Sema!Init, SP!Init
<1>2. Sema!vars = SP!vars
  BY DEF Sema!vars, SP!vars
<1>3. \A t, c : Sema!Begin(t, c) <=> SP!Begin(t, c)
  BY DEF Sema!Begin, SP!Begin
<1>4. \A t : Sema!NotifyAll(t) <=> SP!NotifyAll(t)
  BY DEF Sema!NotifyAll, SP!NotifyAll
<1>5. \A t : Sema!SpuriousWake(t) <=> SP!SpuriousWake(t)
  BY DEF Sema!SpuriousWake, SP!SpuriousWake
<1>6. \A t : Sema!Step(t) <=> SP!Step(t)
  BY DEF Sema!Step, SP!Step, Sema!LockState, SP!LockState, Sema!Body, SP!Body,
     Sema!UnlockState, SP!UnlockState, Sema!Query, SP!Query,
     Sema!SetBlocked, SP!SetBlocked, Sema!WaitTest, SP!WaitTest,
     Sema!LockWait, SP!LockWait, Sema!PredRead, SP!PredRead,
     Sema!PredCount, SP!PredCount, Sema!PredUnlock, SP!PredUnlock,
     Sema!Sleep, SP!Sleep, Sema!Rewake, SP!Rewake, Sema!Leave, SP!Leave,
     Sema!Open, SP!Open, Sema!SetRunning, SP!SetRunning,
     Sema!Notify, SP!Notify, Sema!NotifyCv, SP!NotifyCv,
     Sema!DrainDone, SP!DrainDone, Sema!DrainRetry, SP!DrainRetry,
     Sema!Close, SP!Close
<1>. QED
  BY <1>1, <1>2, <1>3, <1>4, <1>5, <1>6

\* What a step of the semaphore's code does to the thread that takes it, and
\* to the gate.
LEMMA SemaStepEffect ==
  ASSUME SP!IInv, InItsMethod, NEW t \in Threads,
         Sema!Step(t) \/ Sema!SpuriousWake(t)
  PROVE  /\ call' = call
         /\ \A u \in Threads \ {t} : pc'[u] = pc[u]
         /\ pc[t] = "idle" => pc'[t] = "idle"
         /\ pc'[t] = "idle" => pc[t] \in {"idle", "unlock", "leave"}
         /\ running # running' =>
              pc[t] = IF running THEN "block" ELSE "set"
<1> USE DEF SP!IInv, SP!FieldTypes, Sema!Goto, Sema!gate, Sema!mutexes, Sema!locals
<1>1. CASE Sema!SpuriousWake(t)
  BY <1>1 DEF Sema!SpuriousWake
<1>2. CASE Sema!LockState(t)
  <2>1. call[t] \in SemaphoreCalls[t]
    BY <1>2 DEF Sema!LockState, SP!CallsMade
  <2>2. Sema!Body(call[t]) # "idle"
    BY <2>1 DEF Sema!Body, Sema!Opens, Sema!Queries, SemaphoreCalls
  <2>. QED
    BY <1>2, <2>2 DEF Sema!LockState
<1>3. CASE Sema!UnlockState(t) \/ Sema!Query(t) \/ Sema!SetBlocked(t)
           \/ Sema!WaitTest(t) \/ Sema!LockWait(t) \/ Sema!PredRead(t)
           \/ Sema!PredCount(t) \/ Sema!PredUnlock(t)
  BY <1>3 DEF Sema!UnlockState, Sema!Query, Sema!SetBlocked, Sema!WaitTest,
     Sema!LockWait, Sema!PredRead, Sema!PredCount, Sema!PredUnlock
<1>4. CASE Sema!Sleep(t) \/ Sema!Rewake(t) \/ Sema!Leave(t) \/ Sema!Open(t)
           \/ Sema!SetRunning(t) \/ Sema!Notify(t) \/ Sema!DrainDone(t)
           \/ Sema!DrainRetry(t)
  BY <1>4 DEF Sema!Sleep, Sema!Rewake, Sema!Leave, Sema!Open, Sema!SetRunning,
     Sema!Notify, Sema!DrainDone, Sema!DrainRetry
<1>5. CASE Sema!Close(t)
  BY <1>5 DEF Sema!Close, InItsMethod
<1>. QED
  BY <1>1, <1>2, <1>3, <1>4, <1>5 DEF Sema!Step

\* A thread stays in the method it has called, and one that opens the gate
\* finds it open when it is done.
LEMMA SemaStepMethods ==
  ASSUME SP!IInv, InItsMethod, OpenedStays, NEW t \in Threads,
         Sema!Step(t) \/ Sema!SpuriousWake(t)
  PROVE  InItsMethod' /\ OpenedStays'
<1> USE DEF SP!IInv, SP!FieldTypes, SP!StateOwned, SP!Inside,
            Sema!Goto, Sema!gate, Sema!mutexes, Sema!locals,
            InItsMethod, OpenedStays
<1>1. CASE Sema!SpuriousWake(t)
  BY <1>1 DEF Sema!SpuriousWake
<1>2. CASE Sema!LockState(t)
  <2>1. call[t] \in SemaphoreCalls[t]
    BY <1>2 DEF Sema!LockState, SP!CallsMade
  <2>2. \/ call[t] = "wait" /\ Sema!Body(call[t]) = "test"
        \/ call[t] = "set_blocked" /\ Sema!Body(call[t]) = "block"
        \/ Sema!Body(call[t]) = "open"
    BY <2>1 DEF Sema!Body, Sema!Opens, Sema!Queries, SemaphoreCalls
  <2>. QED
    BY <1>2, <2>2 DEF Sema!LockState
<1>3. CASE Sema!UnlockState(t) \/ Sema!Query(t) \/ Sema!SetBlocked(t)
  BY <1>3 DEF Sema!UnlockState, Sema!Query, Sema!SetBlocked
<1>4. CASE Sema!WaitTest(t) \/ Sema!LockWait(t) \/ Sema!PredRead(t)
           \/ Sema!PredCount(t) \/ Sema!PredUnlock(t)
  BY <1>4 DEF Sema!WaitTest, Sema!LockWait, Sema!PredRead, Sema!PredCount,
     Sema!PredUnlock
<1>5. CASE Sema!Sleep(t) \/ Sema!Rewake(t) \/ Sema!Leave(t)
  BY <1>5 DEF Sema!Sleep, Sema!Rewake, Sema!Leave
<1>6. CASE Sema!Open(t) \/ Sema!SetRunning(t) \/ Sema!Notify(t)
  BY <1>6 DEF Sema!Open, Sema!SetRunning, Sema!Notify
<1>7. CASE Sema!DrainDone(t) \/ Sema!DrainRetry(t)
  <2>1. call[t] # "pulse"
    BY <1>7 DEF SP!CallsMade, SemaphoreCalls, Sema!DrainDone, Sema!DrainRetry
  <2>. QED
    BY <1>7, <2>1 DEF Sema!DrainDone, Sema!DrainRetry
<1>8. CASE Sema!Close(t)
  BY <1>8 DEF Sema!Close
<1>. QED
  BY <1>1, <1>2, <1>3, <1>4, <1>5, <1>6, <1>7, <1>8 DEF Sema!Step

\* A step of the semaphore's code keeps the invariant of the pipe's: the gate
\* is closed only for a reason, and a call returns with the gate open when it
\* was to open it.
LEMMA SemaStepKeepsOwn ==
  ASSUME IInv, NEW t \in Threads, SemaStep(t) \/ SemaWake(t)
  PROVE  Own'
<1> USE DEF IInv, Own, SP!IInv, SP!FieldTypes
<1>1. Sema!Step(t) \/ Sema!SpuriousWake(t)
  BY DEF SemaStep, SemaWake
<1>2. UNCHANGED <<threadstate, mutex, data_pool, at, item, pushed, processed>>
  BY DEF SemaStep, SemaWake, pipe, history
<1>3. OwnTypes' /\ MutexOwned' /\ Hands'
  BY <1>2 DEF OwnTypes, MutexOwned, Hands
<1>4. InItsMethod' /\ OpenedStays'
  BY <1>1, SemaStepMethods
<1>5. CallMatches' /\ BlockedForAReason'
  <2>1. \A u \in Threads : pc'[u] # "idle" => pc[u] # "idle"
    BY <1>1, SemaStepEffect
  <2>2. Worker \in Threads
    BY DEF Threads
  <2>. QED
    BY <1>1, <1>2, <2>1, <2>2, SemaStepEffect DEF CallMatches, BlockedForAReason
<1>6. ASSUME threadstate = "running", data_pool # <<>>, running
      PROVE  running'
  <2> SUFFICES ASSUME ~running' PROVE FALSE
    BY <1>1, SemaStepEffect
  <2>1. pc[t] = "block" /\ call[t] = "set_blocked"
    BY <1>1, <1>6, SemaStepEffect DEF InItsMethod
  <2>2. at[t] = "pop_done" \/ at[t] = "out"
    BY <2>1 DEF CallMatches, Begins
  <2>. QED
    BY <1>6, <2>1, <2>2
       DEF OwnTypes, ClientLabels, BlockedForAReason
<1>7. ASSUME at[t] \in {"add_done", "processing_done"},
             pc[t] # "idle", pc'[t] = "idle"
      PROVE  running'
  <2>1. call[t] = "run_all"
    BY <1>7 DEF CallMatches, Begins
  <2>2. pc[t] = "unlock"
    BY <1>1, <1>7, <2>1, SemaStepEffect DEF InItsMethod
  <2>. QED
    BY <1>1, <2>1, <2>2, SemaStepEffect DEF OpenedStays
<1>8. DataOpensSemaphore'
  <2> SUFFICES ASSUME threadstate = "running", data_pool # <<>>, ~running'
               PROVE  \/ \E u \in Threads :
                           /\ mutex = u
                           /\ at[u] = "signal" \/ (at[u] = "add_done" /\ pc'[u] # "idle")
                      \/ at[Controller] \in {"processing_lock", "processing_test"}
                      \/ (at[Controller] = "processing_done" /\ pc'[Controller] # "idle")
    BY <1>2 DEF DataOpensSemaphore
  <2>1. ~running
    BY <1>6
  <2>2. Controller \in Threads
    BY DEF Threads
  <2>. QED
    BY <1>1, <1>7, <2>1, <2>2, SemaStepEffect DEF DataOpensSemaphore
<1>. QED
  BY <1>3, <1>4, <1>5, <1>8

\* A thread that begins a call of the semaphore changes nothing there yet.
LEMMA BeginEffect ==
  ASSUME SP!IInv, NEW t \in Threads, NEW c, Sema!Begin(t, c)
  PROVE  /\ running' = running
         /\ pc' = [pc EXCEPT ![t] = "lock"]
         /\ call' = [call EXCEPT ![t] = c]
BY DEF Sema!Begin, Sema!Goto, Sema!gate

\* A step of the pipe's own code.
PipeStep ==
  \/ WorkerStep
  \/ \E t \in Producers : AddStep(t) \/ \E d \in Data : AddLock(t, d)
  \/ ControlStep(Controller)
  \/ BlockProcessing(Controller) \/ SetProcessing(Controller)
  \/ EndWorker(Controller, "process_and_terminate") \/ EndWorker(Controller, "terminate")
  \/ Destroy(Controller)

LEMMA NextSteps ==
  [Next]_vars => \/ PipeStep
                 \/ \E t \in Threads : SemaStep(t) \/ SemaWake(t)
                 \/ UNCHANGED vars
BY DEF Next, PipeStep

LEMMA ThreadsOfThePipe ==
  /\ Worker \in Threads /\ Controller \in Threads /\ Worker # Controller
  /\ \A t \in Producers : t \in Threads /\ t # Worker
BY PipeAssumption DEF Threads

\* The shape of such a step: one thread, which is in no call of the semaphore,
\* goes on and begins one at most.
Moves(t) ==
  /\ pc[t] = "idle"
  /\ \E label : at' = [at EXCEPT ![t] = label]
  /\ \/ UNCHANGED semaphore
     \/ \E c \in SemaphoreCalls[t] : Sema!Begin(t, c) /\ Begins(at'[t], c)

LEMMA PipeStepMoves ==
  ASSUME OwnTypes, PipeStep
  PROVE  \E t \in Threads : Moves(t)
<1> USE ThreadsOfThePipe
<1> USE DEF Moves, Begins, At, Goto, SemaphoreCalls, OwnTypes
<1>1. CASE WorkerStep
  <2>1. Moves(Worker)
    BY <1>1 DEF WorkerStep, LoopTest, PopLock, PopData, PopDone, Process, Empty
  <2>. QED
    BY <2>1
<1>2. ASSUME NEW t \in Producers, AddStep(t) \/ \E d \in Data : AddLock(t, d)
      PROVE  Moves(t)
  BY <1>2 DEF AddStep, AddLock, Push, AddSignal, AddDone
<1>3. CASE ControlStep(Controller)
  <2>1. Moves(Controller)
    BY <1>3 DEF ControlStep, BlockSemaphore, PendingLock, PendingTest, PendingDone,
       EndSignal, Join, KillSignal
  <2>. QED
    BY <2>1
<1>4. CASE \/ BlockProcessing(Controller) \/ SetProcessing(Controller)
           \/ EndWorker(Controller, "process_and_terminate")
           \/ EndWorker(Controller, "terminate") \/ Destroy(Controller)
  <2>1. Moves(Controller)
    BY <1>4 DEF BlockProcessing, SetProcessing, EndWorker, Destroy
  <2>. QED
    BY <2>1
<1>. QED
  BY <1>1, <1>2, <1>3, <1>4 DEF PipeStep

\* Every step of the pipe is one of the semaphore's methods or none of them.
LEMMA StepRefines ==
  ASSUME OwnTypes, [Next]_vars
  PROVE  [Sema!Next]_(Sema!vars)
<1>1. CASE PipeStep
  BY <1>1, PipeStepMoves DEF Moves, Sema!Next, Sema!vars, semaphore
<1>2. ASSUME NEW t \in Threads, SemaStep(t) \/ SemaWake(t)
      PROVE  Sema!Next
  BY <1>2 DEF SemaStep, SemaWake, Sema!Next
<1>3. CASE UNCHANGED vars
  BY <1>3 DEF vars, semaphore, Sema!vars
<1>. QED
  BY <1>1, <1>2, <1>3, NextSteps

\* So the invariant of the semaphore is one of the pipe.
LEMMA SemaphoreInv ==
  ASSUME SP!IInv, OwnTypes, [Next]_vars
  PROVE  SP!IInv'
<1>1. Sema!Next => SP!Next
  BY SameSemaphore DEF Sema!Next, SP!Next
<1>2. [SP!Next]_(SP!vars)
  BY <1>1, StepRefines DEF Sema!vars, SP!vars
<1>. QED
  BY <1>2, SP!StepInv, ConstantsFit

\* The calls keep to their places.
LEMMA PipeStepCalls ==
  ASSUME IInv, PipeStep
  PROVE  CallMatches' /\ InItsMethod' /\ OpenedStays'
<1> USE DEF IInv, Own, OwnTypes, SP!IInv, SP!FieldTypes,
            CallMatches, InItsMethod, OpenedStays
<1>1. PICK t \in Threads : Moves(t)
  BY PipeStepMoves
<1>2. CASE UNCHANGED semaphore
  BY <1>1, <1>2 DEF Moves, semaphore
<1>3. ASSUME NEW c \in SemaphoreCalls[t], Sema!Begin(t, c), Begins(at'[t], c)
      PROVE  CallMatches' /\ InItsMethod' /\ OpenedStays'
  <2>1. PICK label : at' = [at EXCEPT ![t] = label]
    BY <1>1 DEF Moves
  <2>2. \A u \in Threads \ {t} : at'[u] = at[u] /\ call'[u] = call[u] /\ pc'[u] = pc[u]
    BY <1>3, <2>1, BeginEffect
  <2>3. call'[t] = c /\ pc'[t] = "lock" /\ running' = running
    BY <1>3, BeginEffect
  <2>4. CallMatches'
    BY <1>3, <2>2, <2>3
  <2>5. InItsMethod' /\ OpenedStays'
    BY <2>2, <2>3
  <2>. QED
    BY <2>4, <2>5
<1>. QED
  BY <1>1, <1>2, <1>3 DEF Moves

\* The steps of the pipe that touch neither the data nor a hand.
PlainStep(t) ==
  \/ t = Worker /\ (LoopTest(t) \/ PopLock(t) \/ PopDone(t) \/ Empty(t))
  \/ t \in Producers /\ (AddSignal(t) \/ AddDone(t))
  \/ t = Controller /\
       \/ ControlStep(t) \/ BlockProcessing(t) \/ SetProcessing(t) \/ Destroy(t)
       \/ EndWorker(t, "process_and_terminate") \/ EndWorker(t, "terminate")

LEMMA PipeSteps ==
  PipeStep =>
    \/ PopData(Worker) \/ Process(Worker)
    \/ \E t \in Producers : Push(t) \/ \E d \in Data : AddLock(t, d)
    \/ \E t \in Threads : PlainStep(t)
BY ThreadsOfThePipe DEF PipeStep, PlainStep, WorkerStep, AddStep

\* The types, the owner of the mutex and the hands.
LEMMA PlainStepFields ==
  ASSUME OwnTypes, MutexOwned, Hands, NEW t \in Threads, PlainStep(t)
  PROVE  OwnTypes' /\ MutexOwned' /\ Hands'
<1> USE PipeAssumption, ThreadsOfThePipe
<1> USE DEF OwnTypes, MutexOwned, Holding, Hands, WorkerLabels, ClientLabels,
            At, Goto, history
<1>1. CASE t = Worker /\ (LoopTest(t) \/ PopLock(t) \/ PopDone(t) \/ Empty(t))
  BY <1>1 DEF LoopTest, PopLock, PopDone, Empty
<1>2. CASE t \in Producers /\ (AddSignal(t) \/ AddDone(t))
  BY <1>2 DEF AddSignal, AddDone
<1>3. CASE t = Controller /\ ControlStep(t)
  BY <1>3 DEF ControlStep, BlockSemaphore, PendingLock, PendingTest, PendingDone,
     EndSignal, Join, KillSignal
<1>4. CASE /\ t = Controller
           /\ \/ BlockProcessing(t) \/ SetProcessing(t) \/ Destroy(t)
              \/ EndWorker(t, "process_and_terminate") \/ EndWorker(t, "terminate")
  BY <1>4 DEF BlockProcessing, SetProcessing, EndWorker, Destroy
<1>. QED
  BY <1>1, <1>2, <1>3, <1>4 DEF PlainStep

LEMMA PipeStepFields ==
  ASSUME OwnTypes, MutexOwned, Hands, PipeStep
  PROVE  OwnTypes' /\ MutexOwned' /\ Hands'
<1> USE PipeAssumption, ThreadsOfThePipe
<1> USE DEF OwnTypes, MutexOwned, Holding, Hands, WorkerLabels, ClientLabels,
            At, Goto, history
<1>1. CASE PopData(Worker)
  <2>1. data_pool' \in Seq(Data) /\ item' \in [Threads -> Data \cup {NoData}]
    <3>1. CASE data_pool = <<>>
      BY <1>1, <3>1 DEF PopData
    <3>2. CASE data_pool # <<>>
      <4>1. Head(data_pool) \in Data /\ Tail(data_pool) \in Seq(Data)
        BY <3>2, HeadTailProperties
      <4>. QED
        BY <1>1, <3>2, <4>1 DEF PopData
    <3>. QED
      BY <3>1, <3>2
  <2>2. /\ UNCHANGED <<threadstate, mutex, pushed, processed>>
        /\ at' = [at EXCEPT ![Worker] = "pop_done"]
    BY <1>1 DEF PopData
  <2>3. OwnTypes'
    BY <2>1, <2>2
  <2>4. MutexOwned' /\ Hands'
    BY <1>1 DEF PopData
  <2>. QED
    BY <2>3, <2>4
<1>2. CASE Process(Worker)
  <2>1. processed' \in Seq(Data)
    BY <1>2, AppendProperties DEF Process
  <2>. QED
    BY <1>2, <2>1 DEF Process
<1>3. ASSUME NEW t \in Producers, Push(t)
      PROVE  OwnTypes' /\ MutexOwned' /\ Hands'
  <2>1. data_pool' \in Seq(Data) /\ pushed' \in Seq(Data)
    BY <1>3, AppendProperties DEF Push
  <2>. QED
    BY <1>3, <2>1 DEF Push
<1>4. ASSUME NEW t \in Producers, NEW d \in Data, AddLock(t, d)
      PROVE  OwnTypes' /\ MutexOwned' /\ Hands'
  BY <1>4 DEF AddLock
<1>. QED
  BY <1>1, <1>2, <1>3, <1>4, PipeSteps, PlainStepFields

\* The reasons for which the gate is closed, and the promise to open it.  The
\* steps that matter are those that change the pool, the state of the pipe or
\* the owner of the mutex, or begin a call.
LEMMA PipeStepReasons ==
  ASSUME IInv, PipeStep
  PROVE  BlockedForAReason' /\ DataOpensSemaphore'
<1> USE PipeAssumption, ThreadsOfThePipe
<1> USE DEF IInv, Own, SP!IInv, SP!FieldTypes, OwnTypes, MutexOwned, Holding,
            BlockedForAReason, DataOpensSemaphore, At, Goto, history, semaphore
<1>1. CASE LoopTest(Worker) \/ PopLock(Worker) \/ PopDone(Worker) \/ Process(Worker)
  BY <1>1 DEF LoopTest, PopLock, PopDone, Process
<1>2. CASE PopData(Worker)
  <2>1. CASE data_pool' = <<>>
    <3>1. Sema!Begin(Worker, "set_blocked")
      BY <1>2, <2>1 DEF PopData
    <3>. QED
      BY <1>2, <2>1, <3>1, BeginEffect DEF PopData
  <2>2. CASE data_pool' # <<>>
    <3>1. data_pool # <<>> /\ UNCHANGED <<running, pc, mutex, threadstate>>
      BY <1>2, <2>2 DEF PopData
    <3>2. at' = [at EXCEPT ![Worker] = "pop_done"]
      BY <1>2 DEF PopData
    <3>3. BlockedForAReason'
      BY <1>2, <3>1, <3>2 DEF PopData
    <3>4. DataOpensSemaphore'
      BY <1>2, <3>1, <3>2 DEF PopData
    <3>. QED
      BY <3>3, <3>4
  <2>. QED
    BY <2>1, <2>2
<1>3. CASE Empty(Worker)
  <2>1. CASE Sema!Begin(Worker, "wait")
    <3>1. /\ at' = [at EXCEPT ![Worker] = "top"] /\ at[Worker] = "empty"
          /\ UNCHANGED <<running, threadstate, mutex, data_pool>>
          /\ \A t \in Threads \ {Worker} : pc'[t] = pc[t]
      BY <1>3, <2>1, BeginEffect DEF Empty
    <3>2. BlockedForAReason'
      BY <3>1
    <3>3. DataOpensSemaphore'
      BY <3>1
    <3>. QED
      BY <3>2, <3>3
  <2>2. CASE UNCHANGED semaphore
    BY <1>3, <2>2 DEF Empty
  <2>. QED
    BY <1>3, <2>1, <2>2 DEF Empty
<1>4. ASSUME NEW t \in Producers, NEW d \in Data, AddLock(t, d)
      PROVE  BlockedForAReason' /\ DataOpensSemaphore'
  BY <1>4 DEF AddLock
<1>5. ASSUME NEW t \in Producers, Push(t)
      PROVE  BlockedForAReason' /\ DataOpensSemaphore'
  BY <1>5 DEF Push
<1>6. ASSUME NEW t \in Producers, AddSignal(t)
      PROVE  BlockedForAReason' /\ DataOpensSemaphore'
  <2>1. CASE Sema!Begin(t, "run_all")
    BY <1>6, <2>1, BeginEffect DEF AddSignal
  <2>2. CASE threadstate # "running" /\ UNCHANGED semaphore
    BY <1>6, <2>2 DEF AddSignal
  <2>. QED
    BY <1>6, <2>1, <2>2 DEF AddSignal
<1>7. ASSUME NEW t \in Producers, AddDone(t)
      PROVE  BlockedForAReason' /\ DataOpensSemaphore'
  BY <1>7 DEF AddDone
<1>8. CASE BlockSemaphore(Controller)
  BY <1>8, BeginEffect DEF BlockSemaphore
<1>9. CASE PendingLock(Controller) \/ PendingDone(Controller) \/ Join(Controller)
  BY <1>9 DEF PendingLock, PendingDone, Join
<1>10. CASE PendingTest(Controller)
  <2>1. CASE Sema!Begin(Controller, "run_all")
    BY <1>10, <2>1, BeginEffect DEF PendingTest
  <2>2. CASE data_pool = <<>> /\ UNCHANGED semaphore
    BY <1>10, <2>2 DEF PendingTest
  <2>. QED
    BY <1>10, <2>1, <2>2 DEF PendingTest
<1>11. CASE EndSignal(Controller) \/ KillSignal(Controller)
  BY <1>11, BeginEffect DEF EndSignal, KillSignal
<1>12. CASE \/ BlockProcessing(Controller) \/ SetProcessing(Controller)
            \/ EndWorker(Controller, "process_and_terminate")
            \/ EndWorker(Controller, "terminate") \/ Destroy(Controller)
  BY <1>12 DEF BlockProcessing, SetProcessing, EndWorker, Destroy
<1>. QED
  BY <1>1, <1>2, <1>3, <1>4, <1>5, <1>6, <1>7, <1>8, <1>9, <1>10, <1>11, <1>12
     DEF PipeStep, WorkerStep, AddStep, ControlStep

-----------------------------------------------------------------------------
\* The order of the data

\* Taking the head off a sequence moves it behind what comes before.
LEMMA HeadMoves ==
  ASSUME NEW S, NEW s \in Seq(S), NEW q \in Seq(S), q # <<>>
  PROVE  s \o q = (s \o <<Head(q)>>) \o Tail(q)
<1>1. Head(q) \in S /\ Tail(q) \in Seq(S) /\ <<Head(q)>> \in Seq(S)
  BY HeadTailProperties
<1>2. <<Head(q)>> \o Tail(q) = q
  <2>1. <<Head(q)>> \o Tail(q) \in Seq(S)
    BY <1>1, ConcatProperties
  <2>2. Len(<<Head(q)>> \o Tail(q)) = Len(q)
    BY <1>1, HeadTailProperties, ConcatProperties
  <2>3. \A i \in 1 .. Len(q) : (<<Head(q)>> \o Tail(q))[i] = q[i]
    BY <1>1, HeadTailProperties, ConcatProperties
  <2>. QED
    BY <2>1, <2>2, <2>3, SeqEqual
<1>. QED
  BY <1>1, <1>2, ConcatAssociative

\* No step loses, doubles or overtakes a data set.
LEMMA StepKeepsOrder ==
  ASSUME IInv, [Next]_vars
  PROVE  FifoOrder'
<1> USE PipeAssumption, ThreadsOfThePipe
<1> USE DEF IInv, Own, OwnTypes, FifoOrder, InHand, At, history
<1>0. InHand \in Seq(Data) /\ processed \o InHand \in Seq(Data)
      /\ processed \o <<>> = processed
  BY ConcatProperties, ConcatEmptySeq
<1>1. CASE PopData(Worker)
  <2>1. item[Worker] = NoData /\ UNCHANGED <<pushed, processed>>
    BY <1>1 DEF PopData, Hands
  <2>2. CASE data_pool = <<>>
    BY <1>1, <2>1, <2>2 DEF PopData
  <2>3. CASE data_pool # <<>>
    <3>1. Head(data_pool) \in Data
      BY <2>3, HeadTailProperties
    <3>2. data_pool' = Tail(data_pool) /\ InHand' = <<Head(data_pool)>>
      BY <1>1, <2>3, <3>1 DEF PopData
    <3>. QED
      BY <1>0, <2>1, <2>3, <3>2, HeadMoves
  <2>. QED
    BY <2>2, <2>3
<1>2. CASE Process(Worker)
  <2>1. item[Worker] \in Data
    BY <1>2 DEF Process, Hands
  <2>2. processed' = processed \o <<item[Worker]>> /\ InHand' = <<>>
    BY <1>2, <2>1, AppendIsConcat DEF Process
  <2>3. processed' \o InHand' = processed \o <<item[Worker]>>
    BY <1>0, <2>1, <2>2, ConcatEmptySeq
  <2>. QED
    BY <1>2, <2>1, <2>3 DEF Process
<1>3. ASSUME NEW t \in Producers, Push(t)
      PROVE  FifoOrder'
  <2>1. item[t] \in Data /\ InHand' = InHand /\ processed' = processed
    BY <1>3 DEF Push, Hands
  <2>2. /\ data_pool' = Append(data_pool, item[t])
        /\ pushed' = Append((processed \o InHand) \o data_pool, item[t])
    BY <1>3 DEF Push
  <2>3. data_pool \in Seq(Data)
    OBVIOUS
  <2>4. pushed' = (processed \o InHand) \o data_pool'
    <3> DEFINE before == processed \o InHand
    <3>1. before \in Seq(Data) /\ item[t] \in Data
      BY <1>0, <2>1
    <3> HIDE DEF before, IInv, Own, OwnTypes, FifoOrder, InHand
    <3>2. data_pool \o <<item[t]>> = data_pool'
      BY <2>2, <2>3, <3>1, AppendIsConcat, Zenon
    <3>3. (before \o data_pool) \o <<item[t]>> = Append(before \o data_pool, item[t])
      BY <2>3, <3>1, AppendIsConcat, ConcatProperties
    <3>4. (before \o data_pool) \o <<item[t]>> = before \o (data_pool \o <<item[t]>>)
      BY <2>3, <3>1, ConcatAssociative
    <3>. QED
      BY <2>2, <3>2, <3>3, <3>4, Zenon DEF before
  <2>. QED
    BY <2>1, <2>4
<1>4. ASSUME NEW t \in Producers, NEW d \in Data, AddLock(t, d)
      PROVE  FifoOrder'
  BY <1>4 DEF AddLock
<1>5. ASSUME NEW t \in Threads, PlainStep(t)
      PROVE  FifoOrder'
  BY <1>5 DEF PlainStep, LoopTest, PopLock, PopDone, Empty, AddSignal, AddDone,
     ControlStep, BlockSemaphore, PendingLock, PendingTest, PendingDone,
     EndSignal, Join, KillSignal, BlockProcessing, SetProcessing, Destroy, EndWorker
<1>6. ASSUME NEW t \in Threads, SemaStep(t) \/ SemaWake(t)
      PROVE  FifoOrder'
  BY <1>6 DEF SemaStep, SemaWake, pipe
<1>7. CASE UNCHANGED vars
  BY <1>7 DEF vars, pipe
<1>. QED
  BY <1>1, <1>2, <1>3, <1>4, <1>5, <1>6, <1>7, NextSteps, PipeSteps

-----------------------------------------------------------------------------
\* The constructed pipe satisfies the inductive invariant ...
LEMMA InitInv == Init => IInv
<1> SUFFICES ASSUME Init PROVE IInv
  OBVIOUS
<1> USE PipeAssumption, ThreadsOfThePipe
<1>1. SP!IInv
  BY ConstantsFit, SP!InitInv, SameSemaphore DEF Init
<1>2. \A t \in Threads : pc[t] = "idle" /\ call[t] = "none"
  BY DEF Init, Sema!Init
<1>3. OwnTypes
  BY DEF Init, OwnTypes, WorkerLabels, ClientLabels
<1>4. MutexOwned /\ Hands
  BY DEF Init, MutexOwned, Holding, Hands
<1>5. CallMatches /\ InItsMethod /\ BlockedForAReason /\ OpenedStays /\ DataOpensSemaphore
  BY <1>2 DEF Init, CallMatches, InItsMethod, BlockedForAReason, OpenedStays,
     DataOpensSemaphore
<1>6. FifoOrder
  BY DEF Init, FifoOrder, InHand
<1>. QED
  BY <1>1, <1>3, <1>4, <1>5, <1>6 DEF IInv, Own

\* ... and every step of every thread preserves it.
LEMMA StepInv == IInv /\ [Next]_vars => IInv'
<1> SUFFICES ASSUME IInv, [Next]_vars PROVE IInv'
  OBVIOUS
<1>1. SP!IInv'
  BY SemaphoreInv DEF IInv, Own
<1>2. FifoOrder'
  BY StepKeepsOrder
<1>3. CASE PipeStep
  <2>1. Own'
    BY <1>3, PipeStepFields, PipeStepCalls, PipeStepReasons DEF IInv, Own
  <2>. QED
    BY <1>1, <1>2, <2>1 DEF IInv
<1>4. CASE \E t \in Threads : SemaStep(t) \/ SemaWake(t)
  BY <1>1, <1>2, <1>4, SemaStepKeepsOwn DEF IInv
<1>5. CASE UNCHANGED vars
  <2>1. Own'
    BY <1>5 DEF IInv, Own, vars, semaphore, pipe, history, OwnTypes, MutexOwned,
       Hands, CallMatches, InItsMethod, BlockedForAReason, OpenedStays,
       DataOpensSemaphore
  <2>. QED
    BY <1>1, <1>2, <2>1 DEF IInv
<1>. QED
  BY <1>3, <1>4, <1>5, NextSteps

\* The inductive invariant holds in every reachable state of the pipe.
THEOREM Invariance == Spec => []IInv
BY InitInv, StepInv, PTL DEF Spec

\* What has been processed, the data set in the worker's hand and the pool are
\* always, in this order, what AddData() has pushed.
THEOREM OrderKept == Spec => []FifoOrder
<1>1. IInv => FifoOrder
  BY DEF IInv
<1>. QED
  BY <1>1, Invariance, PTL

\* Every field keeps its type, those of the semaphore included, and a running
\* pipe with data has its gate open or a thread on the way to open it.
THEOREM Consistent == Spec => []PipeConsistent
<1>1. ASSUME IInv PROVE Sema!TypeOK
  <2>1. waiting_counter \in Nat
    BY <1>1, ConstantsFit, SP!WaitersFinite DEF IInv, SP!IInv, SP!WaitingExact
  <2>. QED
    BY <1>1, <2>1 DEF IInv, SP!IInv, SP!FieldTypes, Sema!TypeOK, Sema!Labels,
       SP!Labels, Sema!Calls, SP!Calls, Sema!Waits, SP!Waits, Sema!Opens, SP!Opens,
       Sema!Queries, SP!Queries
<1>2. IInv => PipeConsistent
  BY <1>1 DEF IInv, Own, OwnTypes, TypeOK, PipeConsistent
<1>. QED
  BY <1>2, Invariance, PTL

-----------------------------------------------------------------------------
\* The pipe uses its semaphore as Semaphore allows: under the mapping Sema every
\* step of the pipe is one of the semaphore's or leaves it alone.
THEOREM ImplementsSemaphore == Spec => Sema!Spec
<1>1. Init => Sema!Init
  BY DEF Init
<1>2. IInv /\ [Next]_vars => [Sema!Next]_(Sema!vars)
  BY StepRefines DEF IInv, Own
<1>. QED
  BY <1>1, <1>2, Invariance, PTL DEF Spec, Sema!Spec

\* So its counter of waiting threads is exact in the pipe, too.
THEOREM CountExactInPipe == Spec => []SP!WaitingExact
<1>1. IInv => SP!WaitingExact
  BY DEF IInv, SP!IInv
<1>. QED
  BY <1>1, Invariance, PTL
=============================================================================
