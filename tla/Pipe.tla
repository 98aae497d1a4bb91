------------------------------- MODULE Pipe -------------------------------
(***************************************************************************)
(* WS::Pipe (headeronly/pipe.h): clients push data, one worker thread pops *)
(* it in order and hands it to the working function; without data the      *)
(* worker sleeps at a Semaphore.  The module composes the pipe's own steps *)
(* with those of Semaphore: a pipe step that calls the semaphore begins    *)
(* the call and the thread goes on when it has returned.                   *)
(*                                                                         *)
(* The clients keep to what C++ asks of them: only Controller changes the  *)
(* state of the pipe or destroys it, and it does the latter when no other  *)
(* client is inside the pipe.  The pipe's mutex is a std::mutex.           *)
(***************************************************************************)
EXTENDS Naturals, Sequences, FiniteSets

CONSTANTS Worker, Controller,
          Producers,   \* the threads that push data; Controller may be one
          NoThread,
          Data, NoData,  \* the data sets, each pushed at most once; none
          ControlOps,  \* what Controller does with the pipe
          Spurious     \* may the condition variable wake up by itself

Threads == Producers \cup {Worker, Controller}

Controls == {"set_processing_blocked", "set_processing", "end_process",
             "end_terminate", "destroy"}

ASSUME PipeAssumption ==
  /\ Worker # Controller
  /\ Worker \notin Producers
  /\ NoThread \notin Threads
  /\ IsFiniteSet(Producers)
  /\ NoData \notin Data
  /\ ControlOps \in SUBSET Controls
  /\ Spurious \in BOOLEAN

VARIABLES
  \* the semaphore of the pipe, see Semaphore
  running, waiting_counter, state_mutex, wait_mutex, cv, pc, call, seen,
  threads_waiting, counter,
  threadstate,
  mutex,        \* the thread that holds the pipe's mutex, or NoThread
  data_pool,    \* a fifo
  at,           \* where each thread is in the pipe's code
  item,         \* the data set a thread has in hand, or NoData
  pushed, processed  \* history: all data in the order of AddData, of the worker

semaphore == <<running, waiting_counter, state_mutex, wait_mutex, cv, pc, call,
               seen, threads_waiting, counter>>
history == <<pushed, processed>>
pipe == <<threadstate, mutex, data_pool, at, item, history>>
vars == <<semaphore, pipe>>

\* The methods of the semaphore that the threads of the pipe call.
SemaphoreCalls ==
  [t \in Threads |->
     IF t = Worker THEN {"wait", "set_blocked"}
                   ELSE {"run_all", "run_none", "set_blocked"}]

Sema == INSTANCE Semaphore WITH CallsOf <- SemaphoreCalls

WorkerLabels == {"top", "pop_lock", "pop", "pop_done", "process", "empty", "ended"}
ClientLabels == {"out", "push", "signal", "add_done",
                 "block", "processing_lock", "processing_test", "processing_done",
                 "end", "join", "joined", "kill", "gone"}

TypeOK ==
  /\ Sema!TypeOK
  /\ threadstate \in {"running", "process_and_terminate", "terminate", "blocked"}
  /\ mutex \in Threads \cup {NoThread}
  /\ data_pool \in Seq(Data)
  /\ at \in [Threads -> WorkerLabels \cup ClientLabels]
  /\ item \in [Threads -> Data \cup {NoData}]
  /\ pushed \in Seq(Data)
  /\ processed \in Seq(Data)

\* The constructor has started the worker.
Init ==
  /\ Sema!Init
  /\ threadstate = "running"
  /\ mutex = NoThread
  /\ data_pool = <<>>
  /\ at = [t \in Threads |-> IF t = Worker THEN "top" ELSE "out"]
  /\ item = [t \in Threads |-> NoData]
  /\ pushed = <<>>
  /\ processed = <<>>

\* t is at this place of the pipe's code and inside no call of the semaphore.
At(t, label) == at[t] = label /\ pc[t] = "idle"
Goto(t, label) == at' = [at EXCEPT ![t] = label]

-----------------------------------------------------------------------------
(***************************************************************************)
(* Faulty variants, none is part of Next.                                  *)
(***************************************************************************)

\* PopData gives the mutex back before it blocks the semaphore.
MutantPopUnlocksFirst(t) ==
  /\ At(t, "pop")
  /\ item' = [item EXCEPT ![t] = IF data_pool = <<>> THEN NoData ELSE Head(data_pool)]
  /\ data_pool' = IF data_pool = <<>> THEN <<>> ELSE Tail(data_pool)
  /\ mutex' = NoThread
  /\ Goto(t, IF item'[t] = NoData THEN "empty" ELSE "process")
  /\ IF data_pool' = <<>> THEN Sema!Begin(t, "set_blocked") ELSE UNCHANGED semaphore
  /\ UNCHANGED <<threadstate, history>>

\* PopData takes the newest data set.
MutantPopLast(t) ==
  /\ At(t, "pop")
  /\ IF data_pool = <<>>
     THEN item' = [item EXCEPT ![t] = NoData] /\ UNCHANGED data_pool
     ELSE /\ item' = [item EXCEPT ![t] = data_pool[Len(data_pool)]]
          /\ data_pool' = SubSeq(data_pool, 1, Len(data_pool) - 1)
  /\ Goto(t, "pop_done")
  /\ IF data_pool' = <<>> THEN Sema!Begin(t, "set_blocked") ELSE UNCHANGED semaphore
  /\ UNCHANGED <<threadstate, mutex, history>>

\* AddData opens the semaphore without a notification.
MutantSignalNobody(t) ==
  /\ At(t, "signal")
  /\ Goto(t, "add_done")
  /\ IF threadstate = "running" THEN Sema!Begin(t, "run_none") ELSE UNCHANGED semaphore
  /\ UNCHANGED <<threadstate, mutex, data_pool, item, history>>

\* processdata_endworker() wakes the worker without a notification.
MutantEndSilently(t) ==
  /\ At(t, "end")
  /\ Goto(t, "join")
  /\ Sema!Begin(t, "run_none")
  /\ UNCHANGED <<threadstate, mutex, data_pool, item, history>>

-----------------------------------------------------------------------------
\* std_pipe_function_processor(), the loop of the worker

LoopTest(t) ==
  /\ At(t, "top")
  /\ Goto(t, IF threadstate = "terminate" THEN "ended" ELSE "pop_lock")
  /\ UNCHANGED <<semaphore, threadstate, mutex, data_pool, item, history>>

PopLock(t) ==
  /\ At(t, "pop_lock")
  /\ mutex = NoThread
  /\ mutex' = t
  /\ Goto(t, "pop")
  /\ UNCHANGED <<semaphore, threadstate, data_pool, item, history>>

\* PopData(): takes the oldest data set and blocks the semaphore when the
\* pool is empty then, still with the mutex.
PopData(t) ==
  /\ At(t, "pop")
  /\ IF data_pool = <<>>
     THEN item' = [item EXCEPT ![t] = NoData] /\ UNCHANGED data_pool
     ELSE /\ item' = [item EXCEPT ![t] = Head(data_pool)]
          /\ data_pool' = Tail(data_pool)
  /\ Goto(t, "pop_done")
  /\ IF data_pool' = <<>> THEN Sema!Begin(t, "set_blocked") ELSE UNCHANGED semaphore
  /\ UNCHANGED <<threadstate, mutex, history>>

PopDone(t) ==
  /\ At(t, "pop_done")
  /\ mutex' = NoThread
  /\ Goto(t, IF item[t] = NoData THEN "empty" ELSE "process")
  /\ UNCHANGED <<semaphore, threadstate, data_pool, item, history>>

Process(t) ==
  /\ At(t, "process")
  /\ processed' = Append(processed, item[t])
  /\ item' = [item EXCEPT ![t] = NoData]
  /\ Goto(t, "top")
  /\ UNCHANGED <<semaphore, threadstate, mutex, data_pool, pushed>>

\* Without data the worker ends or waits at the semaphore.
Empty(t) ==
  /\ At(t, "empty")
  /\ IF threadstate = "process_and_terminate"
     THEN Goto(t, "ended") /\ UNCHANGED semaphore
     ELSE Goto(t, "top") /\ Sema!Begin(t, "wait")
  /\ UNCHANGED <<threadstate, mutex, data_pool, item, history>>

WorkerStep ==
  \/ LoopTest(Worker) \/ PopLock(Worker) \/ PopData(Worker) \/ PopDone(Worker)
  \/ Process(Worker) \/ Empty(Worker)

-----------------------------------------------------------------------------
\* AddData()

AddLock(t, d) ==
  /\ At(t, "out")
  /\ at[Controller] # "gone"
  /\ \A i \in DOMAIN pushed : pushed[i] # d
  /\ mutex = NoThread
  /\ mutex' = t
  /\ item' = [item EXCEPT ![t] = d]
  /\ Goto(t, "push")
  /\ UNCHANGED <<semaphore, threadstate, data_pool, history>>

Push(t) ==
  /\ At(t, "push")
  /\ data_pool' = Append(data_pool, item[t])
  /\ pushed' = Append(pushed, item[t])
  /\ item' = [item EXCEPT ![t] = NoData]
  /\ Goto(t, "signal")
  /\ UNCHANGED <<semaphore, threadstate, mutex, processed>>

AddSignal(t) ==
  /\ At(t, "signal")
  /\ Goto(t, "add_done")
  /\ IF threadstate = "running" THEN Sema!Begin(t, "run_all") ELSE UNCHANGED semaphore
  /\ UNCHANGED <<threadstate, mutex, data_pool, item, history>>

AddDone(t) ==
  /\ At(t, "add_done")
  /\ mutex' = NoThread
  /\ Goto(t, "out")
  /\ UNCHANGED <<semaphore, threadstate, data_pool, item, history>>

AddStep(t) == Push(t) \/ AddSignal(t) \/ AddDone(t)

-----------------------------------------------------------------------------
\* set_processing_blocked() and set_processing()

BlockProcessing(t) ==
  /\ At(t, "out")
  /\ threadstate' = "blocked"
  /\ Goto(t, "block")
  /\ UNCHANGED <<semaphore, mutex, data_pool, item, history>>

BlockSemaphore(t) ==
  /\ At(t, "block")
  /\ Goto(t, "out")
  /\ Sema!Begin(t, "set_blocked")
  /\ UNCHANGED <<threadstate, mutex, data_pool, item, history>>

SetProcessing(t) ==
  /\ At(t, "out")
  /\ threadstate' = "running"
  /\ Goto(t, "processing_lock")
  /\ UNCHANGED <<semaphore, mutex, data_pool, item, history>>

PendingLock(t) ==
  /\ At(t, "processing_lock")
  /\ mutex = NoThread
  /\ mutex' = t
  /\ Goto(t, "processing_test")
  /\ UNCHANGED <<semaphore, threadstate, data_pool, item, history>>

PendingTest(t) ==
  /\ At(t, "processing_test")
  /\ Goto(t, "processing_done")
  /\ IF data_pool # <<>> THEN Sema!Begin(t, "run_all") ELSE UNCHANGED semaphore
  /\ UNCHANGED <<threadstate, mutex, data_pool, item, history>>

PendingDone(t) ==
  /\ At(t, "processing_done")
  /\ mutex' = NoThread
  /\ Goto(t, "out")
  /\ UNCHANGED <<semaphore, threadstate, data_pool, item, history>>

-----------------------------------------------------------------------------
\* processdata_endworker(newState) and ~Pipe()

EndWorker(t, newState) ==
  /\ At(t, "out")
  /\ threadstate \in {"running", "blocked"}
  /\ threadstate' = newState
  /\ Goto(t, "end")
  /\ UNCHANGED <<semaphore, mutex, data_pool, item, history>>

EndSignal(t) ==
  /\ At(t, "end")
  /\ Goto(t, "join")
  /\ Sema!Begin(t, "run_all")
  /\ UNCHANGED <<threadstate, mutex, data_pool, item, history>>

Join(t) ==
  /\ At(t, "join")
  /\ At(Worker, "ended")
  /\ Goto(t, "joined")
  /\ UNCHANGED <<semaphore, threadstate, mutex, data_pool, item, history>>

\* terminate_detach_worker(), from the destructor.
Destroy(t) ==
  /\ At(t, "out")
  /\ \A p \in Producers : At(p, "out")
  /\ threadstate \in {"running", "blocked"}
  /\ threadstate' = "terminate"
  /\ Goto(t, "kill")
  /\ UNCHANGED <<semaphore, mutex, data_pool, item, history>>

KillSignal(t) ==
  /\ At(t, "kill")
  /\ Goto(t, "gone")
  /\ Sema!Begin(t, "run_none")
  /\ UNCHANGED <<threadstate, mutex, data_pool, item, history>>

ControlStep(t) ==
  \/ BlockSemaphore(t) \/ PendingLock(t) \/ PendingTest(t) \/ PendingDone(t)
  \/ EndSignal(t) \/ Join(t) \/ KillSignal(t)

-----------------------------------------------------------------------------

\* A thread takes a step of the semaphore's code, or its condition variable
\* wakes it up.
SemaStep(t) == Sema!Step(t) /\ UNCHANGED pipe
SemaWake(t) == Sema!SpuriousWake(t) /\ UNCHANGED pipe

Next ==
  \/ WorkerStep
  \/ \E t \in Producers : AddStep(t) \/ \E d \in Data : AddLock(t, d)
  \/ ControlStep(Controller)
  \/ "set_processing_blocked" \in ControlOps /\ BlockProcessing(Controller)
  \/ "set_processing" \in ControlOps /\ SetProcessing(Controller)
  \/ "end_process" \in ControlOps /\ EndWorker(Controller, "process_and_terminate")
  \/ "end_terminate" \in ControlOps /\ EndWorker(Controller, "terminate")
  \/ "destroy" \in ControlOps /\ Destroy(Controller)
  \/ \E t \in Threads : SemaStep(t) \/ SemaWake(t)

Spec == Init /\ [][Next]_vars

(***************************************************************************)
(* Every thread that can go on inside a call goes on; the locks of the     *)
(* pipe's mutex are strong because a waiter at a std::mutex is served in   *)
(* the end.  Nobody has to call a method of the pipe.                      *)
(***************************************************************************)
Fairness ==
  /\ WF_vars(WorkerStep)
  /\ SF_vars(PopLock(Worker))
  /\ \A t \in Producers : WF_vars(AddStep(t))
  /\ WF_vars(ControlStep(Controller))
  /\ SF_vars(PendingLock(Controller))
  /\ \A t \in Threads : WF_vars(SemaStep(t))

FairSpec == Spec /\ Fairness

-----------------------------------------------------------------------------

InHand == IF item[Worker] = NoData THEN <<>> ELSE <<item[Worker]>>

\* Nothing is lost, doubled or overtaken: what has been processed, the data
\* set in the worker's hand and the pool are, in this order, all that was
\* pushed.
FifoOrder == pushed = processed \o InHand \o data_pool

\* A sleeping worker is never forgotten: while the pipe is running and there
\* is data, the semaphore is open, or the thread that has the mutex is about
\* to open it, or set_processing() has not come to it yet.
DataOpensSemaphore ==
  threadstate = "running" /\ data_pool # <<>> /\ ~running =>
    \/ \E t \in Threads :
         mutex = t /\ (at[t] = "signal" \/ (at[t] = "add_done" /\ pc[t] # "idle"))
    \/ at[Controller] \in {"processing_lock", "processing_test"}
    \/ (at[Controller] = "processing_done" /\ pc[Controller] # "idle")

\* ... and every part of the pipe keeps its type, the semaphore included.
PipeConsistent == TypeOK /\ DataOpensSemaphore

\* While the pipe stays running everything pushed is processed, provided that
\* set_processing() and set_processing_blocked() are not called for ever: each
\* of them takes the spin lock state_mutex, which favours nobody.
EverythingProcessed ==
  <>[](at[Controller] \in {"out", "joined", "gone"}) =>
    \A n \in 1 .. Cardinality(Data) :
      Len(pushed) >= n ~> Len(processed) >= n \/ threadstate # "running"

\* processdata_endworker() returns in its default mode.
JoinReturns ==
  at[Controller] = "end" /\ threadstate = "process_and_terminate"
    ~> at[Controller] = "joined"

-----------------------------------------------------------------------------
(***************************************************************************)
(* What comments and tests say and the code does not do.                   *)
(***************************************************************************)

\* processdata_endworker() waits until all data is processed: what has been
\* pushed before the call is processed when it has joined the worker.
AllProcessedAtJoin ==
  at[Controller] = "joined" /\ Producers = {Controller} => processed = pushed
=============================================================================
