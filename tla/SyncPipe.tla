------------------------------ MODULE SyncPipe ------------------------------
(***************************************************************************)
(* process_data_and_wait() (headeronly/pipe.h): threads hand their data to *)
(* a pipe and wait until its worker has processed them, each on a          *)
(* semaphore of its own on its stack.  The data carry a reference to it:   *)
(* the constructor of pipe_data_process blocks it, the destructor opens    *)
(* it, in the worker after the data, or when the pool is thrown away.      *)
(*                                                                         *)
(* The pipe is its pool and its worker, the semaphore its state and the    *)
(* state_mutex its opener holds; the modules Pipe and Semaphore have their *)
(* insides.                                                                *)
(***************************************************************************)
EXTENDS Naturals, Sequences, FiniteSets

CONSTANTS Clients,
          MaxCalls   \* bound: calls of each client

ASSUME SyncAssumption == MaxCalls \in Nat

VARIABLES client,     \* where each client is
          gate,       \* its semaphore: "none" when there is none
          waiting,    \* the clients in waiting_counter of their semaphore
          queue,      \* the pool of the pipe
          worker,     \* what the worker does, and for which client
          processed,  \* the clients whose data are processed
          terminated, \* the pipe was destroyed, its worker is detached
          discarding, \* the worker has ended, and the pool goes with it
          calls

syncVars == <<client, gate, waiting, queue, worker, processed, terminated, discarding, calls>>

WorkerStates == {"test", "pop", "work", "open", "drain"}

SyncTypeOK ==
  /\ client \in [Clients -> {"out", "add", "wait", "leave", "destroy"}]
  /\ gate \in [Clients -> {"none", "blocked", "running"}]
  /\ waiting \subseteq Clients
  /\ \A i \in DOMAIN queue : queue[i] \in Clients
  /\ worker \in [does : WorkerStates, for : SUBSET Clients] /\ Cardinality(worker.for) <= 1
  /\ processed \subseteq Clients /\ terminated \in BOOLEAN /\ discarding \in BOOLEAN
  /\ calls \in [Clients -> 0 .. MaxCalls]

SyncInit ==
  /\ client = [c \in Clients |-> "out"]
  /\ gate = [c \in Clients |-> "none"]
  /\ waiting = {} /\ queue = <<>> /\ worker = [does |-> "test", for |-> {}]
  /\ processed = {} /\ terminated = FALSE /\ discarding = FALSE
  /\ calls = [c \in Clients |-> 0]

\* The opener holds the state_mutex of the semaphore.
StateLocked(c) == worker.does = "drain" /\ worker.for = {c}

-----------------------------------------------------------------------------
(***************************************************************************)
(* A client.                                                               *)
(***************************************************************************)

\* The semaphore, and the data that block it.
Call(c) ==
  /\ client[c] = "out" /\ ~terminated /\ calls[c] < MaxCalls
  /\ client' = [client EXCEPT ![c] = "add"]
  /\ gate' = [gate EXCEPT ![c] = "blocked"]
  /\ processed' = processed \ {c}
  /\ calls' = [calls EXCEPT ![c] = @ + 1]
  /\ UNCHANGED <<waiting, queue, worker, terminated, discarding>>

SyncAdd(c) ==
  /\ client[c] = "add"
  /\ queue' = Append(queue, c)
  /\ client' = [client EXCEPT ![c] = "wait"]
  /\ UNCHANGED <<gate, waiting, worker, processed, terminated, discarding, calls>>

\* wait() passes an open gate, or is counted before it.
SyncWait(c) ==
  /\ client[c] = "wait" /\ ~StateLocked(c)
  /\ IF gate[c] = "running"
     THEN client' = [client EXCEPT ![c] = "destroy"] /\ UNCHANGED waiting
     ELSE client' = [client EXCEPT ![c] = "leave"] /\ waiting' = waiting \cup {c}
  /\ UNCHANGED <<gate, queue, worker, processed, terminated, discarding, calls>>

SyncLeave(c) ==
  /\ client[c] = "leave" /\ gate[c] = "running"
  /\ waiting' = waiting \ {c}
  /\ client' = [client EXCEPT ![c] = "destroy"]
  /\ UNCHANGED <<gate, queue, worker, processed, terminated, discarding, calls>>

\* Faulty: the destructor does not wait for the state_mutex.
MutantSyncReturn(c) ==
  /\ client[c] = "destroy"
  /\ client' = [client EXCEPT ![c] = "out"]
  /\ gate' = [gate EXCEPT ![c] = "none"]
  /\ UNCHANGED <<waiting, queue, worker, processed, terminated, discarding, calls>>

\* ~Semaphore waits for the state_mutex, then the call returns.
SyncReturn(c) ==
  /\ client[c] = "destroy" /\ ~StateLocked(c)
  /\ client' = [client EXCEPT ![c] = "out"]
  /\ gate' = [gate EXCEPT ![c] = "none"]
  /\ UNCHANGED <<waiting, queue, worker, processed, terminated, discarding, calls>>

-----------------------------------------------------------------------------
(***************************************************************************)
(* The worker.                                                             *)
(***************************************************************************)

WorkerDoes(what, for) == worker' = [does |-> what, for |-> for]

\* Is the pipe still there?
SyncTest ==
  /\ worker.does = "test"
  /\ discarding' = terminated
  /\ WorkerDoes("pop", {})
  /\ UNCHANGED <<client, gate, waiting, queue, processed, terminated, calls>>

\* The next data, or sleep until there are some; those of a pipe that is gone
\* die with the pool.
SyncPop ==
  /\ worker.does = "pop" /\ queue # <<>>
  /\ queue' = Tail(queue)
  /\ WorkerDoes(IF discarding THEN "open" ELSE "work", {Head(queue)})
  /\ UNCHANGED <<client, gate, waiting, processed, terminated, discarding, calls>>

SyncSleep ==
  /\ worker.does = "pop" /\ queue = <<>> /\ ~discarding
  /\ WorkerDoes("test", {})
  /\ UNCHANGED <<client, gate, waiting, queue, processed, terminated, discarding, calls>>

SyncWork ==
  /\ worker.does = "work"
  /\ processed' = processed \cup worker.for
  /\ WorkerDoes("open", worker.for)
  /\ UNCHANGED <<client, gate, waiting, queue, terminated, discarding, calls>>

\* ~pipe_data_process: set_running() takes the state_mutex and opens,
SyncOpen ==
  /\ worker.does = "open"
  /\ gate' = [c \in Clients |-> IF c \in worker.for THEN "running" ELSE gate[c]]
  /\ WorkerDoes("drain", worker.for)
  /\ UNCHANGED <<client, waiting, queue, processed, terminated, discarding, calls>>

\* and gives it back when the waiting thread has left.
SyncDrained ==
  /\ worker.does = "drain" /\ worker.for \cap waiting = {}
  /\ WorkerDoes(IF discarding THEN "pop" ELSE "test", {})
  /\ UNCHANGED <<client, gate, waiting, queue, processed, terminated, discarding, calls>>

\* The pipe is destroyed, which nobody may do who still has to hand in data.
SyncTerminate ==
  /\ ~terminated /\ \A c \in Clients : client[c] # "add"
  /\ terminated' = TRUE
  /\ UNCHANGED <<client, gate, waiting, queue, worker, processed, discarding, calls>>

SyncNext ==
  \/ \E c \in Clients : Call(c) \/ SyncAdd(c) \/ SyncWait(c) \/ SyncLeave(c) \/ SyncReturn(c)
  \/ SyncTest \/ SyncPop \/ SyncSleep \/ SyncWork \/ SyncOpen \/ SyncDrained \/ SyncTerminate

\* The worker never touches a semaphore that is gone, although the client may
\* return while set_running() is at work, and a client returns only when its
\* data are processed, or the pipe has been destroyed.
AnswerBeforeReturn ==
  /\ \A c \in worker.for : gate[c] # "none"
  /\ \A c \in Clients : client[c] = "out" /\ calls[c] > 0 => c \in processed \/ terminated
=============================================================================
