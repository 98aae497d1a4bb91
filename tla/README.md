# WernersTools in TLA+

This directory holds TLA+ specifications of WernersTools, a C++17 header
library for Windows (`headeronly/*.h`, `experimental/headeronly/*.h`): its spin
locks, gate, worker thread, readers-writer access and signals; its smart
pointer with ownership; its caches, pools and handles; its balanced tree; and
its pure functions, parsing, XML, bits and pointer windows, together with the
unit tests of the repository as scripts over these models.  Where threads meet,
a module follows the source statement by statement as far as threads can see
the difference.  TLC checks everything on small instances, and TLAPS proves the
safety properties of the locks, the gate, the pipe, the access, the signal, the smart
pointer, the containers, the tree, the pointer windows and the numbers for any number of
threads, callbacks, pointers, data and keys, any values, blocks and widths.

Contents: [system](#the-system) - [modules](#the-modules) -
[runs](#the-runs) - [bounds](#the-bounds-and-why-they-are-enough) -
[fairness](#fairness) - [proofs](#the-proofs) -
[what the models showed](#what-the-models-showed) -
[left out](#what-is-not-modelled) - [plan](#the-plan).

To repeat everything, in this directory:

    tlc -config MCSemaphore.cfg MCSemaphore   # an MC module with its cfg
    tlc -config Containers.cfg Containers     # other cfgs run their module
    tlc -config PipeDrain.cfg Pipe            # directly, see the table of runs
    tlapm SemaphoreProofs.tla              # any of the *Proofs modules


## The system

The library is a set of headers.  The components, the state each keeps and its
operations:

| component | state | operations | used by |
|---|---|---|---|
| `mutex_atomicflag` (`mutex_atomicflag.h`) | `flag`, the plain field `locking_thread` | `lock`, `try_lock`, `unlock` by guards; `islocked` | Semaphore, Signal, ContainerMitSuche, SyncAccess (its own copy of the algorithm) |
| `recursive_mutex_atomicflag` (same file) | the same and `ref_count` | the same | clients |
| `Semaphore` (`semaphore.h`) | `running`, `waiting_counter`, `state_mutex`, `wait_mutex`, a condition variable | `wait`, `set_blocked`, `set_blocked_and_wait`, `set_running(Notify)`, `pulse`, `notify_all`, `is_signaled`, `is_blocked` | Pipe, process_data_and_wait |
| `Pipe` (`pipe.h`) | `threadstate`, `mutex`, `data_pool`, a Semaphore, the worker thread | `AddData`, `set_processing`, `set_processing_blocked`, `processdata_endworker`, destructor; the worker's loop | ContainerMitSuche, umbenennen, clients |
| pools of Pipe (`pipe.h`) | `fifo`; `fifo_with_prio` with ageing priorities | `AddData`, `PopData` | Pipe |
| synchronous pipe (`pipe.h`) | a Semaphore on the caller's stack, referred to by the data | `process_data_and_wait` | clients |
| `SyncAccess` (`SyncReadWrite.h`) | `writing` (the write lock), `reading`, `readthreadids` | `ReadAccess(Try/Wait)`, `WriteAccess(Try/Wait)`, release of an access, `Reinitialize` | clients |
| `Signal` (`signal.h`) | `prio_callbacks`, `locker`, `breakSignaling`; guards that refer to it by priority and id | `connect`, `disconnect`, `block`, `unblock`, `release` of a guard, the call, `break_signaling` | clients |
| `auto_ptr` (`Auto_Ptr.h`) | a shared block with a 16 bit counter and a valid flag; owner, shared owner or neither | construct, copy, move, cast, assign, `transfer`, `release`, `weak`, destroy; `enable_auto_ptr_from_this` | clients |
| `Cache` (`cache.h`), `CacheItems` (`WP_Cache.h`) | a map from keys with an expiry (or to items with a check), a mutex, the clock | `Get`, `Set`, `clear`, `clear_invalid`, `get_locked_item`; `getValue`, `insert` | clients |
| `ContainerMitSuche` (`containerFastFind.h`) | a vector, a map from keys to indices, a mutex; a Pipe in the asynchronous variants | `push_back`, `push_back_unique`, `erase_at`, `find`, `findall` | clients |
| `DelayDelete` (`DelayDelete.h`) | a multimap from times to objects, a mutex | `Add`, `Clean`, `CleanAll` | clients |
| `raii_boolstatus`, `Dtor_call`, `AutoResource`, `DestructorCall2` | a shared counter; an action to run once | copy, move, assign, destroy, `release` | clients |
| balanced tree (`experimental/headeronly/tree.h`) | nodes with parent, children and weights | `add`, `remove`, `find`, iterators, `balance` | clients |
| parsing (`parse_helper.h`, `char_helper.h`) | none: ranges on texts | `eat_...`, `remove_escape`, `make_flanked`, tokenizer, find and replace | XML, clients |
| XML tree (`experimental/headeronly/xml.h`) | a tree of elements | `eat_document` and what it calls | clients |
| arrays (`Ptr_Array.h`, `TRef`) | a window (pointer, elements, bytes) on a block | arithmetic, conversion, index, iteration, append | clients |
| numbers (`bitfeld.h`, `rotate.h`, `loopvalue.h`, `tribool.h`, `bit_helper.h`) | a value | iterate, turn, count | clients |

How they interact:

* A Pipe is three actors: clients that call `AddData`, the client that controls
  it, and the worker.  They share the pool and the mutex, and the worker sleeps
  at the pipe's Semaphore.  `AddData` and `set_processing` call the semaphore
  *with* the pipe's mutex, `PopData` blocks it with the mutex too, while
  `set_processing_blocked`, `processdata_endworker` and the destructor call it
  without.
* A Semaphore is a `mutex_atomicflag` around the gate, and a `std::mutex` with
  a condition variable for those that wait.  The two are locked one inside the
  other by the waiting side, and the opening side does not take the second.
* A synchronous pipe gives the worker a reference to a Semaphore that lives only
  as long as the caller waits at it.
* SyncAccess counts accesses in under a lock and counts them out without it.
* A Signal calls its callbacks with its lock held.  Guards act on it when they
  are destroyed, wherever that happens, in a callback too.
* The auto_ptrs of an object share a block; the object may have several blocks
  when it is also held by `std::shared_ptr`, and one of its own when it derives
  from `enable_auto_ptr_from_this`.
* Xml eats documents with the functions of `parse_helper.h`.

What is hard about it: the owner fields of the locks are read while others
store them; `islocked()` takes the lock it asks about; a thread registers as
waiting before it sleeps, and notifications sent without a mutex can fall into
the gap; an opening call waits for the woken threads while it holds the lock;
the worker acts on an empty result that may be old; counters are changed one
after the other and without a lock; ids of connections are used again while
guards of older ones exist; ownership passes between pointers in any order;
clocks tick between two readings; unsigned weights are subtracted; an element
that is empty is eaten without advancing.  `PROJECT.json` lists these hazards, each
at the line where it bites and with the properties that cover it.

What makes each component correct:

* locks: one holder; self-deadlock is reported to the owner, always and to no
  one else; asking never unlocks.
* Semaphore: nobody who waits is lost, counted twice or left behind an open
  gate; a pulse is one turn for each waiting thread; blocking the gate in order
  to wait at it is one step for everybody else; opening calls return.
* Pipe: data comes out once and in order (with priorities: nobody is overtaken
  for ever); data never meets a worker that sleeps for good; ending the worker
  ends it; nobody touches the semaphore of a caller that has returned.
* SyncAccess: who can write is alone; the counters agree with the access
  objects.
* Signal: an emission calls exactly what is connected and not blocked; a guard
  acts on its own connection only, and is the only thing that keeps it.
* auto_ptr: one owner, one delete, no managed pointer to a dead object.
* caches, DelayDelete, ContainerMitSuche, handles: an answer is never older than
  promised; nothing is deleted early or left behind; index and vector agree;
  what has to happen once happens once.
* tree: it is a search tree of what was added and not removed, and `balance()` ends.
  That it leaves the root balanced, as the tests assert, is not so.
* pure functions: what was written is read; every value once; no address outside
  the block.


## The modules

A label in `pc` (or `at`) is a place in the code between two accesses to shared
state; an action is the code from one such place to the next.  Calls start by
the free choice of a thread.  Classes that belong to one thread have one action
per operation.  Definitions keep the names of the source, and `PROJECT.json`
maps each one to its lines.  Modules with code in them have *faulty variants*:
operators named `Mutant...` that are not part of `Next` and record, for each
property, a slip in the code that would break it.

| module | what it is |
|---|---|
| `ExclusiveLock` | abstract: a lock with one holder |
| `MutexAtomicFlag` | `mutex_atomicflag` with `lock_guard`, `trylock_guard`: flag and owner field accessed in separate steps |
| `ReentrantLock` | abstract: a lock its holder may take again |
| `RecursiveMutexAtomicFlag` | `recursive_mutex_atomicflag`: flag, owner, counter, each in a step of its own |
| `Semaphore` | `WS::Semaphore`; its `state_mutex` is an exclusive lock, taken in one step, which `MutexAtomicFlag` is proved to implement |
| `Pipe` | `WS::Pipe` with the pool `fifo`; contains `Sema == INSTANCE Semaphore`, one semaphore step per step of a thread inside a call |
| `ReadersWriter` | abstract: conflicting accesses are never granted together |
| `SyncAccess` | `WS::SyncAccess` with both access types; the lock's algorithm is that of `MutexAtomicFlag` (strict) or `std::recursive_mutex` (thread_write) |
| `SignalTable` | the table of a `Signal` and what connecting, disconnecting, blocking and walking through it do, as operators |
| `Signal` | threads, guards, callbacks and emissions on one table |
| `AutoPtrHeap` | pointers, blocks and objects, and every operation of `auto_ptr` as an operator from heap to heap |
| `AutoPtr` | a program that uses them in any order |
| `Cache`, `CacheItems`, `DelayDelete`, `ContainerMitSuche`, `FifoWithPrio`, `SyncPipe`, `Handles` | one class each, or one family of them |
| `Containers` | the seven above side by side: a behaviour is one of one of them |
| `TreeNodes`, `Tree` | nodes and turns as operators; `add`, `remove` and the loop of `balance()` one turn at a time |
| `Text` | `parse_helper.h` and the string functions of `char_helper.h` as operators on texts |
| `Xml` | the parser of `xml.h` on top of `Text` |
| `Reading` | texts and documents typed piece by piece, and what is read from them |
| `Words`, `Numbers` | bits, turns, loop values and tribool as operators on sets of bit positions; words and loops in use |
| `PtrWindow`, `PtrArray` | the moves and conversions of `ptr_array` and `TRef` as operators; an array on a block in any sequence of its operations |
| `AutoPtrTests`, `SignalTests`, `TreeTests`, `ParseTests`, `WordTests` | the repository's unit tests as sequences of steps, with what they assert; those of the XML parser are in `ParseTests` |
| `UnitTests` | runs these scripts, one per behaviour |
| `Algorithms` | tree, reading, numbers, array and tests side by side |
| `MC...` | instances for TLC |
| `...Proofs` | theorems and their proofs |

`Containers` and `Algorithms` compose parts that share nothing.  They are one
specification each because their parts ask the same kind of question (does what
is handed out agree with what was put in; do the functions agree with their
reference), and a run of small unrelated systems is no easier to read.

**MutexAtomicFlag.**  `flag` is the `std::atomic_flag`; `locking_thread` is a
plain field that `lock()` reads without owning the flag, so reading it
(`CompareOwner`) and storing it (`StoreOwner`, `ResetOwner`) are steps apart from the
test-and-set (`TakeFlag`, `FlagWasSet`, `SpinTakesFlag`) and the clear
(`ClearFlag`).  `guard` is the set of threads whose guard object is locked.
`ProbeTakesFlag` and `ProbeClearsFlag` are `islocked()`, which takes the flag
to look at it.  A racing read of a thread id returns the value before or after the store.

**RecursiveMutexAtomicFlag.**  `lock()` repeats `try_lock()`; both share the
labels, and `blocking` remembers which it is.  `guards[t]` counts the guards of
a thread, bounded by `MaxDepth`.

**Semaphore.**  `pc`, `call` and the thread's local variables follow one call.
`_wait` evaluates its predicate for the first time still with `state_mutex`,
registers in `waiting_counter` and unlocks; `cv.wait` then releases
`wait_mutex` and blocks in one step (`Sleep`); notified threads leave the set `cv` and
take `wait_mutex` again (`Rewake`).  `Open`, `SetRunning`, `Notify`,
`DrainDone`/`DrainRetry` and `Close` are the opening calls: the last two labels
are the loop that waits, with `state_mutex`, until enough threads have left and
sends the notification again every few rounds.  `counter` counts the rounds
since the last notification; it does not grow beyond the
number that triggers the next one.

**Pipe.**  `at` is a thread's place in the pipe's code, `item` the data set in
its hand.  A step that calls the semaphore does `Sema!Begin`; the thread goes on
(`At` needs `pc[t] = "idle"`) when the call has returned.  `pushed` and
`processed` are history variables.  The controller may do all it may legally
do, in any order; only it changes the state of the pipe, and it destroys it
when no other client is inside, as C++ demands.

**SyncAccess.**  An access object of a thread lies in one of its slots, in
`reads` or `writes`.  Increments and decrements of `reading` and of
`readthreadids[t]` are separate steps.  `known` is the set of keys in
`readthreadids`: looking up an unknown key inserts it, which changes the tree
of the `std::map`.  An access given back by a `Try` and an exception both end
the call with nothing.

**Signal.**  `slots` is `prio_callbacks`, a function from pairs of priority and
id; an entry remembers which callback it is, and so does the guard made for it,
so that a state tells when an id has been used again.  `kept` has the
connections whose guard was released: the holder of the id answers for them.
`locker` is the thread with the lock; a thread that has it and asks for it again
gets the exception, which ends its operation, or is swallowed in a destructor.
An emission goes from callback to callback in steps of its own; what a callback
does is any operation of its thread.  `asked` and `called` are history variables.

**AutoPtrHeap, AutoPtr.**  A heap is a record: what each pointer is (its block,
its object, whether it owns it alone or with `std::shared_ptr`), the blocks with counter and
validity, the objects that are alive, those held by a plain pointer or by a
`std::shared_ptr` outside, and `broken`, where a second delete or a use of a
deleted block leaves its trace.  Copies that the code makes and destroys on the
way are made in the variables `Tmp` and `Tmp2`.  The same operators serve
`AutoPtrTests`.

**Containers.**  Where a class has a mutex, each operation that keeps it from
the first step to the last is one action, except that the clock may tick between
two readings of it (`Cache`, `DelayDelete`).  `SyncPipe` abstracts `Pipe` to its
pool and worker and `Semaphore` to its gate and its waiting count, since its question is
the lifetime of the semaphore.  In `Handles` the counter of a `raii_boolstatus`
is assigned in two steps, as in the code, by threads that do not lock.

In `FifoWithPrio`, `pops` and `ripe` are history variables: how often data were
taken, and for each datum the pop with which its priority reaches zero; no action reads them.

**TreeNodes, Tree.**  A tree is its root and a function from its nodes to
their parent and children; weights and depths are counted.  A null pointer that the code would call through is the
value `NoNode`, whose weights are zero, as the code's own functions answer.  `failed`
collects the ASSERTs of `remove()` that have failed.

**Text, Xml.**  A text is a TLA+ string, a range is the string it covers.  An
eating function returns what it ate, the rest and the error.  Recursion in these modules, and
in `TreeTests` and `ParseTests`, is by `RECURSIVE`: no theorem stands on them.  The tree recurses by functions on its nodes.

**Words.**  A word is the set of its bit positions, so that masks are set
operations.  A shift by the full width is undefined in C++ for `int` and wider types: the
operator returns the set of both results that compilers produce.

**PtrWindow, PtrArray.**  An array is its byte offset in the block, its element
count, its bytes, the element size and how many bytes it may go back.  What the
code refuses with an exception is a guard (`MayMove`, `MayIndex`, ...).


## The runs

| run (cfg) | shows | states |
|---|---|---|
| mutex_lock (`MutexAtomicFlag.cfg`) | exact deadlock detection, implements `ExclusiveLock`, spinning threads are not stuck | 172 |
| recursive_mutex_safety (`RecursiveMutexAtomicFlag.cfg`) | exact counting, the owner is never refused and a stranger never admitted, implements `ReentrantLock` | 2 512 |
| semaphore (`MCSemaphore.cfg`) | counter exact, a pulse is one turn, block-and-wait is atomic, opening calls return, no wakeup is lost; with spurious wakeups and `notify_all` out of the blue | 141 069 |
| pipe_work (`Pipe.cfg`) | order, no forgotten worker, everything is processed, the join returns | 148 558 |
| sync_access (`SyncAccess.cfg`) | counters exact, strict access, implements `ReadersWriter` | 481 664 |
| signal (`Signal.cfg`) | guards own their connections, blocks last as long as their guard, emissions are complete and end, a break is final, what can leak | 198 868 |
| auto_ptr (`AutoPtr.cfg`) | one owner, one delete, counters exact, managed pointers do not dangle | 96 302 (up to symmetry) |
| containers (`Containers.cfg`) | answers are fresh, scans are thorough, order of priorities, lifetime of the synchronous pipe's semaphore, actions happen once | 254 927 |
| algorithms (`Algorithms.cfg`) | the tree is its set and its balancing ends, bits, turns and loop values are exact, pointers stay in their block; reading against its reference, the unit tests | 169 903 |

and three runs that end with a counterexample, see
[below](#what-the-models-showed).

What the less obvious properties say:

* `DeadlockDetectionExact` (mutex): `lock()` throws only in the thread that has
  the lock, and the thread that has the lock never spins - although the owner
  is read from a field nobody protects.
* `OwnerIsKnown` (recursive mutex): the unprotected comparison decides rightly in
  both directions.
* `WaitingExact` (Semaphore): the counter that opening calls wait for is the
  number of threads between their first and last evaluation of the predicate.
* `PulseIsOneTurn`: from the moment `pulse()` has opened the gate until it has
  closed it, the set of waiting threads only shrinks, nobody passes without
  having waited, and at the end it is empty.
* `BlockAndWaitIsAtomic`: whoever gives `state_mutex` back in the middle of a
  method is a waiting thread at a blocked gate.
* `PipeConsistent`: besides types, a running pipe with data has an open semaphore
  or somebody who is about to open it; so no sleep of the worker is final.
* `EverythingProcessed`: what is pushed is processed as long as the pipe
  runs, unless the controller toggles the processing for ever.
* `StrictWaiterHasNothing` (SyncAccess): a thread waiting for the others holds
  nothing they could be waiting for.
* `TableConsistent` (Signal): a guard's priority and id lead to the callback it
  was made for, although ids are used again.
* `BlockLastsAsItsGuard`: as long as no `Block_Guard` has outlived its
  connection, a connection is blocked from its guard's birth to its death.
* `EmissionIsComplete`: an emission that nobody breaks and nothing throws out of calls what is
  connected and unblocked *at its end*, so the table did not change under it.
* `LeaksOnlyInCallback`: the one way to lose a connection is to destroy its guard
  in a callback.
* `OneOwner`: each live object has one of: an owning auto_ptr, a caller that must delete
  it, or `std::shared_ptr`s.
* `LastShareTells`: what does hold for objects that belong to `std::shared_ptr`.
* `NothingStale`, `NothingTooEarly` (containers): `Cache`, `CacheItems` and
  `ContainerMitSuche` hand out what is stored and still valid; the scans of `Cache`
  and `DelayDelete` under a ticking clock take what was due when they began, and
  `DelayDelete` nothing else.
* `PrioKeepsOrder`: the pool is sorted, data never change places, and a new datum overtakes only
  those that ripen later.  A datum that is added with priority p ripens with the p-th pop
  from then on, so after p pops nothing new overtakes it and it does not starve.
* `TreeIsItsSet` (tree): after each single turn of `balance()` both iterators meet
  the values that were added and not removed, in order, as long as the ASSERT of
  `remove()` holds (`TerminalIsLeaf`, which the run tree_remove refutes).
* `NumbersAreExact`: the bits and the values of a loop come once each and all of them,
  turns add up and the next of a loop value is where it belongs.
* `WindowInBlock`: no move, conversion or index that is not refused leaves the block, and
  the three numbers of a `ptr_array` agree.
* `AgreesWithReference`: a flanked text is read back whatever it
  contains; tokens are the runs between separators; numbers that fit their type are read
  exactly, the others are left out.  Documents are compared with the grammar of
  `xml.h:1010-1014` and `1066`: an element that is found is the one that the grammar finds, and
  the one that the grammar finds is found, but the second is not said of two kinds of documents
  (`beyond`) which the grammar allows and the parser fails on: those with an empty element as a child, and
  those with two texts of an element that a child or a comment parts (see
  [below](#what-the-models-showed)).  They too never yield a wrong tree; and what the unit tests assert holds of the models
  (`TestsPass`), which ties the models to the program by the expectations of its authors.


## The bounds and why they are enough

* Three threads for the locks: a holder, one that waits and one that polls or
  arrives.  Two pollers of `islocked()`, so that a poll meets a poll.  Nesting
  depth 2 tells an inner guard from the outermost.
* Three threads for Semaphore: one waits, one waits and blocks the gate itself, one opens
  it with every call the class has; so an opening call meets a thread that waits and one
  on its way in or out.  Methods are assigned to threads by `CallsOf` to bound the state
  space; the proofs hold for any assignment.
* Pipe: worker, controller and one producer, two data sets: the worker can be
  asleep, awake or in between when either arrives.  A second data set is what it
  takes to overtake, and to be pushed into an emptied pool.  Order among several
  producers is the order of `AddData`, which the mutex decides.
* SyncAccess: three threads with two slots each, so that accesses nest while two
  others compete, under both access types.
* Signal: two threads, one in an emission and one beside it (or its callback), two
  connections with two guards of each kind, the default priority and a stronger one,
  `MaxId = 2`, so that the second connection has the last id and the search for a gap begins.
* AutoPtr: three variables, since a transfer has a source, a target and a bystander; one
  object of each kind (plain, from-this, `shared_ptr`), two of which a program makes; six blocks are
  as many as these variables, the object's own pointer and the temporaries can hold.  The
  counter has its 16 bits (`Wrap`), which so few pointers cannot use up: that the 65536th pointer
  to an object wraps it (`Auto_Ptr.h:69`) is left out of the run and excluded by an
  assumption of the theorems (`FewPointers`).
* Caches and DelayDelete: two keys and two values tell a stale answer from another key's; a
  duration of one and a clock that stops at three pass the expiry twice; two threads for
  the mutex; three things with delays up to two.  `CacheItems` belongs to one thread.
* ContainerMitSuche: four entries under two keys give a key with several indices and an
  erasure before, between and behind them.
* FifoWithPrio: priorities up to three and five data, more pops than there are priorities.
* SyncPipe: two clients with two calls each, so that a semaphore is made again at the
  place of an old one.  Handles: three handles, a source, a target and a bystander.
* Tree: eight values; seven is the smallest tree in which the terminal is not a leaf
  (`TreeRemove.cfg` has seven).  `TreeIsItsSet` is proved for any number of values.
* Texts and documents of up to five pieces out of eight: the longest cases are a text, a
  comment and a text, or a child between texts, inside an element.  The pieces contain
  flanks, escapes, signs, separators and digits; elements with and without attribute,
  empty element, reference and comment.
* Numbers of four bits, turned by up to nine in all: more than twice the width.  All start
  and end values of a loop.
* Arrays on nine bytes with elements of one, two and four: conversions leave every
  possible rest.
* The counters of the lock modules (`ref_count`, `waiting_counter`, `reading`) are natural numbers
  and bounded by the number of threads and slots; that they do not underflow is
  part of the type invariants.

`CHECK_DEADLOCK FALSE` appears where the system really may stop: a pipe that has ended, or whose
worker sleeps with nobody left to call; a signal that is destroyed; a clock,
a test, a text or a word at its end; a tree whose ASSERT has failed.


## Fairness

Safety properties are checked without fairness.  For liveness:

* A thread inside a method takes its next step (weak fairness of each thread's
  step): the scheduler runs every thread.  No thread is ever obliged to *call* anything.
* `MutexAtomicFlag`: test-and-set in a spin loop is only weakly fair, since the
  loop with `yield` favours nobody.  Unlocking is strongly fair because a guard
  is a local object whose scope ends.  `LockIsTakenOver` therefore promises
  no more than that *someone* takes the lock, and only when `islocked()`
  is not polled for ever.
* `Semaphore`: weak fairness of each thread's step, the spin lock included.
  Spurious wakeups need none; they happen in the run and prevent nothing.
* `Pipe`: the locks of the pipe's mutex are strongly fair: it is a `std::mutex`,
  which blocks its waiters, and a waiter that competes with finitely many others
  is served.  The semaphore's `state_mutex` keeps its weak fairness, hence the
  condition of `EverythingProcessed`.
* `Signal`: weak fairness of the steps of an emission, its callbacks included: a
  callback returns.
* `Algorithms`: `balance()` is a loop of one thread, which goes on.
* `SyncAccess.FairSpec` is generous (strong fairness of taking the lock and of releasing
  accesses) and belongs to the statement below that two upgrading threads
  retry for ever: it is not due to a starved thread.


## The proofs

TLAPS proves these for every set of threads (finite where counting is involved),
every assignment of calls, every depth and every set of slots, data, callbacks, keys,
handles, pointers and objects, every finite set of values in the tree, every width of a word, every
length of a block and of its elements.

| module | theorems |
|---|---|
| `MutexAtomicFlagProofs` | `TypeCorrect`, `Exclusion`, `Detection`, `OneCause`, `Refinement` (implements `ExclusiveLock`) |
| `RecursiveMutexAtomicFlagProofs` | `Invariance` (with types), `Exclusion`, `CountExact`, `OwnerDecision`, `Refinement` (implements `ReentrantLock`) |
| `SemaphoreProofs` | `TypeCorrect`, `CountExact`, `AtomicWait`, `PulseTurn`, `NobodyLeftBehind` |
| `SyncAccessProofs` | `TypeCorrect`, `Counting`, `Exclusion`, `Strictness`, `StrictWaiting`, `Refinement` (implements `ReadersWriter`) |
| `PipeProofs` | `Invariance`, `OrderKept`, `Consistent`, `ImplementsSemaphore` (implements `Semaphore`), `CountExactInPipe` |
| `SignalProofs` | `AlwaysHolds`, `BreakLasts`, `EmissionComplete`, `LeaksOnly`; with few callbacks `Invariance`, `Consistent`, `BlockLasts` |
| `ContainersProofs` | `Invariance`, `NeverStale`, `InTime`, `OrderKept`, `AnswersFirst`, `HandlesCount`; of the parts of `Algorithms`: `TreeStaysItsSet`, `WindowStaysInBlock`, `NumbersStayExact` |
| `AutoPtrProofs` | with few pointers `Invariance`, `NeverBroken`, `AlwaysOneOwner`, `Consistent`, `NeverDangles`, `LastShare` |

They stand on the `ASSUME`s of the modules, which TLC evaluates in every run:

* `NoThread` is not a thread, `NoData` no data set, `NoGuard` no guard, `NoValue` no value,
  `NoHandle` no handle, `NoObject` no object, `NoBlock` no block: the null values differ from the others.
* `CallsOf` and `ControlOps` name methods; the worker of a pipe is neither its
  controller nor a producer.
* The sets of threads (of Semaphore, SyncAccess and Pipe), of callbacks, of handles,
  of variables with an `auto_ptr` and of objects with `auto_this` are finite.
* Priorities of a signal lie between one and the default one, which is at least two, and there is
  at least one id.
* Keys of `Cache`, durations, delays, bounds of clocks and bounds of calls are natural numbers.

* Variables, temporaries and objects are different things, and there are places in memory for as many blocks
  as there are pointers (`SpaceAssumption`): `new` succeeds, and Create's CHOOSE finds a place.
* The values of the tree are finitely many integers, and `NoNode` is none of them.  Blocks have a length and elements a
  size of at least one.  A word has at least one bit, and `2 ^ Width` is a positive number: the prover has no
  induction to find that out, and TLC evaluates it.

`Algorithms` takes the steps of `TreeSpec`, `PtrArraySpec` and `NumbersSpec`, one of them in each
behaviour, and these are what the last three theorems of `ContainersProofs` are about.

Two groups of theorems have a hypothesis beside them: `FewCallbacks` in SignalProofs, and `FewPointers` in
AutoPtrProofs, see below.

The argument is the same everywhere: an inductive invariant `IInv`, the lemmas
`InitInv` and `StepInv` (one step per action), and the theorem `Invariance`;
every other theorem follows from it.  Why the invariants are stronger than the properties:

* *MutexAtomicFlag.*  Exclusion alone is not inductive: a step that takes the
  flag excludes others only because the flag is set whenever a thread is inside in any
  way (`FlagOwned`), and a thread is inside in one way only (`InsideOneWay`).
  `OwnerIsGuard` ties the owner field to the guard; exact detection follows.
  `OneCause` says that the flag is set exactly while one thread is inside, and that
  `islocked()` never clears it for somebody else.
* *RecursiveMutexAtomicFlag.*  The same with `Counted` (the counter is the number of
  guards, give or take the one being made), `LeavingIsFinal` (whoever resets the owner has no
  guard) and `OwnerNoted`.
* *Semaphore.*  `StateOwned` says which labels hold `state_mutex`; `FirstLook` that
  the first evaluation of the predicate finds the gate blocked, so a thread that
  comes to wait is counted in before it lets go of the mutex; `CallsMade` that threads
  are in methods they called.  With these the step of the predicate changes
  `Waiters` and the counter together (`PredCountKeepsExact`) and all others leave both alone
  (`OthersKeepWaiters`).  `TurnOver` carries the result of `pulse()`'s waiting
  loop to the step that closes the gate.  The type of the counter comes last:
  it is a cardinality.
* *SyncAccess.*  `LockExact` equates the depth of the lock with the number of
  reasons to hold it; `CountsExact` equates the counters with the access objects
  and the half-made ones; a test that finds no conflict then means that nobody
  else *has* an access (`NoConflict`), and `AdmittedAlone` keeps it so while the writer
  holds the lock.  `SlotsApart` keeps the objects of a thread apart.
* *Pipe.*  The steps are those of the pipe's own code and those of its semaphore's.
  For the second, `SemaphoreProofs` is instantiated (`SP`), with the lemmas on each method
  of it, and its inductive invariant is a conjunct of the one here.  The pipe's own
  conjuncts are `OwnTypes`; `Holding`, which labels hold the mutex, and
  `MutexOwned`, that only these do; `Hands`, whose hands are full where;
  `Begins`, `CallMatches` and `InItsMethod`, which tie a thread's place in the pipe
  to the call it makes of the semaphore.  From `Holding` comes that no one pushes
  between the pop that comes back empty and the closing of the gate, which is
  `BlockedForAReason`: a closed gate means an empty pool, a pipe that was told to stop,
  or a thread that is about to open it; `OpenedStays` carries that promise through the
  semaphore's method.  `ImplementsSemaphore` is the refinement
  `Spec => Sema!Spec`: what is proved of `Semaphore` holds in the pipe, and
  `CountExactInPipe` is an example.
* *Signal.*  What each thread and each emission does is independent of the numbers that
  connections get (`Always`), and so are four theorems.  That a guard stands for its own connection (`TableInv`:
  every callback is connected once; a connection has one holder, a guard or whoever released
  it, and its entry is there; likewise a block) needs that the search of `connect()` for a free number finds one, and
  this holds if the callbacks are not more than the ids of a priority: `FewCallbacks ==
  Cardinality(Fns) <= MaxId`.  It is the real class that needs it, not the proof: when all
  ids of the default priority are used, the next one packs to id 0 of priority 1, a second
  one like it overwrites that entry, and the first guard's connection is gone.
  TLC finds the state when `Signal.cfg` is given one callback more than `MaxId`.
  In the code `MaxId` is 2^(bits of `size_t` - 8) - 1, so no program comes near.
* *Containers.*  One invariant for each class, since a behaviour is one of one of them:
  - `CacheInv`: the mutex is held by the thread with a job (`OneJob`), and what it has established so far
    stands: the entry it found is there, each key it has looked through is valid since the
    scan began (`JobStands`).
  - `ItemsInv`: an entry of the map has the value its key was given last and expires no earlier than it
    should.
  - `DeleteInv`: a `Clean()` has read the clock before, with the mutex.
  - `FindInv`: `IndexExact` with the bounds that make it inductive.  That the map which
    `_newmap()` makes is the ascending list of indices needs that every finite set of numbers
    can be listed in ascending order.  This is a statement by induction, which is
    proved here from a smallest counterexample (`WFMin`).
  - `PrioInv`: the pool is sorted, ids are unique and old (`PoolInv`), and the priority of a waiting datum
    is what is left until its ripening, zero afterwards (`Ripens`), which makes the
    comparison of priorities in `AddData` a comparison of ripenings.  `PlaceFits` says that the place `AddData` looks up splits
    the pool into those that go before the new datum and those behind.
  - `SyncInv`: a caller inside has its gate (`GateThere`), while its data are in the
    queue or at the worker its gate is closed and it is before it (`BeforeTheGate`), the worker opens a gate only of a caller
    it has answered (`AnsweredFirst`), and while it waits in `set_running()` for those it has woken it refers
    to no gate that can go away (`WhileDraining`).
  - `HandleInv`: the counter of a group is the number of its handles, less one, less those whose
    assignment has still to count up; a handle has one assignment at most
    (`AssigningApart`); a counter that nobody shares is -1 or 0 (`Abandoned`), so that a
    new group starts right.  `CallInv`: an action is armed as long as one handle has it.

* *AutoPtr.*  The operations are operators from heap to heap, so nearly every lemma is about
  two heaps: what an operation leaves and what it changes, and that it keeps `Sound`, the invariant of one heap.
  `Sound` is stronger than the properties where the destructor looks at something else than
  what it deletes.  `Owning`: an owner points to its object as long as that is alive and to nothing
  afterwards, which is all `~auto_ptr` asks before it deletes; an object with `auto_this` is owned in the block of
  that.  `Agree`: the pointers of a block point to one object or to none.  `Sharing`, `Owned`,
  `Callers`: who has to delete what.  `SelfPointers`: what an `auto_this` is.  `Managed`: a managed pointer
  has the owner or the `auto_this` of its object in its block.  `Counted`: the counters.
  In the middle of an operation not all of this holds; `Shrunk` says what the steps of
  a destructor (invalidate the block, give up the object, leave the block) do together, and `LeavingSound` that their
  end is sound again when they are taken in the order of the code.
  For `LastShare` each operation also says what happens to the objects of
  `std::shared_ptr`: one goes only with the share of the variable that the operation destroys or assigns to, and the
  variables of its block point to nothing then (`Tells` for a destructor, `Told` from the call of an
  operation to its end); `SameShares` carries this through the temporaries.
  `FewPointers == Cardinality(Pointers) < Wrap` is the hypothesis that the 16 bits of
  `ReferenzCounterShare::Counter` (`Auto_Ptr.h:69`) count all pointers: with one more the counter
  is zero while pointers share the block, and the code does not test for it.

* *Tree.*  A search tree is stated without recursion.  `IsLinked`: children and parents point at each other, no node has
  two holders.  `Spans`: each node has two bounds, `lo` and `hi`, and its value is between them; the
  bounds of the left child are `lo` and the node, of the right child the node and `hi`; the root's are
  below and above all values.  `Nested`: of two nodes one is in a branch of the other, or what
  they reach is apart.  The bounds are not in the code: the invariant
  (`TreeInvariant`) says that there are some.  Since `hi - lo` gets smaller on the way down, every recursive function of the tree has a
  value: a descending walk ends (`WaysEnd`), a sum over both branches exists (`SumsEnd`), each
  from a smallest counterexample.  `WayGoal` then says where a walk ends from what it keeps on
  the way, and so `find`, `_most`, the place of `add`, the successor and `up` are characterised by bounds alone.
  A turn (`rotate`) changes the bounds of two nodes (`TurnLinked`, `TurnSpans`, `TurnNested`); `add` narrows one gap
  (`GrownKeeps`); taking out a leaf widens one (`CutKeeps`); `_exchange_cut_parent` is the cutting
  of the terminal and the renaming of the removed node to it (`RenamedKeeps`, `ExchangeRenames`), which keeps
  the order because the terminal is the next value on its side (`PartnerIsNext`).  Weights and depths decide only whether a
  turn is made: that it has something to turn is all the proof needs of them.  When the terminal is
  no leaf the code has lost its ASSERT, and the invariant ends there as the property does.
* *ptr_array.*  `IsWindow`: the bytes behind the pointer end in the block, an array of `void` counts in bytes,
  and the elements are the whole quotient of the bytes (`Whole`).  Each operator is
  shown to go from window to window, with the few laws of quotients and products it
  needs stated as lemmas with all variables named (`Quotient`, `Distributes`, `QuotientAdd`), because the solvers do not find
  them in a larger context.
* *numbers.*  Remainders are treated as multiples (`HasRemainder`).  A turn by `n` places is `Around`: every bit moves on by `n`
  modulo the width; the shifts of `rotl` and `rotr` do that to every bit (`TurnsGoAround`) and two of them are one by the
  sum (`AroundAgain`), so the turns made so far add up (`IsTurnedWord`).  The bits told and the bits left
  split the word (`IsSplit`).  A loop value goes round a circle of `2 ^ Width` values, which closes
  only after its whole distance (`CircleCloses`), so `valid` ends the loop at the last
  value and not before (`IsLoop`).

`NobodyLeftBehind` (nobody waits behind an open gate) assumes that nobody opens the gate with
`Notify::one` or `Notify::none` (`OpensForAll`): these leave threads behind by intent.

Some of what is proved was left out of the runs since then: types and plain exclusion of the lock
modules, `OneCause`, `NobodyLeftBehind`.

`EmissionIsComplete` is stated callback by callback, as is the invariant it comes from, so that
no set is built that the provers would have to compare.

Only model-checked are:

* the liveness properties, since fairness and ENABLED are beyond the prover: `LockIsTakenOver`, `OpeningReturns`,
  `NoLostWakeup`, `EverythingProcessed`, `JoinReturns`, `EmissionEnds`, `BalanceEnds`;
* `AgreesWithReference`: Text, Xml and the tests are `RECURSIVE` operators on texts, and what they compute for every input
  needs induction over data;
* the three refuted statements, of course.


## What the models showed

Three runs refute what the code says of itself:

| run (cfg) | statement | what happens |
|---|---|---|
| pipe_drain (`PipeDrain.cfg`) | `pipe.h:143`: `processdata_endworker` waits until all data is processed | The worker pops nothing; then data is pushed and the pipe is ended; the worker tests `threadstate` (line 245) with the old result and ends. The data stays in the pool. |
| signal_orphan (`SignalOrphan.cfg`) | `signal.h:175`: a `Connection_Guard` removes its callback in its destructor | A guard that is destroyed in a callback of its signal gets a deadlock_exception, swallows it, and its callback stays. |
| tree_remove (`TreeRemove.cfg`) | `tree.h:264`: the terminal that `remove()` exchanges is a leaf | With seven values the branch has branches of its own; the turn leaves it one; without the ASSERT values are lost. |

The models behave as the code does in these cases too, which no run asks about because
the property that covers the component leaves them out, or because the statement of the
code is weaker.  They are told here for the reader of the code.

*Semaphore, Pipe, SyncAccess*

* `is_blocked()` returns `is_signaled(...)` (`semaphore.h:160`).
* `processdata_endworker(terminate)` can hang: the worker is past its loop test, `PopData`
  blocks the semaphore again after the wakeup (`pipe.h:179`), and line 245 does not look for
  `terminate`.
* `set_processing_blocked()` does not stop a worker that is awake (`pipe.h:221`).
* `SyncAccess::release()` looks its thread up in the `std::map` without the lock, while
  the first access of another thread inserts into it (`SyncReadWrite.h:268`).
* With `thread_write`, two threads with a read access each that both call
  `WriteAccessWait` back off and retry for ever (`SyncReadWrite.h:446`; line 34 says a
  write access can be created at any time).

*Signal*

* A `Block_Guard` that outlives its connection unblocks the next one with the same id
  (`BlockGuardBlocks` in `Signal`, against `signal.h:188`).
* When all ids of a priority are in use, the search for a gap (`signal.h:313`) runs past the
  last one: the id spills into the bits of the priority, which throws, except with the
  default priority, where the new connection gets the invalid id 0 of priority 1.
* Two signals whose callbacks emit each other, from two threads, wait for each other's locks.

*auto_ptr*

* A pointer whose block was made a second time from the same `std::shared_ptr`, or a
  `weak()` one whose last `std::shared_ptr` is elsewhere, dangles while `is_managed()` says otherwise.
* `release()` of an object with `enable_auto_ptr_from_this` marks the block of its
  `auto_this` as not managed.

*Caches, containers, handles*

* `Cache::Set` of a key that is there keeps the old expiry (`insert_or_assign` keeps the key),
  against `cache.h:53`.  `NothingStale` therefore says nothing of an item that `Set` hands out.
* With `DurationRefresh_key` any scan prolongs every item that is valid.
* `push_back_unique` of a key that is there more than once pushes it again.
* `DelayDelete` destroys objects with its mutex locked; a destructor that adds
  another object meets it.
* `raii_boolstatus::status()` is wrong for a moment while a handle of its group is assigned
  by another thread.
* `DestructorCall2`'s move constructor assigns the base member before the base is
  constructed; `AutoResource` with `Last` releases at once.  Its move with `Last` or `OnlyFirst`
  takes nothing over, even when the target is empty.
* Data that is still in the pool when a pipe is destroyed open the semaphore of their client
  unprocessed: `process_data_and_wait` returns without an answer.

*Tree*

* `remove()` tests `rdw.weight` where it needs `ldw.weight` (`tree.h:342`): a node with a
  left branch only is not removed and the ASSERT at 360 fails.
* The root need not be balanced when `balance()` ends, against `UT_Tree.cpp:91`, which asserts it after
  each `add()` for one order of values.  Ten values added in the order 2, 1, 5, 4, 8, 7, 9, 10, 6, 3 end
  with branches of depth 2 and 4: `_too_heavy` decides by weight (`tree.h:252`) to turn once
  where the inner branch is the deeper one, and the new fork is not looked at again.  TLC finds it when
  `TreeRemove.cfg` is given ten keys and the invariant `BalancedAtRest`; with nine there is no such tree.  Nodes
  below the root are left unbalanced by fewer.
* `find()` compares with `<` and not with the tree's comparator.

*Parsing*

* `eat_integer` misses overflows: in eight bits "300" is 44 and "999" is 231 (against
  `parse_helper.h:40`); "-128" is refused; "--5" is 5.
* `eat_first` compares with the character behind its container; `mid()` behind the end
  returns everything; `remove_escape` reads past a dangling escape; `reversefind` answers
  begin-1 when nothing is found; `find_replace` stops at an empty replacement; the variant
  of `remove_flank` with three arguments does not compile.
* In XML an empty element as a child is eaten for ever (`xml.h:1038`); a second text of an element, behind a
  child or comment, throws `std::invalid_argument` (1104, `iterator_access.h:106`).  Both are
  content by the grammar of line 1066; `AgreesWithReference` leaves them out.  `&#0;` is eaten but not a reference; an attribute value
  that begins with a reference or '>', or has two references in a row, fails; two
  whitespaces between attributes end the tag.

*Arrays*

* `ptr_array<void*>::operator-=(INT_PTR)` forgets the minus (819-825);
  `ptr_array<void const*>::operator+(INT_PTR)` casts negative numbers and then always throws.
* The const `operator[](INT_PTR)` (268) refuses the first element for a negative index, the
  other one (260) does not.
* `append` copies `append.ByteLen()` bytes though it compares `ElementCount`: a
  rest that a conversion left is copied too; appending an empty typed array throws.
* `operator+` drops a rest of bytes, `++` keeps it.  The typed `reset()` does not compile.
* A turn by a multiple of the width shifts by the full width, which is undefined for
  `int` and wider types (`rotate.h`); either outcome gives the right value.


## What is not modelled

* *In modelled components.*  The destructor of Semaphore, which waits for `state_mutex` only
  while a thread may still be inside (`semaphore.h:105`), and that of a pipe with a sleeping
  worker (`pipe.h:139`); `set_processing()` after the worker was joined (`pipe.h:228`).
  SyncAccess: access objects that are moved to another thread or outlive
  their SyncAccess, `Reinitialize`.  Signal: `num_slots`, which reads the table without the lock.
  Tree: copying and printing.  Parsing: characters beyond ASCII and
  conversions between character types.  Arrays: the owned buffers, which forward to
  `new[]`, `malloc` and `free`.  Addresses are integers without a width: what a `TRef` or a negative
  index makes of a pointer near address zero is not seen.  `rotate` of the smallest `int`, whose negation is undefined.
* *Memory order*: atomics are sequentially consistent, as the code declares them,
  and the plain fields that race are words.
* *Guards and raii_mutex*: no state of their own beyond the mutex they lock.
* *Type helpers*: evaluated by the compiler.
* *Conversions to text, XML files through pugixml, console, clipboard, wall clock, batch files*:
  input, output and formatting.  `umbenennen` uses Pipe as one instance of the module Pipe does.
* *Unit tests* of classes that start threads or sleep are not repeated as scripts; the runs have
  every interleaving of these classes.  The document of `UT_XML`'s natvis test is
  abridged to one element of each kind.

`PROJECT.json` has the complete list of components with the reason for each.


## The plan

Every component with behaviour of its own has its module, and every safety property of the runs
whose modules the prover can read has its theorem.  What could be added next is in the model: the lifetime of Semaphore
and SyncAccess (destructors, moved accesses).  The reading of texts stays with TLC as
long as there is no induction over data; a theorem about it would begin with texts as sequences of pieces and
walks over them, as the tree has them over its nodes.
