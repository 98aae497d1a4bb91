------------------------------- MODULE Signal -------------------------------
(***************************************************************************)
(* WS::Signal (headeronly/signal.h): threads connect callbacks to a        *)
(* signal, block them and emit the signal.  Every operation but            *)
(* break_signaling takes the signal's mutex_atomicflag; an emission keeps  *)
(* it while the callbacks run, so a callback that uses the signal itself   *)
(* gets a deadlock_exception, which the destructor of a guard swallows.    *)
(*                                                                         *)
(* A callback is connected under a name of its own, so that a state tells  *)
(* whose connection a number stands for when numbers are used again.       *)
(***************************************************************************)
EXTENDS SignalTable

CONSTANTS Threads, NoThread,
          Prios,           \* the priorities callbacks are connected with
          Fns,             \* the callbacks
          Guards, Blocks,  \* the variables of type Connection_Guard, Block_Guard
          NoGuard

ASSUME SignalAssumption ==
  /\ NoThread \notin Threads
  /\ Prios \subseteq 1 .. DefaultPrio
  /\ IsFiniteSet(Fns)
  /\ NoGuard \notin [key : (1 .. DefaultPrio) \X (0 .. MaxId), fn : Fns]

VARIABLES
  alive,           \* the signal exists
  slots,           \* prio_callbacks
  guards, blocks,  \* the connection each guard object stands for
  kept,            \* what release() gave out: the holder cares for it
  locker,          \* the thread that has the lock
  breakSignaling,
  pc,              \* where each thread is in operator()
  called,          \* the callbacks of the running emission, the last is the position
  asked,           \* somebody asked to break the running emission
  outlived         \* a Block_Guard has outlived its connection before

vars == <<alive, slots, guards, blocks, kept, locker, breakSignaling, pc, called, asked, outlived>>
emission == <<locker, breakSignaling, pc, called, asked>>

Keys == (1 .. DefaultPrio) \X (0 .. MaxId)
Connections == [key : Keys, fn : Fns]

TypeOK ==
  /\ alive \in BOOLEAN
  /\ DOMAIN slots \subseteq Keys
  /\ \A k \in DOMAIN slots : slots[k] \in [fn : Fns, blocked : BOOLEAN]
  /\ guards \in [Guards -> Connections \cup {NoGuard}]
  /\ blocks \in [Blocks -> Connections \cup {NoGuard}]
  /\ kept \subseteq [what : {"connection", "block"}, of : Connections]
  /\ locker \in Threads \cup {NoThread}
  /\ breakSignaling \in BOOLEAN
  /\ pc \in [Threads -> {"idle", "reset", "loop", "callback"}]
  /\ called \in Seq(Keys)
  /\ asked \in BOOLEAN
  /\ outlived \in BOOLEAN

Init ==
  /\ alive = TRUE
  /\ slots = NoSlots
  /\ guards = [g \in Guards |-> NoGuard]
  /\ blocks = [b \in Blocks |-> NoGuard]
  /\ kept = {}
  /\ locker = NoThread
  /\ breakSignaling = FALSE
  /\ pc = [t \in Threads |-> "idle"]
  /\ called = <<>>
  /\ asked = FALSE
  /\ outlived = FALSE

\* The holders of a connection and of a block, with what they hold.
Held(gs, ks) ==
  {gs[g] : g \in {h \in Guards : gs[h] # NoGuard}}
    \cup {r.of : r \in {q \in ks : q.what = "connection"}}
HeldBlocks(bs, ks) ==
  {bs[b] : b \in {c \in Blocks : bs[c] # NoGuard}}
    \cup {r.of : r \in {q \in ks : q.what = "block"}}

\* The names of callbacks that something still stands for.
NamesInUse ==
  {slots[k].fn : k \in DOMAIN slots} \cup {r.of.fn : r \in kept}
    \cup {x.fn : x \in ({guards[g] : g \in Guards} \cup {blocks[b] : b \in Blocks}) \ {NoGuard}}

\* t is outside and gets the lock at once, for an operation in one step.
Locks(t) == pc[t] = "idle" /\ locker = NoThread

Unlock(t) ==
  /\ locker' = NoThread
  /\ pc' = [pc EXCEPT ![t] = "idle"]
  /\ called' = <<>>
  /\ asked' = FALSE

-----------------------------------------------------------------------------
(***************************************************************************)
(* Faulty variants, none is part of Next.                                  *)
(***************************************************************************)

\* connect does not wait for the lock.
MutantConnectWithoutLock(t, g, prio, f) ==
  LET id == next_id(slots, prio)
      k == id_type(id, prio)
  IN /\ alive
     /\ pc[t] = "idle"
     /\ guards[g] = NoGuard
     /\ f \notin NamesInUse
     /\ IdFits(id, prio)
     /\ slots' = Put(slots, k, Entry(f, FALSE))
     /\ guards' = [guards EXCEPT ![g] = [key |-> k, fn |-> f]]
     /\ UNCHANGED <<alive, blocks, kept, emission>>

\* operator() resets the flag before it waits for the lock.
MutantEmitResetsFirst(t) ==
  /\ alive
  /\ pc[t] = "idle"
  /\ breakSignaling' = FALSE
  /\ IF locker = NoThread
     THEN locker' = t /\ pc' = [pc EXCEPT ![t] = "loop"]
     ELSE UNCHANGED <<locker, pc>>
  /\ UNCHANGED <<alive, slots, guards, blocks, kept, called, asked>>

\* Both loops skip what is left when they are broken, but do not end.
MutantEndOnlyAtLast(t) ==
  /\ pc[t] = "loop"
  /\ Callable(slots) = {} \/ (called # <<>> /\ \A k \in Callable(slots) : ~Before(Last(called), k))
  /\ Unlock(t)
  /\ UNCHANGED <<alive, slots, guards, blocks, kept, breakSignaling>>

\* block() gives out a guard for a connection that is blocked already.
MutantBlockTwice(t, g, b) ==
  /\ alive
  /\ Locks(t)
  /\ guards[g] # NoGuard
  /\ blocks[b] = NoGuard
  /\ guards[g].key \in DOMAIN slots
  /\ slots' = [slots EXCEPT ![guards[g].key].blocked = TRUE]
  /\ blocks' = [blocks EXCEPT ![b] = guards[g]]
  /\ UNCHANGED <<alive, guards, kept, emission>>

\* A guard that is assigned to forgets its old connection.
MutantMoveForgets(t, g, h) ==
  /\ pc[t] = "idle"
  /\ g # h
  /\ guards[h] # NoGuard
  /\ guards' = [guards EXCEPT ![g] = guards[h], ![h] = NoGuard]
  /\ UNCHANGED <<alive, slots, blocks, kept, emission>>

-----------------------------------------------------------------------------
(***************************************************************************)
(* Connections.  A guard whose signal is gone does nothing: its auto_ptr   *)
(* to the signal is null then.                                             *)
(***************************************************************************)

\* signal.connect(f, prio) for an empty guard.
Connect(t, g, prio, f) ==
  LET id == next_id(slots, prio)
      k == id_type(id, prio)
  IN /\ alive
     /\ Locks(t)
     /\ guards[g] = NoGuard
     /\ f \notin NamesInUse
     /\ IdFits(id, prio)
     /\ slots' = Put(slots, k, Entry(f, FALSE))
     /\ guards' = [guards EXCEPT ![g] = [key |-> k, fn |-> f]]
     /\ UNCHANGED <<alive, blocks, kept, emission>>

\* What the table is once the connection x is disconnected.
Disconnected(x) == IF alive /\ x # NoGuard THEN Cut(slots, x.key) ELSE slots

\* Connection_Guard::disconnect() or its destructor.
Disconnect(t, g) ==
  /\ Locks(t)
  /\ guards[g] # NoGuard
  /\ slots' = Disconnected(guards[g])
  /\ guards' = [guards EXCEPT ![g] = NoGuard]
  /\ UNCHANGED <<alive, blocks, kept, emission>>

\* g = std::move(h): a temporary takes the old connection of g and ends it.
MoveGuard(t, g, h) ==
  /\ Locks(t)
  /\ g # h
  /\ guards[h] # NoGuard
  /\ slots' = Disconnected(guards[g])
  /\ guards' = [guards EXCEPT ![g] = guards[h], ![h] = NoGuard]
  /\ UNCHANGED <<alive, blocks, kept, emission>>

\* Connection_Guard::release(), without the lock.
Release(t, g) ==
  /\ pc[t] \in {"idle", "callback"}
  /\ guards[g] # NoGuard
  /\ guards' = [guards EXCEPT ![g] = NoGuard]
  /\ kept' = kept \cup {[what |-> "connection", of |-> guards[g]]}
  /\ UNCHANGED <<alive, slots, blocks, emission>>

\* signal.disconnect(id) by the one who called release().
DisconnectId(t, r) ==
  /\ alive
  /\ Locks(t)
  /\ r.what = "connection"
  /\ slots' = Cut(slots, r.of.key)
  /\ kept' = kept \ {r}
  /\ UNCHANGED <<alive, guards, blocks, emission>>

-----------------------------------------------------------------------------
(***************************************************************************)
(* Blocking a connection.                                                  *)
(***************************************************************************)

\* Connection_Guard::block(): a connection that is gone or blocked already
\* gives an empty Block_Guard.
Block(t, g, b) ==
  /\ alive
  /\ Locks(t)
  /\ guards[g] # NoGuard
  /\ blocks[b] = NoGuard
  /\ guards[g].key \in DOMAIN slots
  /\ ~slots[guards[g].key].blocked
  /\ slots' = [slots EXCEPT ![guards[g].key].blocked = TRUE]
  /\ blocks' = [blocks EXCEPT ![b] = guards[g]]
  /\ UNCHANGED <<alive, guards, kept, emission>>

\* What the table is once x is unblocked; a number that is not blocked is an
\* exception.
Unblocked(x) ==
  IF alive /\ x # NoGuard /\ x.key \in DOMAIN slots
  THEN [slots EXCEPT ![x.key].blocked = FALSE] ELSE slots

\* Block_Guard::unblock() or its destructor.
Unblock(t, b) ==
  /\ Locks(t)
  /\ blocks[b] # NoGuard
  /\ slots' = Unblocked(blocks[b])
  /\ blocks' = [blocks EXCEPT ![b] = NoGuard]
  /\ UNCHANGED <<alive, guards, kept, emission>>

\* b = std::move(c)
MoveBlock(t, b, c) ==
  /\ Locks(t)
  /\ b # c
  /\ blocks[c] # NoGuard
  /\ slots' = Unblocked(blocks[b])
  /\ blocks' = [blocks EXCEPT ![b] = blocks[c], ![c] = NoGuard]
  /\ UNCHANGED <<alive, guards, kept, emission>>

\* Block_Guard::release(), without the lock.
ReleaseBlock(t, b) ==
  /\ pc[t] \in {"idle", "callback"}
  /\ blocks[b] # NoGuard
  /\ blocks' = [blocks EXCEPT ![b] = NoGuard]
  /\ kept' = kept \cup {[what |-> "block", of |-> blocks[b]]}
  /\ UNCHANGED <<alive, slots, guards, emission>>

\* signal.unblock(id) by the one who called release().
UnblockId(t, r) ==
  /\ alive
  /\ Locks(t)
  /\ r.what = "block"
  /\ slots' = Unblocked(r.of)
  /\ kept' = kept \ {r}
  /\ UNCHANGED <<alive, guards, blocks, emission>>

-----------------------------------------------------------------------------
(***************************************************************************)
(* Emission.                                                               *)
(***************************************************************************)

\* operator() gets the lock.
Emit(t) ==
  /\ alive
  /\ Locks(t)
  /\ locker' = t
  /\ pc' = [pc EXCEPT ![t] = "reset"]
  /\ UNCHANGED <<alive, slots, guards, blocks, kept, breakSignaling, called, asked>>

ResetBreak(t) ==
  /\ pc[t] = "reset"
  /\ breakSignaling' = FALSE
  /\ pc' = [pc EXCEPT ![t] = "loop"]
  /\ UNCHANGED <<alive, slots, guards, blocks, kept, locker, called, asked>>

\* The callbacks the two loops have not come to yet.
Ahead == {k \in Callable(slots) : called = <<>> \/ Before(Last(called), k)}

CallNext(t) ==
  /\ pc[t] = "loop"
  /\ ~breakSignaling
  /\ \E k \in Ahead :
       /\ \A j \in Ahead \ {k} : Before(k, j)
       /\ called' = Append(called, k)
  /\ pc' = [pc EXCEPT ![t] = "callback"]
  /\ UNCHANGED <<alive, slots, guards, blocks, kept, locker, breakSignaling, asked>>

EndEmission(t) ==
  /\ pc[t] = "loop"
  /\ breakSignaling \/ Ahead = {}
  /\ Unlock(t)
  /\ UNCHANGED <<alive, slots, guards, blocks, kept, breakSignaling>>

CallbackReturns(t) ==
  /\ pc[t] = "callback"
  /\ pc' = [pc EXCEPT ![t] = "loop"]
  /\ UNCHANGED <<alive, slots, guards, blocks, kept, locker, breakSignaling, called, asked>>

\* An exception, of its own or the deadlock_exception of an operation of the
\* signal it tries, leaves operator() and gives the lock back.
CallbackThrows(t) ==
  /\ pc[t] = "callback"
  /\ Unlock(t)
  /\ UNCHANGED <<alive, slots, guards, blocks, kept, breakSignaling>>

\* A guard is destroyed in a callback: the lock throws, the destructor
\* swallows it, and the table stays as it is.
GuardDiesInCallback(t, g) ==
  /\ pc[t] = "callback"
  /\ guards[g] # NoGuard
  /\ guards' = [guards EXCEPT ![g] = NoGuard]
  /\ UNCHANGED <<alive, slots, blocks, kept, emission>>

BlockDiesInCallback(t, b) ==
  /\ pc[t] = "callback"
  /\ blocks[b] # NoGuard
  /\ blocks' = [blocks EXCEPT ![b] = NoGuard]
  /\ UNCHANGED <<alive, slots, guards, kept, emission>>

\* break_signaling(), without the lock, by a callback or by another thread.
break_signaling(t) ==
  /\ alive
  /\ pc[t] \in {"idle", "callback"}
  /\ breakSignaling' = TRUE
  /\ asked' = \E u \in Threads : pc[u] \in {"loop", "callback"}
  /\ UNCHANGED <<alive, slots, guards, blocks, kept, locker, pc, called>>

\* The signal is destroyed while no thread is in it.
Destroy ==
  /\ alive
  /\ locker = NoThread
  /\ alive' = FALSE
  /\ slots' = NoSlots
  /\ UNCHANGED <<guards, blocks, kept, emission>>

-----------------------------------------------------------------------------

Table(t) ==
  \/ \E g \in Guards, p \in Prios, f \in Fns : Connect(t, g, p, f)
  \/ \E g \in Guards : Disconnect(t, g) \/ Release(t, g)
  \/ \E g, h \in Guards : MoveGuard(t, g, h)
  \/ \E r \in kept : DisconnectId(t, r) \/ UnblockId(t, r)
  \/ \E g \in Guards, b \in Blocks : Block(t, g, b)
  \/ \E b \in Blocks : Unblock(t, b) \/ ReleaseBlock(t, b)
  \/ \E b, c \in Blocks : MoveBlock(t, b, c)

Running(t) ==
  /\ ResetBreak(t) \/ CallNext(t) \/ EndEmission(t) \/ CallbackReturns(t)
  /\ UNCHANGED outlived

InCallback(t) ==
  \/ CallbackThrows(t)
  \/ \E g \in Guards : GuardDiesInCallback(t, g)
  \/ \E b \in Blocks : BlockDiesInCallback(t, b)

\* A block is held for a connection that is no longer there.
StaleBlock(s, held) == \E x \in held : x.key \notin DOMAIN s \/ s[x.key].fn # x.fn

Next ==
  /\ \/ \E t \in Threads : Table(t) \/ Emit(t) \/ Running(t) \/ InCallback(t) \/ break_signaling(t)
     \/ Destroy
  /\ outlived' = (outlived \/ (alive' /\ StaleBlock(slots', HeldBlocks(blocks', kept'))))

\* Callbacks return; nobody has to emit, connect or break.
Spec == Init /\ [][Next]_vars /\ \A t \in Threads : WF_vars(Running(t))

-----------------------------------------------------------------------------

\* Although numbers are used again, every guard and every id that was released
\* stands for the callback it was made for, and no two stand for the same one:
\* ending a connection ends that connection and no other (next_id, disconnect).
GuardOwnsItsConnection ==
  alive =>
    /\ \A x \in Held(guards, kept) : x.key \in DOMAIN slots /\ slots[x.key].fn = x.fn
    /\ \A g, h \in Guards : g # h /\ guards[g] # NoGuard => guards[g] # guards[h]

\* ... and the table, the guards and the threads keep their types.
TableConsistent == TypeOK /\ GuardOwnsItsConnection

\* An emission that is neither broken nor left by an exception calls exactly
\* the callbacks that are connected and not blocked when it ends, in the order
\* of priority and number: nobody changes the table under it.
EmissionIsComplete ==
  [][\A t \in Threads : pc[t] = "loop" /\ pc'[t] = "idle" =>
       \/ asked
       \/ /\ ToSet(called) = Callable(slots)
          /\ \A i, j \in DOMAIN called : i < j => Before(called[i], called[j])]_vars

\* After a callback or another thread has broken the running emission no
\* further callback is called; a second emission that waits for the lock
\* cannot wipe the request (operator(), line 198).
BreakIsFinal == [][asked /\ asked' => called' = called]_vars

\* A connection stays in the table without a holder, and a callback stays
\* blocked without a holder, only when its guard was destroyed in a callback,
\* where the lock of the signal is refused.
LeaksOnlyInCallback ==
  [][\A k \in DOMAIN slots \cap DOMAIN slots' :
       LET x == [key |-> k, fn |-> slots[k].fn]
       IN \/ slots'[k].fn # slots[k].fn
          \/ \E t \in Threads : pc[t] = "callback"
          \/ /\ x \in Held(guards, kept) => x \in Held(guards, kept)'
             /\ x \in HeldBlocks(blocks, kept) /\ slots'[k].blocked => x \in HeldBlocks(blocks, kept)']_vars

\* As long as no Block_Guard has outlived the connection it was made for, a
\* connection is blocked from its Block_Guard's birth to its death, and never
\* by two of them (block, unblock).
BlockLastsAsItsGuard ==
  alive /\ ~outlived =>
    /\ \A x \in HeldBlocks(blocks, kept) : slots[x.key].blocked
    /\ \A b, c \in Blocks : b # c /\ blocks[b] # NoGuard => blocks[b] # blocks[c]

\* Every emission ends and gives the lock back when its callbacks return.
EmissionEnds == \A t \in Threads : pc[t] # "idle" ~> pc[t] = "idle"

\* What signal.h:175 says of a Connection_Guard: its destructor removes the
\* callback.  It does not hold for a guard that dies in a callback.
NoCallbackWithoutGuard ==
  alive => \A k \in DOMAIN slots : [key |-> k, fn |-> slots[k].fn] \in Held(guards, kept)

\* What signal.h:188 says of a Block_Guard: as long as it lives its connection
\* is not signalled.  It does not hold when a guard of an earlier connection
\* with the same number is destroyed meanwhile.
BlockGuardBlocks ==
  alive => \A x \in HeldBlocks(blocks, kept) :
    x.key \in DOMAIN slots /\ slots[x.key].fn = x.fn => slots[x.key].blocked

=============================================================================
