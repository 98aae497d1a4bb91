---------------------------- MODULE SignalProofs ----------------------------
(***************************************************************************)
(* The signal for any number of threads, callbacks, guards and priorities. *)
(* Numbers of connections are used again; a guard still ends its own       *)
(* connection because next_id() gives out a number that no connection of   *)
(* the priority has.  That holds as long as there are no more callbacks    *)
(* than numbers (FewCallbacks): with every number in use next_id() returns *)
(* one that does not fit into the bits of lfdnr, and IdFits lets it pass   *)
(* for the default priority, where it packs to a number of priority 1.     *)
(***************************************************************************)
EXTENDS Signal, FiniteSetTheorems, SequenceTheorems, WellFoundedInduction, TLAPS

FewCallbacks == Cardinality(Fns) <= MaxId

-----------------------------------------------------------------------------

\* A thread inside operator() has the lock, and only such a thread has it.
LockHeld == \A t \in Threads : pc[t] # "idle" <=> locker = t

Emitting == \E t \in Threads : pc[t] \in {"loop", "callback"}

\* breakSignaling is set in a running emission exactly when somebody asked.
BreakSeen ==
  /\ asked => Emitting
  /\ Emitting => (asked <=> breakSignaling)

\* A running emission has called, in the order of the maps, every callback
\* that it has passed.
CalledSoFar ==
  /\ ~Emitting => called = <<>>
  /\ \A i, j \in 1 .. Len(called) : i < j => Before(called[i], called[j])
  /\ \A i \in 1 .. Len(called) : called[i] \in Callable(slots)
  /\ \A k \in Callable(slots) : k \in Ahead \/ \E i \in 1 .. Len(called) : called[i] = k

\* Every callback is connected once, under a number that is not 0.
SlotsApart ==
  /\ \A k \in DOMAIN slots : k[2] # 0
  /\ \A j, k \in DOMAIN slots : slots[j].fn = slots[k].fn => j = k

\* The connection x is in the table s; it is blocked there.
Stands(s, x) == x.key \in DOMAIN s /\ s[x.key].fn = x.fn
IsBlocked(s, x) == Stands(s, x) /\ s[x.key].blocked

\* Every holder's connection is there, and a connection has one holder: a guard
\* or the one who called release().
OneHolder ==
  alive =>
    /\ \A g \in Guards : guards[g] # NoGuard => Stands(slots, guards[g])
    /\ \A r \in kept : r.what = "connection" => Stands(slots, r.of)
    /\ \A g, h \in Guards : g # h /\ guards[g] # NoGuard => guards[g] # guards[h]
    /\ \A r \in kept : r.what = "connection" => \A g \in Guards : guards[g] # r.of

\* Every holder's block is there, and a block has one holder.
BlocksApart ==
  /\ \A b \in Blocks : blocks[b] # NoGuard => IsBlocked(slots, blocks[b])
  /\ \A r \in kept : r.what = "block" => IsBlocked(slots, r.of)
  /\ \A b, c \in Blocks : b # c /\ blocks[b] # NoGuard => blocks[b] # blocks[c]
  /\ \A r \in kept : r.what = "block" => \A b \in Blocks : blocks[b] # r.of

\* ... as long as none has outlived its connection.
OneBlocker == alive /\ ~outlived => BlocksApart

\* The part of the invariant that is about one emission ...
LoopInv == LockHeld /\ BreakSeen /\ CalledSoFar

\* ... the part that holds however many callbacks there are ...
Always == TypeOK /\ LoopInv /\ (~alive => slots = NoSlots)

\* ... and the part that needs a number for each of them.
TableInv == SlotsApart /\ OneHolder /\ OneBlocker

IInv == Always /\ TableInv

-----------------------------------------------------------------------------
\* Numbers

\* A set of numbers that has elements and a bound has a largest one.
LEMMA HasMax ==
  ASSUME NEW n \in Nat, NEW S \in SUBSET (0 .. n), S # {}
  PROVE  Max(S) \in S /\ \A x \in S : x <= Max(S)
<1> DEFINE T == {x \in Nat : n - x \in S}
<1>1. T # {}
  <2>1. PICK s \in S : TRUE
    OBVIOUS
  <2>2. n - s \in T
    BY <2>1
  <2>. QED
    BY <2>2
<1>2. PICK m \in T : \A y \in T : <<y, m>> \notin OpToRel(<, Nat)
  <2> HIDE DEF T
  <2>. QED
    BY <1>1, NatLessThanWellFounded, WFMin DEF T
<1>3. \A y \in T : ~(y < m)
  BY <1>2 DEF OpToRel
<1>4. n - m \in S /\ \A x \in S : x <= n - m
  <2>1. ASSUME NEW x \in S, x > n - m PROVE FALSE
    <3>1. n - x \in T /\ n - x < m
      BY <2>1
    <3>. QED
      BY <3>1, <1>3
  <2>. QED
    BY <2>1
<1>. QED
  BY <1>4 DEF Max

\* A set of numbers that has elements has a smallest one.
LEMMA HasMin ==
  ASSUME NEW S \in SUBSET Nat, S # {}
  PROVE  Min(S) \in S /\ \A x \in S : Min(S) <= x
<1>1. PICK m \in S : \A y \in S : <<y, m>> \notin OpToRel(<, Nat)
  BY NatLessThanWellFounded, WFMin
<1>2. \A y \in S : ~(y < m)
  BY <1>1 DEF OpToRel
<1>3. \A y \in S : m <= y
  BY <1>2
<1>. QED
  BY <1>3 DEF Min

\* The number after the largest one is 0.
LEMMA Offset ==
  ASSUME NEW n \in 0 .. MaxId
  PROVE  id_offset(n) = IF n = MaxId THEN 0 ELSE n + 1
BY TableAssumption DEF id_offset

\* What next_id() gives out: at most one more than fits.  It is a number that
\* the priority does not use, when the priority does not use 0.
LEMMA NextId ==
  ASSUME TypeOK, NEW prio
  PROVE  /\ UsedIds(slots, prio) \subseteq 0 .. MaxId
         /\ IsFiniteSet(UsedIds(slots, prio)) /\ Cardinality(UsedIds(slots, prio)) \in Nat
         /\ next_id(slots, prio) \in 1 .. MaxId + 1
         /\ 0 \notin UsedIds(slots, prio) =>
              /\ next_id(slots, prio) \notin UsedIds(slots, prio)
              /\ Cardinality(UsedIds(slots, prio)) < MaxId => next_id(slots, prio) <= MaxId
<1> DEFINE used == UsedIds(slots, prio)
<1> DEFINE gaps == {i \in 1 .. Cardinality(used) + 1 : i \notin used}
<1> DEFINE next == IF used = {} THEN 1 ELSE id_offset(Max(used))
<1>1. used \subseteq 0 .. MaxId
  BY TableAssumption DEF TypeOK, Keys, UsedIds
<1>2. IsFiniteSet(used) /\ Cardinality(used) \in Nat
  <2> HIDE DEF used
  <2>1. IsFiniteSet(0 .. MaxId)
    BY TableAssumption, FS_Interval
  <2>. QED
    BY <1>1, <2>1, FS_Subset, FS_CardinalityType
<1>3. next_id(slots, prio) =
        IF next # 0 THEN next ELSE IF 0 \in used THEN 1 ELSE Min(gaps)
  BY DEF next_id
<1>4. next \in 0 .. MaxId /\ (next # 0 => next \notin used)
  <2>1. CASE used = {}
    BY <2>1, TableAssumption
  <2>2. CASE used # {}
    <3> HIDE DEF used
    <3>0. used \in SUBSET (0 .. MaxId)
      BY <1>1
    <3>1. Max(used) \in used /\ \A x \in used : x <= Max(used)
      BY <2>2, <3>0, HasMax, TableAssumption
    <3>2. next = IF Max(used) = MaxId THEN 0 ELSE Max(used) + 1
      BY <2>2, <3>0, <3>1, Offset
    <3> HIDE DEF next
    <3>3. Max(used) \in 0 .. MaxId
      BY <3>0, <3>1
    <3>4. ASSUME Max(used) + 1 \in used PROVE FALSE
      BY <3>1, <3>3, <3>4
    <3>. QED
      BY <3>2, <3>3, <3>4, TableAssumption
  <2>. QED
    BY <2>1, <2>2
<1>5. ASSUME 0 \notin used
      PROVE  Cardinality(used) <= MaxId /\ Min(gaps) \in gaps
  <2>1. used \in SUBSET (1 .. MaxId)
    BY <1>1, <1>5
  <2>2. gaps \in SUBSET Nat
    BY <1>2
  <2>3. Cardinality(used) <= MaxId
    <3> HIDE DEF used
    <3>1. IsFiniteSet(1 .. MaxId) /\ Cardinality(1 .. MaxId) = MaxId
      BY TableAssumption, FS_Interval
    <3>. QED
      BY <2>1, <3>1, FS_Subset
  <2>4. gaps # {}
    <3> SUFFICES ASSUME 1 .. Cardinality(used) + 1 \subseteq used PROVE FALSE
      OBVIOUS
    <3> HIDE DEF used
    <3>1. Cardinality(1 .. Cardinality(used) + 1) = Cardinality(used) + 1
      BY <1>2, FS_Interval
    <3>. QED
      BY <1>2, <3>1, FS_Subset
  <2> HIDE DEF gaps, used
  <2>. QED
    BY <2>2, <2>3, <2>4, HasMin
<1>6. ASSUME 0 \notin used
      PROVE  /\ next_id(slots, prio) \in 1 .. MaxId + 1 /\ next_id(slots, prio) \notin used
             /\ Cardinality(used) < MaxId => next_id(slots, prio) <= MaxId
  <2>1. Min(gaps) \in 1 .. Cardinality(used) + 1 /\ Min(gaps) \notin used
    BY <1>5, <1>6
  <2> HIDE DEF used, next, gaps
  <2>. QED
    BY <1>2, <1>3, <1>4, <1>5, <1>6, <2>1, TableAssumption
<1>7. ASSUME 0 \in used
      PROVE  next_id(slots, prio) \in 1 .. MaxId + 1
  <2> HIDE DEF used, next, gaps
  <2>. QED
    BY <1>3, <1>4, <1>7, TableAssumption
<1>. QED
  BY <1>1, <1>2, <1>6, <1>7

\* With a callback that is not connected there is a number that is not used.
LEMMA FewUsed ==
  ASSUME FewCallbacks, TypeOK, SlotsApart,
         NEW prio, NEW f \in Fns, \A k \in DOMAIN slots : slots[k].fn # f
  PROVE  0 \notin UsedIds(slots, prio) /\ Cardinality(UsedIds(slots, prio)) < MaxId
<1> DEFINE used == UsedIds(slots, prio)
<1> DEFINE name == [n \in used |-> slots[<<prio, n>>].fn]
<1>1. 0 \notin used
  BY DEF SlotsApart, UsedIds
<1>2. \A n \in used : <<prio, n>> \in DOMAIN slots
  <2> SUFFICES ASSUME NEW k \in DOMAIN slots, k[1] = prio
               PROVE  <<prio, k[2]>> \in DOMAIN slots
    BY DEF UsedIds
  <2>1. k = <<k[1], k[2]>>
    BY DEF TypeOK, Keys
  <2>. QED
    BY <2>1
<1>3. name \in Injection(used, Fns \ {f})
  <2>1. name \in [used -> Fns \ {f}]
    BY <1>2 DEF TypeOK
  <2>2. \A m, n \in used : name[m] = name[n] => m = n
    BY <1>2 DEF SlotsApart
  <2>. QED
    BY <2>1, <2>2 DEF Injection, IsInjective
<1>4. /\ IsFiniteSet(Fns \ {f}) /\ Cardinality(Fns \ {f}) = Cardinality(Fns) - 1
      /\ Cardinality(Fns) \in Nat
  BY SignalAssumption, FS_RemoveElement, FS_CardinalityType
<1>5. Cardinality(used) <= Cardinality(Fns \ {f}) /\ Cardinality(used) \in Nat
  <2> HIDE DEF used, name
  <2>. QED
    BY <1>3, <1>4, FS_Injection, FS_CardinalityType
<1>. QED
  BY <1>1, <1>4, <1>5, TableAssumption DEF FewCallbacks

\* next_id() gives out a number that fits and that the priority does not use.
LEMMA NextIdFresh ==
  ASSUME FewCallbacks, TypeOK, SlotsApart,
         NEW prio \in 1 .. DefaultPrio,
         NEW f \in Fns, \A k \in DOMAIN slots : slots[k].fn # f
  PROVE  /\ next_id(slots, prio) \in 1 .. MaxId
         /\ <<prio, next_id(slots, prio)>> \notin DOMAIN slots
<1>1. /\ next_id(slots, prio) \in 1 .. MaxId + 1 /\ next_id(slots, prio) <= MaxId
      /\ next_id(slots, prio) \notin UsedIds(slots, prio)
  BY NextId, FewUsed
<1>2. next_id(slots, prio) \in 1 .. MaxId
  BY <1>1, TableAssumption
<1>. QED
  BY <1>1, <1>2 DEF UsedIds

\* Even a number that does not fit is packed to a pair of the table.
LEMMA PacksToKey ==
  ASSUME TypeOK, NEW prio \in 1 .. DefaultPrio
  PROVE  id_type(next_id(slots, prio), prio) \in Keys
<1>1. next_id(slots, prio) \in 1 .. MaxId + 1
  BY NextId
<1>2. CASE next_id(slots, prio) <= MaxId
  BY <1>1, <1>2, TableAssumption DEF id_type, Keys
<1>3. CASE next_id(slots, prio) = MaxId + 1
  <2>1. (MaxId + 1) \div (MaxId + 1) = 1 /\ (MaxId + 1) % (MaxId + 1) = 0
    BY TableAssumption
  <2>. QED
    BY <1>3, <2>1, TableAssumption DEF id_type, Keys
<1>. QED
  BY <1>1, <1>2, <1>3, TableAssumption

-----------------------------------------------------------------------------
\* One emission

\* The order of the maps.
LEMMA BeforeOrders ==
  /\ \A j, k, m \in Keys : Before(j, k) /\ Before(k, m) => Before(j, m)
  /\ \A j, k \in Keys : Before(j, k) \/ j = k \/ Before(k, j)
  /\ \A j \in Keys : ~Before(j, j)
BY TableAssumption DEF Before, Keys

\* Who works on the table leaves the emission alone, and changes the table only
\* when nobody has the lock.
Outside ==
  /\ UNCHANGED emission
  /\ UNCHANGED slots \/ locker = NoThread

LEMMA TableOutside ==
  ASSUME NEW t \in Threads, Table(t)
  PROVE  Outside /\ UNCHANGED alive
BY DEF Table, Outside, Connect, Disconnect, MoveGuard, Release, DisconnectId,
   Block, Unblock, MoveBlock, ReleaseBlock, UnblockId, Locks, emission

LEMMA OutsideKeepsLoop ==
  ASSUME TypeOK, LoopInv, Outside
  PROVE  LoopInv'
<1> USE DEF TypeOK, LoopInv, Outside, emission, LockHeld, BreakSeen, CalledSoFar,
            Emitting, Ahead
<1>1. LockHeld' /\ BreakSeen'
  OBVIOUS
<1>2. CASE UNCHANGED slots
  BY <1>1, <1>2
<1>3. CASE locker = NoThread
  <2>1. ~Emitting /\ ~Emitting' /\ called' = <<>>
    BY <1>3, SignalAssumption
  <2>. QED
    BY <1>1, <2>1
<1>. QED
  BY <1>2, <1>3

\* A step with the lock is the only one that goes on.
LEMMA RunningKeepsLoop ==
  ASSUME TypeOK, LoopInv, NEW t \in Threads,
         Emit(t) \/ Running(t) \/ InCallback(t) \/ break_signaling(t)
  PROVE  LoopInv'
<1> USE DEF TypeOK, LoopInv, emission, LockHeld, BreakSeen, Emitting, Unlock, Locks
<1>1. CASE Emit(t)
  <2>1. LockHeld' /\ BreakSeen'
    BY <1>1, SignalAssumption DEF Emit
  <2>2. ~Emitting /\ ~Emitting' /\ UNCHANGED <<slots, called>>
    BY <1>1, SignalAssumption DEF Emit
  <2>. QED
    BY <2>1, <2>2 DEF CalledSoFar, Ahead
<1>2. CASE ResetBreak(t)
  <2>1. LockHeld' /\ BreakSeen'
    BY <1>2, SignalAssumption DEF ResetBreak
  <2>2. ~Emitting /\ Emitting' /\ UNCHANGED <<slots, called>>
    BY <1>2, SignalAssumption DEF ResetBreak
  <2>. QED
    BY <2>1, <2>2 DEF CalledSoFar, Ahead
<1>3. CASE CallNext(t)
  <2>1. LockHeld' /\ BreakSeen' /\ Emitting'
    BY <1>3, SignalAssumption DEF CallNext
  <2>2. PICK k \in Ahead : /\ \A j \in Ahead \ {k} : Before(k, j)
                           /\ called' = Append(called, k)
    BY <1>3 DEF CallNext
  <2>3. /\ k \in Keys /\ Callable(slots) \subseteq Keys /\ slots' = slots
        /\ k \in Callable(slots)
    BY <1>3 DEF CallNext, Ahead, Callable
  <2>4. /\ Len(called') = Len(called) + 1
        /\ called'[Len(called) + 1] = k
        /\ \A i \in 1 .. Len(called) : called'[i] = called[i] /\ called[i] \in Keys
        /\ Len(called) \in Nat
    BY <2>2, <2>3, AppendProperties, LenProperties, ElementOfSeq
  <2>5. ASSUME NEW i \in 1 .. Len(called) PROVE Before(called[i], k)
    <3>1. called # <<>> /\ Before(called[Len(called)], k)
      BY <2>2, <2>4 DEF Ahead, Last
    <3>2. i = Len(called) \/ Before(called[i], called[Len(called)])
      BY <2>4 DEF CalledSoFar
    <3>3. Len(called) \in 1 .. Len(called)
      BY <2>4
    <3>. QED
      BY <2>3, <2>4, <3>1, <3>2, <3>3, BeforeOrders
  <2>6. \A i, j \in 1 .. Len(called') : i < j => Before(called'[i], called'[j])
    BY <2>4, <2>5 DEF CalledSoFar
  <2>7. \A i \in 1 .. Len(called') : called'[i] \in Callable(slots')
    BY <2>3, <2>4 DEF CalledSoFar
  <2>8. Ahead' = {m \in Callable(slots) : Before(k, m)}
    BY <2>2, <2>3, <2>4, AppendProperties DEF Ahead, Last
  <2>9. ASSUME NEW m \in Callable(slots)
        PROVE  m \in Ahead' \/ \E i \in 1 .. Len(called') : called'[i] = m
    <3>1. CASE m \in Ahead \ {k}
      BY <2>2, <2>8, <3>1
    <3>2. CASE m = k
      BY <2>4, <3>2
    <3>3. CASE m \notin Ahead
      BY <2>4, <3>3 DEF CalledSoFar
    <3>. QED
      BY <3>1, <3>2, <3>3
  <2>. QED
    BY <2>1, <2>3, <2>6, <2>7, <2>9 DEF CalledSoFar
<1>4. CASE EndEmission(t) \/ CallbackThrows(t)
  <2>1. LockHeld' /\ BreakSeen' /\ ~Emitting' /\ called' = <<>>
    BY <1>4, SignalAssumption DEF EndEmission, CallbackThrows
  <2>. QED
    BY <2>1 DEF CalledSoFar, Ahead
<1>5. CASE CallbackReturns(t)
  <2>1. LockHeld' /\ BreakSeen' /\ Emitting /\ Emitting' /\ UNCHANGED <<slots, called>>
    BY <1>5, SignalAssumption DEF CallbackReturns
  <2>. QED
    BY <2>1 DEF CalledSoFar, Ahead
<1>6. CASE break_signaling(t)
  <2>1. LockHeld' /\ BreakSeen' /\ (Emitting' <=> Emitting) /\ UNCHANGED <<slots, called>>
    BY <1>6 DEF break_signaling
  <2>. QED
    BY <2>1 DEF CalledSoFar, Ahead
<1>7. CASE \/ \E g \in Guards : GuardDiesInCallback(t, g)
           \/ \E b \in Blocks : BlockDiesInCallback(t, b)
  BY <1>7, OutsideKeepsLoop
     DEF Outside, GuardDiesInCallback, BlockDiesInCallback
<1>. QED
  BY <1>1, <1>2, <1>3, <1>4, <1>5, <1>6, <1>7 DEF Running, InCallback

-----------------------------------------------------------------------------
\* The table

\* What TypeOK says of the table, and with SlotsApart.
SlotsTyped(s) ==
  /\ DOMAIN s \subseteq Keys
  /\ \A k \in DOMAIN s : s[k] \in [fn : Fns, blocked : BOOLEAN]
SlotsGood(s) ==
  /\ SlotsTyped(s)
  /\ \A k \in DOMAIN s : k[2] # 0
  /\ \A j, k \in DOMAIN s : s[j].fn = s[k].fn => j = k

\* A callback that is connected under a fresh number stays apart.
LEMMA PutGood ==
  ASSUME NEW s, SlotsGood(s), NEW k \in Keys, k[2] # 0, k \notin DOMAIN s,
         NEW f \in Fns, \A j \in DOMAIN s : s[j].fn # f
  PROVE  SlotsGood(Put(s, k, Entry(f, FALSE)))
BY DEF SlotsTyped, SlotsGood, Put, Entry

\* A connection that is cut is the only one that goes.
LEMMA CutGood ==
  ASSUME NEW s, SlotsGood(s), NEW k
  PROVE  /\ SlotsGood(Cut(s, k))
         /\ DOMAIN Cut(s, k) = DOMAIN s \ {k}
         /\ \A j \in DOMAIN s \ {k} : Cut(s, k)[j] = s[j]
BY DEF SlotsTyped, SlotsGood, Cut

\* Blocking changes nothing but the mark.
LEMMA MarkGood ==
  ASSUME NEW s, SlotsGood(s), NEW k \in DOMAIN s, NEW b \in BOOLEAN
  PROVE  LET r == [s EXCEPT ![k].blocked = b]
         IN /\ SlotsGood(r)
            /\ DOMAIN r = DOMAIN s
            /\ r[k] = [fn |-> s[k].fn, blocked |-> b]
            /\ \A j \in DOMAIN s \ {k} : r[j] = s[j]
BY DEF SlotsTyped, SlotsGood

\* The connections that are disconnected or unblocked.
LEMMA DisconnectedGood ==
  ASSUME SlotsGood(slots), NEW x
  PROVE  /\ SlotsGood(Disconnected(x))
         /\ ~alive => Disconnected(x) = slots
         /\ DOMAIN Disconnected(x) \subseteq DOMAIN slots
         /\ \A j \in DOMAIN slots : x = NoGuard \/ j # x.key => j \in DOMAIN Disconnected(x)
         /\ \A j \in DOMAIN Disconnected(x) : Disconnected(x)[j] = slots[j]
<1>1. CASE alive /\ x # NoGuard
  <2>1. Disconnected(x) = Cut(slots, x.key)
    BY <1>1 DEF Disconnected
  <2>2. /\ SlotsGood(Cut(slots, x.key))
        /\ DOMAIN Cut(slots, x.key) = DOMAIN slots \ {x.key}
        /\ \A j \in DOMAIN slots \ {x.key} : Cut(slots, x.key)[j] = slots[j]
    BY CutGood
  <2>. QED
    BY <1>1, <2>1, <2>2
<1>2. CASE ~(alive /\ x # NoGuard)
  <2>1. Disconnected(x) = slots
    BY <1>2 DEF Disconnected
  <2>2. CASE ~alive
    BY <2>1, <2>2
  <2>3. CASE x = NoGuard
    BY <2>1, <2>3
  <2>. QED
    BY <1>2, <2>2, <2>3
<1>. QED
  BY <1>1, <1>2

LEMMA UnblockedGood ==
  ASSUME SlotsGood(slots), NEW x
  PROVE  /\ SlotsGood(Unblocked(x))
         /\ ~alive => Unblocked(x) = slots
         /\ DOMAIN Unblocked(x) = DOMAIN slots
         /\ \A j \in DOMAIN slots : Unblocked(x)[j].fn = slots[j].fn
         /\ \A j \in DOMAIN slots : x = NoGuard \/ j # x.key => Unblocked(x)[j] = slots[j]
<1>1. CASE alive /\ x # NoGuard /\ x.key \in DOMAIN slots
  <2>1. Unblocked(x) = [slots EXCEPT ![x.key].blocked = FALSE]
    BY <1>1 DEF Unblocked
  <2>2. LET r == [slots EXCEPT ![x.key].blocked = FALSE]
        IN /\ SlotsGood(r)
           /\ DOMAIN r = DOMAIN slots
           /\ r[x.key] = [fn |-> slots[x.key].fn, blocked |-> FALSE]
           /\ \A j \in DOMAIN slots \ {x.key} : r[j] = slots[j]
    BY <1>1, MarkGood
  <2>. QED
    BY <1>1, <2>1, <2>2
<1>2. CASE ~(alive /\ x # NoGuard /\ x.key \in DOMAIN slots)
  <2>1. Unblocked(x) = slots
    BY <1>2 DEF Unblocked
  <2>. QED
    BY <2>1
<1>. QED
  BY <1>1, <1>2

LEMMA GoodSlots == TypeOK /\ SlotsApart => SlotsGood(slots)
BY DEF TypeOK, SlotsApart, SlotsTyped, SlotsGood

\* g gets a new connection, which has a number and a callback of its own.
Connects(g, k, f) ==
  /\ k \notin DOMAIN slots /\ k[2] # 0
  /\ \A j \in DOMAIN slots : slots[j].fn # f
  /\ \A h \in Guards : guards[h] # NoGuard => guards[h].fn # f
  /\ \A b \in Blocks : blocks[b] # NoGuard => blocks[b].fn # f
  /\ \A r \in kept : r.of.fn # f
  /\ alive /\ guards[g] = NoGuard
  /\ slots' = Put(slots, k, Entry(f, FALSE))
  /\ guards' = [guards EXCEPT ![g] = [key |-> k, fn |-> f]]
  /\ UNCHANGED <<alive, blocks, kept>>

LEMMA ConnectEffect ==
  ASSUME FewCallbacks, TypeOK, SlotsApart, NEW t \in Threads, NEW g \in Guards,
         NEW prio \in Prios, NEW f \in Fns, Connect(t, g, prio, f)
  PROVE  \E k \in Keys : Connects(g, k, f)
<1> DEFINE id == next_id(slots, prio)
<1>1. /\ \A j \in DOMAIN slots : slots[j].fn # f
      /\ \A h \in Guards : guards[h] # NoGuard => guards[h].fn # f
      /\ \A b \in Blocks : blocks[b] # NoGuard => blocks[b].fn # f
      /\ \A r \in kept : r.of.fn # f
  BY DEF Connect, NamesInUse
<1>2. prio \in 1 .. DefaultPrio
  BY SignalAssumption
<1>3. id \in 1 .. MaxId /\ <<prio, id>> \notin DOMAIN slots
  BY <1>1, <1>2, NextIdFresh
<1>4. id_type(id, prio) = <<prio, id>> /\ <<prio, id>> \in Keys
  BY <1>2, <1>3, TableAssumption DEF id_type, Keys
<1>5. /\ alive /\ guards[g] = NoGuard
      /\ slots' = Put(slots, id_type(id, prio), Entry(f, FALSE))
      /\ guards' = [guards EXCEPT ![g] = [key |-> id_type(id, prio), fn |-> f]]
      /\ UNCHANGED <<alive, blocks, kept>>
  BY DEF Connect
<1>6. <<prio, id>>[2] # 0
  BY <1>3
<1> HIDE DEF id
<1>. QED
  BY <1>1, <1>3, <1>4, <1>5, <1>6 DEF Connects

\* The objects, without the table.
ObjectTypes ==
  /\ guards \in [Guards -> Connections \cup {NoGuard}]
  /\ blocks \in [Blocks -> Connections \cup {NoGuard}]
  /\ kept \subseteq [what : {"connection", "block"}, of : Connections]

\* Every operation on the table keeps the types of table and objects.
LEMMA TableTypes ==
  ASSUME TypeOK, NEW t \in Threads, Table(t)
  PROVE  SlotsTyped(slots') /\ ObjectTypes'
<1>0. SlotsTyped(slots) /\ ObjectTypes
  BY DEF TypeOK, SlotsTyped, ObjectTypes
<1>1. \A x : SlotsTyped(Cut(slots, x))
  BY <1>0 DEF SlotsTyped, Cut
<1>2. \A x : SlotsTyped(Disconnected(x))
  BY <1>0, <1>1 DEF Disconnected
<1>3. \A x : \A b \in BOOLEAN : SlotsTyped([slots EXCEPT ![x].blocked = b])
  BY <1>0 DEF SlotsTyped
<1>4. \A x : SlotsTyped(Unblocked(x))
  BY <1>0 DEF SlotsTyped, Unblocked
<1>5. ASSUME NEW g \in Guards, NEW p \in Prios, NEW f \in Fns, Connect(t, g, p, f)
      PROVE  SlotsTyped(slots') /\ ObjectTypes'
  <2> DEFINE k == id_type(next_id(slots, p), p)
  <2>1. p \in 1 .. DefaultPrio
    BY SignalAssumption
  <2>2. k \in Keys
    BY <2>1, PacksToKey
  <2>3. /\ slots' = Put(slots, k, Entry(f, FALSE))
        /\ guards' = [guards EXCEPT ![g] = [key |-> k, fn |-> f]]
        /\ UNCHANGED <<blocks, kept>>
    BY <1>5 DEF Connect
  <2> HIDE DEF k
  <2>4. SlotsTyped(slots')
    BY <1>0, <2>2, <2>3 DEF SlotsTyped, Put, Entry
  <2>. QED
    BY <1>0, <2>2, <2>3, <2>4 DEF ObjectTypes, Connections
<1>6. ASSUME NEW g \in Guards, Disconnect(t, g) \/ Release(t, g)
      PROVE  SlotsTyped(slots') /\ ObjectTypes'
  BY <1>0, <1>2, <1>6 DEF Disconnect, Release, ObjectTypes
<1>7. ASSUME NEW g \in Guards, NEW h \in Guards, MoveGuard(t, g, h)
      PROVE  SlotsTyped(slots') /\ ObjectTypes'
  BY <1>0, <1>2, <1>7 DEF MoveGuard, ObjectTypes
<1>8. ASSUME NEW r \in kept, DisconnectId(t, r) \/ UnblockId(t, r)
      PROVE  SlotsTyped(slots') /\ ObjectTypes'
  BY <1>0, <1>1, <1>4, <1>8 DEF DisconnectId, UnblockId, ObjectTypes
<1>9. ASSUME NEW g \in Guards, NEW b \in Blocks, Block(t, g, b)
      PROVE  SlotsTyped(slots') /\ ObjectTypes'
  <2>1. SlotsTyped([slots EXCEPT ![guards[g].key].blocked = TRUE])
    BY <1>3
  <2>2. SlotsTyped(slots')
    BY <1>9, <2>1 DEF Block
  <2>. QED
    BY <1>0, <1>9, <2>2 DEF Block, ObjectTypes
<1>10. ASSUME NEW b \in Blocks, Unblock(t, b) \/ ReleaseBlock(t, b)
      PROVE  SlotsTyped(slots') /\ ObjectTypes'
  BY <1>0, <1>4, <1>10 DEF Unblock, ReleaseBlock, ObjectTypes
<1>11. ASSUME NEW b \in Blocks, NEW c \in Blocks, MoveBlock(t, b, c)
      PROVE  SlotsTyped(slots') /\ ObjectTypes'
  BY <1>0, <1>4, <1>11 DEF MoveBlock, ObjectTypes
<1>. QED
  BY <1>5, <1>6, <1>7, <1>8, <1>9, <1>10, <1>11 DEF Table

\* ... and keeps the connections apart, with a number for each callback.
LEMMA TableApart ==
  ASSUME FewCallbacks, TypeOK, SlotsApart, NEW t \in Threads, Table(t)
  PROVE  SlotsApart'
<1>0. SlotsGood(slots)
  BY GoodSlots
<1> SUFFICES SlotsGood(slots')
  BY DEF SlotsGood, SlotsApart
<1>1. \A x : SlotsGood(Cut(slots, x)) /\ SlotsGood(Disconnected(x)) /\ SlotsGood(Unblocked(x))
  BY <1>0, CutGood, DisconnectedGood, UnblockedGood
<1>2. ASSUME NEW g \in Guards, NEW p \in Prios, NEW f \in Fns, Connect(t, g, p, f)
      PROVE  SlotsGood(slots')
  <2>1. PICK k \in Keys : Connects(g, k, f)
    BY <1>2, ConnectEffect
  <2>. QED
    BY <1>0, <2>1, PutGood DEF Connects
<1>3. ASSUME NEW g \in Guards, NEW b \in Blocks, Block(t, g, b)
      PROVE  SlotsGood(slots')
  <2>1. SlotsGood([slots EXCEPT ![guards[g].key].blocked = TRUE])
    BY <1>0, <1>3, MarkGood DEF Block
  <2>. QED
    BY <1>3, <2>1 DEF Block
<1>. QED
  BY <1>0, <1>1, <1>2, <1>3
     DEF Table, Disconnect, Release, MoveGuard, DisconnectId, UnblockId, Unblock,
         ReleaseBlock, MoveBlock

\* The same of the operations in a callback, which leave the table alone.
LEMMA CallbackTypes ==
  ASSUME TypeOK, NEW t \in Threads, InCallback(t)
  PROVE  UNCHANGED <<alive, slots>> /\ ObjectTypes'
BY DEF TypeOK, ObjectTypes, InCallback, CallbackThrows, GuardDiesInCallback,
   BlockDiesInCallback

\* The lock is given back.
LEMMA UnlockTypes ==
  ASSUME TypeOK, NEW t \in Threads, Unlock(t)
  PROVE  /\ locker' \in Threads \cup {NoThread}
         /\ pc' \in [Threads -> {"idle", "reset", "loop", "callback"}]
         /\ called' \in Seq(Keys) /\ asked' \in BOOLEAN
<1>1. called' \in Seq(Keys)
  BY EmptySeq DEF Unlock
<1>. QED
  BY <1>1 DEF TypeOK, Unlock

\* Every variable keeps its type.
LEMMA StepTypes ==
  ASSUME TypeOK, [Next]_vars
  PROVE  TypeOK'
<1> USE DEF TypeOK
<1>0. outlived' \in BOOLEAN
  BY DEF Next, vars
<1>1. ASSUME NEW t \in Threads, Table(t) PROVE TypeOK'
  BY <1>0, <1>1, TableOutside, TableTypes DEF Outside, emission, SlotsTyped, ObjectTypes
<1>2. ASSUME NEW t \in Threads, InCallback(t) PROVE TypeOK'
  <2>1. /\ locker' \in Threads \cup {NoThread} /\ breakSignaling' \in BOOLEAN
        /\ pc' \in [Threads -> {"idle", "reset", "loop", "callback"}]
        /\ called' \in Seq(Keys) /\ asked' \in BOOLEAN
    <3>1. CASE CallbackThrows(t)
      BY <3>1, UnlockTypes DEF CallbackThrows
    <3>2. CASE UNCHANGED emission
      BY <3>2 DEF emission
    <3>. QED
      BY <1>2, <3>1, <3>2 DEF InCallback, GuardDiesInCallback, BlockDiesInCallback
  <2>. QED
    BY <1>0, <1>2, <2>1, CallbackTypes DEF ObjectTypes
<1>3. ASSUME NEW t \in Threads, CallNext(t) PROVE TypeOK'
  <2>1. called' \in Seq(Keys)
    BY <1>3, AppendProperties DEF CallNext, Ahead, Callable
  <2>. QED
    BY <1>0, <1>3, <2>1 DEF CallNext
<1>4. ASSUME NEW t \in Threads, Emit(t) \/ break_signaling(t)
      PROVE  TypeOK'
  BY <1>0, <1>4 DEF Emit, break_signaling
<1>5. ASSUME NEW t \in Threads, ResetBreak(t) \/ CallbackReturns(t) \/ EndEmission(t)
      PROVE  TypeOK'
  BY <1>0, <1>5, UnlockTypes DEF ResetBreak, CallbackReturns, EndEmission
<1>6. CASE Destroy
  <2>1. DOMAIN slots' = {}
    BY <1>6 DEF Destroy, NoSlots
  <2>2. /\ alive' = FALSE
        /\ UNCHANGED <<guards, blocks, kept, locker, breakSignaling, pc, called, asked>>
    BY <1>6 DEF Destroy, emission
  <2>. QED
    BY <1>0, <2>1, <2>2
<1>7. CASE UNCHANGED vars
  BY <1>7 DEF vars
<1>. QED
  BY <1>1, <1>2, <1>3, <1>4, <1>5, <1>6, <1>7 DEF Next, Running

-----------------------------------------------------------------------------
\* Who holds what

\* Ending the connection x leaves every other one as it is.
LEMMA OthersStand ==
  ASSUME SlotsGood(slots), NEW x \in Connections \cup {NoGuard},
         x # NoGuard => Stands(slots, x),
         NEW y \in Connections, Stands(slots, y), y # x
  PROVE  Stands(Disconnected(x), y)
<1>1. x = NoGuard \/ y.key # x.key
  BY DEF Stands, Connections
<1>2. /\ \A j \in DOMAIN slots : x = NoGuard \/ j # x.key => j \in DOMAIN Disconnected(x)
      /\ \A j \in DOMAIN Disconnected(x) : Disconnected(x)[j] = slots[j]
  BY DisconnectedGood
<1>. QED
  BY <1>1, <1>2 DEF Stands

\* Unblocking the connection x leaves every connection in the table, and every
\* other one blocked.
LEMMA OthersBlocked ==
  ASSUME SlotsGood(slots), NEW x \in Connections \cup {NoGuard}, NEW y \in Connections
  PROVE  /\ Stands(slots, y) => Stands(Unblocked(x), y)
         /\ IsBlocked(slots, y) /\ y # x /\ (x # NoGuard => Stands(slots, x))
              => IsBlocked(Unblocked(x), y)
<1>1. /\ DOMAIN Unblocked(x) = DOMAIN slots
      /\ \A j \in DOMAIN slots : Unblocked(x)[j].fn = slots[j].fn
      /\ \A j \in DOMAIN slots : x = NoGuard \/ j # x.key => Unblocked(x)[j] = slots[j]
  BY UnblockedGood
<1>2. Stands(slots, y) => Stands(Unblocked(x), y)
  BY <1>1 DEF Stands
<1>3. ASSUME IsBlocked(slots, y), y # x, x # NoGuard => Stands(slots, x)
      PROVE  IsBlocked(Unblocked(x), y)
  <2>1. x = NoGuard \/ y.key # x.key
    BY <1>3 DEF IsBlocked, Stands, Connections
  <2>. QED
    BY <1>1, <1>2, <1>3, <2>1 DEF IsBlocked, Stands
<1>. QED
  BY <1>2, <1>3

-----------------------------------------------------------------------------
\* Who holds what

\* Connecting, disconnecting and moving a guard.
LEMMA TableKeepsHolders ==
  ASSUME FewCallbacks, TypeOK, SlotsApart, OneHolder, NEW t \in Threads, Table(t)
  PROVE  OneHolder'
<1> SUFFICES ASSUME alive PROVE OneHolder'
  BY TableOutside DEF OneHolder
<1>0. /\ SlotsGood(slots)
      /\ guards \in [Guards -> Connections \cup {NoGuard}]
      /\ \A r \in kept : r.of \in Connections
      /\ NoGuard \notin Connections
  BY GoodSlots, SignalAssumption DEF TypeOK, Connections, Keys
<1> USE DEF OneHolder
<1>1. ASSUME NEW g \in Guards, NEW p \in Prios, NEW f \in Fns, Connect(t, g, p, f)
      PROVE  OneHolder'
  <2>1. PICK k \in Keys : Connects(g, k, f)
    BY <1>1, ConnectEffect
  <2> DEFINE s == Put(slots, k, Entry(f, FALSE))
  <2> DEFINE new == [key |-> k, fn |-> f]
  <2>2. /\ DOMAIN s = DOMAIN slots \cup {k}
        /\ s[k] = [fn |-> f, blocked |-> FALSE]
        /\ \A j \in DOMAIN slots : s[j] = slots[j]
    <3>1. k \notin DOMAIN slots
      BY <2>1 DEF Connects
    <3>. QED
      BY <3>1 DEF Put, Entry
  <2>3. slots' = s /\ guards' = [guards EXCEPT ![g] = new] /\ kept' = kept
    BY <2>1 DEF Connects
  <2> HIDE DEF s
  <2>4. Stands(s, new) /\ \A x \in Connections : Stands(slots, x) => Stands(s, x)
    BY <2>1, <2>2 DEF Stands, Connects
  <2>5. new \in Connections
    BY DEF Connections
  <2>6. /\ \A h \in Guards : guards[h] # NoGuard => guards[h] # new
        /\ \A r \in kept : r.of # new
    BY <2>1 DEF Connects
  <2> HIDE DEF new
  <2>7. guards'[g] = new /\ \A h \in Guards \ {g} : guards'[h] = guards[h]
    BY <1>0, <2>3
  <2>8. \A h \in Guards : guards'[h] # NoGuard => Stands(slots', guards'[h])
    BY <1>0, <2>3, <2>4, <2>7
  <2>9. \A r \in kept' : r.what = "connection" => Stands(slots', r.of)
    BY <1>0, <2>3, <2>4
  <2>10. \A h, i \in Guards : h # i /\ guards'[h] # NoGuard => guards'[h] # guards'[i]
    BY <1>0, <2>6, <2>7, <2>5
  <2>11. \A r \in kept' : r.what = "connection" => \A h \in Guards : guards'[h] # r.of
    BY <1>0, <2>3, <2>6, <2>7
  <2>. QED
    BY <2>8, <2>9, <2>10, <2>11
<1>2. ASSUME NEW g \in Guards, Disconnect(t, g)
      PROVE  OneHolder'
  <2>1. \A y \in Connections : Stands(slots, y) /\ y # guards[g] => Stands(slots', y)
    BY <1>0, <1>2, OthersStand DEF Disconnect
  <2>. QED
    BY <1>0, <1>2, <2>1 DEF Disconnect
<1>3. ASSUME NEW g \in Guards, Release(t, g)
      PROVE  OneHolder'
  <2>1. /\ UNCHANGED slots /\ guards[g] # NoGuard
        /\ guards'[g] = NoGuard /\ \A h \in Guards \ {g} : guards'[h] = guards[h]
        /\ \A r \in kept' : r \in kept \/ r.of = guards[g]
    BY <1>0, <1>3 DEF Release
  <2>2. \A h \in Guards : guards'[h] # NoGuard => Stands(slots', guards'[h])
    BY <1>0, <2>1
  <2>3. \A r \in kept' : r.what = "connection" => Stands(slots', r.of)
    BY <1>0, <2>1
  <2>4. \A h, i \in Guards : h # i /\ guards'[h] # NoGuard => guards'[h] # guards'[i]
    BY <1>0, <2>1
  <2>5. \A r \in kept' : r.what = "connection" => \A h \in Guards : guards'[h] # r.of
    BY <1>0, <2>1
  <2>. QED
    BY <2>2, <2>3, <2>4, <2>5
<1>4. ASSUME NEW g \in Guards, NEW h \in Guards, MoveGuard(t, g, h)
      PROVE  OneHolder'
  <2>1. \A y \in Connections : Stands(slots, y) /\ y # guards[g] => Stands(slots', y)
    BY <1>0, <1>4, OthersStand DEF MoveGuard
  <2>2. /\ kept' = kept /\ g # h /\ guards[h] # NoGuard
        /\ guards'[g] = guards[h] /\ guards'[h] = NoGuard
        /\ \A i \in Guards \ {g, h} : guards'[i] = guards[i]
    BY <1>0, <1>4 DEF MoveGuard
  <2>3. \A i \in Guards : guards'[i] # NoGuard => Stands(slots', guards'[i])
    BY <1>0, <2>1, <2>2
  <2>4. \A r \in kept' : r.what = "connection" => Stands(slots', r.of)
    BY <1>0, <2>1, <2>2
  <2>5. \A i, j \in Guards : i # j /\ guards'[i] # NoGuard => guards'[i] # guards'[j]
    BY <1>0, <2>2
  <2>6. \A r \in kept' : r.what = "connection" => \A i \in Guards : guards'[i] # r.of
    BY <1>0, <2>2
  <2>. QED
    BY <2>3, <2>4, <2>5, <2>6
<1>5. ASSUME NEW r \in kept, DisconnectId(t, r)
      PROVE  OneHolder'
  <2>1. slots' = Disconnected(r.of)
    BY <1>0, <1>5 DEF DisconnectId, Disconnected
  <2>2. r.what = "connection" /\ UNCHANGED guards /\ kept' = kept \ {r}
    BY <1>5 DEF DisconnectId
  <2>3. \A y \in Connections : Stands(slots, y) /\ y # r.of => Stands(slots', y)
    BY <1>0, <2>1, <2>2, OthersStand
  <2>4. \A g \in Guards : guards'[g] # NoGuard => Stands(slots', guards'[g])
    BY <1>0, <2>2, <2>3
  <2>5. ASSUME NEW q \in kept', q.what = "connection" PROVE q.of # r.of
    BY <1>0, <2>2, <2>5 DEF TypeOK
  <2>6. \A q \in kept' : q.what = "connection" => Stands(slots', q.of)
    BY <1>0, <2>2, <2>3, <2>5
  <2>. QED
    BY <2>2, <2>4, <2>6
<1>6. ASSUME \/ \E r \in kept : UnblockId(t, r)
             \/ \E g \in Guards, b \in Blocks : Block(t, g, b)
             \/ \E b \in Blocks : Unblock(t, b) \/ ReleaseBlock(t, b)
             \/ \E b, c \in Blocks : MoveBlock(t, b, c)
      PROVE  OneHolder'
  <2>0. blocks \in [Blocks -> Connections \cup {NoGuard}]
    BY DEF TypeOK
  <2>1. \A y \in Connections : Stands(slots, y) => Stands(slots', y)
    <3>1. ASSUME NEW x \in Connections \cup {NoGuard}, slots' = Unblocked(x)
          PROVE  \A y \in Connections : Stands(slots, y) => Stands(slots', y)
      BY <1>0, <3>1, OthersBlocked
    <3>2. ASSUME NEW g \in Guards, NEW b \in Blocks, Block(t, g, b)
          PROVE  \A y \in Connections : Stands(slots, y) => Stands(slots', y)
      BY <3>2 DEF Block, Stands
    <3>3. CASE UNCHANGED slots
      BY <3>3
    <3>. QED
      BY <1>0, <1>6, <2>0, <3>1, <3>2, <3>3
         DEF UnblockId, Unblock, ReleaseBlock, MoveBlock
  <2>2. guards' = guards
    BY <1>6 DEF UnblockId, Block, Unblock, ReleaseBlock, MoveBlock
  <2>3. kept' \subseteq kept \/ \E x : kept' = kept \cup {[what |-> "block", of |-> x]}
    BY <1>6 DEF UnblockId, Block, Unblock, ReleaseBlock, MoveBlock
  <2>4. \A r \in kept' : r.what = "connection" => r \in kept
    BY <2>3
  <2>. QED
    BY <1>0, <2>1, <2>2, <2>4
<1>. QED
  BY <1>1, <1>2, <1>3, <1>4, <1>5, <1>6 DEF Table
\* No block has outlived its connection.
BlocksStand ==
  /\ \A b \in Blocks : blocks[b] # NoGuard => Stands(slots, blocks[b])
  /\ \A r \in kept : r.what = "block" => Stands(slots, r.of)

LEMMA NotStale ==
  ASSUME ~StaleBlock(slots, HeldBlocks(blocks, kept))
  PROVE  BlocksStand
BY DEF StaleBlock, HeldBlocks, BlocksStand, Stands

\* Blocking, unblocking and moving a block.
LEMMA TableKeepsBlockers ==
  ASSUME FewCallbacks, TypeOK, SlotsApart, alive, OneHolder, BlocksApart,
         NEW t \in Threads, Table(t), BlocksStand'
  PROVE  BlocksApart'
<1>0. /\ SlotsGood(slots)
      /\ guards \in [Guards -> Connections \cup {NoGuard}]
      /\ blocks \in [Blocks -> Connections \cup {NoGuard}]
      /\ \A r \in kept : r.of \in Connections
      /\ NoGuard \notin Connections
  BY GoodSlots, SignalAssumption DEF TypeOK, Connections, Keys
<1> USE DEF BlocksApart
<1>1. ASSUME UNCHANGED blocks, \A r \in kept' : r.what = "block" => r \in kept,
             \A j \in DOMAIN slots \cap DOMAIN slots' : slots'[j] = slots[j]
      PROVE  BlocksApart'
  <2>1. ASSUME NEW x, IsBlocked(slots, x), Stands(slots', x) PROVE IsBlocked(slots', x)
    BY <1>1, <2>1 DEF IsBlocked, Stands
  <2>2. \A b \in Blocks : blocks'[b] # NoGuard => IsBlocked(slots', blocks'[b])
    BY <1>1, <2>1 DEF BlocksStand
  <2>3. \A r \in kept' : r.what = "block" => IsBlocked(slots', r.of)
    BY <1>1, <2>1 DEF BlocksStand
  <2>. QED
    BY <1>1, <2>2, <2>3
<1>2. ASSUME NEW g \in Guards, NEW p \in Prios, NEW f \in Fns, Connect(t, g, p, f)
      PROVE  BlocksApart'
  <2>1. PICK k \in Keys : Connects(g, k, f)
    BY <1>2, ConnectEffect
  <2>2. \A j \in DOMAIN slots : slots'[j] = slots[j]
    BY <2>1 DEF Connects, Put
  <2>. QED
    BY <1>1, <2>1, <2>2 DEF Connects
<1>3. ASSUME NEW g \in Guards, Disconnect(t, g) \/ Release(t, g)
      PROVE  BlocksApart'
  <2>1. \A j \in DOMAIN slots \cap DOMAIN slots' : slots'[j] = slots[j]
    BY <1>0, <1>3, DisconnectedGood DEF Disconnect, Release
  <2>2. kept' = kept \/ kept' = kept \cup {[what |-> "connection", of |-> guards[g]]}
    BY <1>3 DEF Disconnect, Release
  <2>3. \A r \in kept' : r.what = "block" => r \in kept
    BY <2>2
  <2>4. UNCHANGED blocks
    BY <1>3 DEF Disconnect, Release
  <2>. QED
    BY <1>1, <2>1, <2>3, <2>4
<1>4. ASSUME NEW g \in Guards, NEW h \in Guards, MoveGuard(t, g, h)
      PROVE  BlocksApart'
  <2>1. \A j \in DOMAIN slots \cap DOMAIN slots' : slots'[j] = slots[j]
    BY <1>0, <1>4, DisconnectedGood DEF MoveGuard
  <2>. QED
    BY <1>1, <1>4, <2>1 DEF MoveGuard
<1>5. ASSUME NEW r \in kept, DisconnectId(t, r)
      PROVE  BlocksApart'
  <2>1. \A j \in DOMAIN slots \cap DOMAIN slots' : slots'[j] = slots[j]
    BY <1>5 DEF DisconnectId, Cut
  <2>. QED
    BY <1>1, <1>5, <2>1 DEF DisconnectId
<1>6. ASSUME NEW g \in Guards, NEW b \in Blocks, Block(t, g, b)
      PROVE  BlocksApart'
  <2> DEFINE x == guards[g]
  <2>1. /\ Stands(slots, x) /\ ~IsBlocked(slots, x) /\ x # NoGuard
        /\ blocks[b] = NoGuard /\ blocks' = [blocks EXCEPT ![b] = x] /\ UNCHANGED kept
        /\ slots' = [slots EXCEPT ![x.key].blocked = TRUE]
    BY <1>6 DEF Block, OneHolder, IsBlocked
  <2>2. IsBlocked(slots', x)
    BY <1>0, <2>1 DEF IsBlocked, Stands, SlotsGood, SlotsTyped
  <2> HIDE DEF x
  <2>3. \A y : IsBlocked(slots, y) => IsBlocked(slots', y) /\ y # x
    BY <1>0, <2>1 DEF IsBlocked, Stands, SlotsGood, SlotsTyped
  <2>4. blocks'[b] = x /\ \A c \in Blocks \ {b} : blocks'[c] = blocks[c]
    BY <1>0, <2>1
  <2>5. \A c \in Blocks : blocks'[c] # NoGuard => IsBlocked(slots', blocks'[c])
    BY <2>2, <2>3, <2>4
  <2>6. \A r \in kept' : r.what = "block" => IsBlocked(slots', r.of)
    BY <2>1, <2>3
  <2>7. \A c, d \in Blocks : c # d /\ blocks'[c] # NoGuard => blocks'[c] # blocks'[d]
    BY <2>1, <2>3, <2>4
  <2>8. \A r \in kept' : r.what = "block" => \A c \in Blocks : blocks'[c] # r.of
    BY <2>1, <2>3, <2>4
  <2>. QED
    BY <2>5, <2>6, <2>7, <2>8
<1>7. ASSUME NEW b \in Blocks, Unblock(t, b)
      PROVE  BlocksApart'
  <2>1. \A y \in Connections : IsBlocked(slots, y) /\ y # blocks[b] => IsBlocked(slots', y)
    BY <1>0, <1>7, OthersBlocked DEF Unblock, IsBlocked
  <2>. QED
    BY <1>0, <1>7, <2>1 DEF Unblock
<1>8. ASSUME NEW b \in Blocks, ReleaseBlock(t, b)
      PROVE  BlocksApart'
  <2>1. /\ UNCHANGED slots /\ blocks[b] # NoGuard
        /\ blocks'[b] = NoGuard /\ \A c \in Blocks \ {b} : blocks'[c] = blocks[c]
        /\ \A r \in kept' : r \in kept \/ r.of = blocks[b]
    BY <1>0, <1>8 DEF ReleaseBlock
  <2>2. \A c \in Blocks : blocks'[c] # NoGuard => IsBlocked(slots', blocks'[c])
    BY <1>0, <2>1
  <2>3. \A r \in kept' : r.what = "block" => IsBlocked(slots', r.of)
    BY <1>0, <2>1
  <2>4. \A c, d \in Blocks : c # d /\ blocks'[c] # NoGuard => blocks'[c] # blocks'[d]
    BY <1>0, <2>1
  <2>5. \A r \in kept' : r.what = "block" => \A c \in Blocks : blocks'[c] # r.of
    BY <1>0, <2>1
  <2>. QED
    BY <2>2, <2>3, <2>4, <2>5
<1>9. ASSUME NEW b \in Blocks, NEW c \in Blocks, MoveBlock(t, b, c)
      PROVE  BlocksApart'
  <2>1. \A y \in Connections : IsBlocked(slots, y) /\ y # blocks[b] => IsBlocked(slots', y)
    BY <1>0, <1>9, OthersBlocked DEF MoveBlock, IsBlocked
  <2>2. /\ kept' = kept /\ b # c /\ blocks[c] # NoGuard
        /\ blocks'[b] = blocks[c] /\ blocks'[c] = NoGuard
        /\ \A d \in Blocks \ {b, c} : blocks'[d] = blocks[d]
    BY <1>0, <1>9 DEF MoveBlock
  <2>3. \A d \in Blocks : blocks'[d] # NoGuard => IsBlocked(slots', blocks'[d])
    BY <1>0, <2>1, <2>2
  <2>4. \A r \in kept' : r.what = "block" => IsBlocked(slots', r.of)
    BY <1>0, <2>1, <2>2
  <2>5. \A d, e \in Blocks : d # e /\ blocks'[d] # NoGuard => blocks'[d] # blocks'[e]
    BY <1>0, <2>2
  <2>6. \A r \in kept' : r.what = "block" => \A d \in Blocks : blocks'[d] # r.of
    BY <1>0, <2>2
  <2>. QED
    BY <2>3, <2>4, <2>5, <2>6
<1>10. ASSUME NEW r \in kept, UnblockId(t, r)
       PROVE  BlocksApart'
  <2>1. \A y \in Connections : IsBlocked(slots, y) /\ y # r.of => IsBlocked(slots', y)
    BY <1>0, <1>10, OthersBlocked DEF UnblockId, IsBlocked
  <2>2. r.what = "block" /\ UNCHANGED blocks /\ kept' = kept \ {r}
    BY <1>10 DEF UnblockId
  <2>3. \A b \in Blocks : blocks'[b] # NoGuard => IsBlocked(slots', blocks'[b])
    BY <1>0, <2>1, <2>2
  <2>4. ASSUME NEW q \in kept', q.what = "block" PROVE q.of # r.of
    BY <1>0, <2>2, <2>4 DEF TypeOK
  <2>5. \A q \in kept' : q.what = "block" => IsBlocked(slots', q.of)
    BY <1>0, <2>1, <2>2, <2>4
  <2>. QED
    BY <2>2, <2>3, <2>5
<1>. QED
  BY <1>2, <1>3, <1>4, <1>5, <1>6, <1>7, <1>8, <1>9, <1>10 DEF Table
-----------------------------------------------------------------------------
\* The invariant

\* What is not an operation on the table leaves it alone, and no object gets a
\* connection.
Kept ==
  /\ UNCHANGED <<alive, slots, kept>>
  /\ \A g \in Guards : guards'[g] \in {guards[g], NoGuard}
  /\ \A b \in Blocks : blocks'[b] \in {blocks[b], NoGuard}

LEMMA RunningKept ==
  ASSUME TypeOK, NEW t \in Threads,
         Emit(t) \/ Running(t) \/ InCallback(t) \/ break_signaling(t)
  PROVE  Kept
<1> USE DEF TypeOK, Kept
<1>1. CASE Emit(t) \/ Running(t) \/ CallbackThrows(t) \/ break_signaling(t)
  BY <1>1 DEF Emit, Running, ResetBreak, CallNext, EndEmission, CallbackReturns,
              CallbackThrows, break_signaling
<1>2. ASSUME NEW g \in Guards, GuardDiesInCallback(t, g) PROVE Kept
  BY <1>2 DEF GuardDiesInCallback
<1>3. ASSUME NEW b \in Blocks, BlockDiesInCallback(t, b) PROVE Kept
  BY <1>3 DEF BlockDiesInCallback
<1>. QED
  BY <1>1, <1>2, <1>3 DEF InCallback

LEMMA KeptKeepsTable ==
  ASSUME TypeOK, Kept, SlotsApart, OneHolder
  PROVE  SlotsApart' /\ OneHolder' /\ (BlocksApart => BlocksApart')
<1>1. /\ alive' = alive /\ slots' = slots /\ kept' = kept
      /\ \A g \in Guards : guards'[g] # NoGuard => guards'[g] = guards[g]
      /\ \A b \in Blocks : blocks'[b] # NoGuard => blocks'[b] = blocks[b]
  BY DEF Kept
<1>2. \A r \in kept : r.of # NoGuard
  BY SignalAssumption DEF TypeOK, Connections, Keys
<1>3. SlotsApart'
  BY <1>1 DEF SlotsApart
<1>4. OneHolder'
  <2> SUFFICES ASSUME alive PROVE OneHolder'
    BY <1>1 DEF OneHolder
  <2>1. \A g \in Guards : guards'[g] # NoGuard => Stands(slots', guards'[g])
    BY <1>1 DEF OneHolder
  <2>2. \A g, h \in Guards : g # h /\ guards'[g] # NoGuard => guards'[g] # guards'[h]
    BY <1>1 DEF OneHolder
  <2>3. \A r \in kept' : r.what = "connection" => \A g \in Guards : guards'[g] # r.of
    BY <1>1, <1>2 DEF OneHolder
  <2>. QED
    BY <1>1, <2>1, <2>2, <2>3 DEF OneHolder
<1>5. ASSUME BlocksApart PROVE BlocksApart'
  <2>1. \A b \in Blocks : blocks'[b] # NoGuard => IsBlocked(slots', blocks'[b])
    BY <1>1, <1>5 DEF BlocksApart
  <2>2. \A b, c \in Blocks : b # c /\ blocks'[b] # NoGuard => blocks'[b] # blocks'[c]
    BY <1>1, <1>5 DEF BlocksApart
  <2>3. \A r \in kept' : r.what = "block" => \A b \in Blocks : blocks'[b] # r.of
    BY <1>1, <1>2, <1>5 DEF BlocksApart
  <2>. QED
    BY <1>1, <1>5, <2>1, <2>2, <2>3 DEF BlocksApart
<1>. QED
  BY <1>3, <1>4, <1>5

\* The signal starts without connections.
LEMMA InitInv == Init => IInv
<1> SUFFICES ASSUME Init PROVE IInv
  OBVIOUS
<1> USE DEF Init
<1>1. DOMAIN slots = {}
  BY DEF NoSlots
<1>2. TypeOK
  BY <1>1, EmptySeq DEF TypeOK
<1>3. LoopInv
  BY <1>1, SignalAssumption
     DEF LoopInv, LockHeld, BreakSeen, CalledSoFar, Emitting, Callable
<1>4. TableInv
  BY <1>1 DEF TableInv, SlotsApart, OneHolder, OneBlocker, BlocksApart
<1>. QED
  BY <1>2, <1>3, <1>4 DEF IInv, Always

\* A step keeps what holds however many callbacks there are.
LEMMA StepAlways == Always /\ [Next]_vars => Always'
<1> SUFFICES ASSUME Always, [Next]_vars PROVE Always'
  OBVIOUS
<1>0. TypeOK /\ LoopInv /\ (~alive => slots = NoSlots)
  BY DEF Always
<1>1. TypeOK'
  BY <1>0, StepTypes
<1>2. ASSUME NEW t \in Threads, Table(t)
      PROVE  LoopInv' /\ (~alive' => slots' = NoSlots)
  <2>1. LoopInv'
    BY <1>0, <1>2, TableOutside, OutsideKeepsLoop
  <2>2. UNCHANGED alive /\ (~alive => UNCHANGED slots)
    BY <1>2, TableOutside
       DEF Table, Connect, Disconnect, Release, MoveGuard, DisconnectId, Block,
           Unblock, ReleaseBlock, MoveBlock, UnblockId, Disconnected, Unblocked
  <2>. QED
    BY <1>0, <2>1, <2>2
<1>3. ASSUME NEW t \in Threads, Emit(t) \/ Running(t) \/ InCallback(t) \/ break_signaling(t)
      PROVE  LoopInv' /\ (~alive' => slots' = NoSlots)
  BY <1>0, <1>3, RunningKeepsLoop, RunningKept DEF Kept
<1>4. CASE Destroy
  <2>1. Outside /\ slots' = NoSlots
    BY <1>4 DEF Destroy, Outside
  <2>. QED
    BY <1>0, <1>1, <2>1, OutsideKeepsLoop DEF Always
<1>5. CASE UNCHANGED vars
  <2>1. Outside /\ UNCHANGED <<alive, slots>>
    BY <1>5 DEF vars, Outside, emission
  <2>. QED
    BY <1>0, <1>1, <2>1, OutsideKeepsLoop DEF Always
<1>. QED
  BY <1>1, <1>2, <1>3, <1>4, <1>5 DEF Next, Always

\* Whoever finds no stale block afterwards found none before.
LEMMA OutlivedStays ==
  ASSUME Next, alive', ~outlived'
  PROVE  ~outlived /\ BlocksStand'
<1>1. ~outlived /\ ~StaleBlock(slots', HeldBlocks(blocks', kept'))
  BY DEF Next
<1>2. ~StaleBlock(slots, HeldBlocks(blocks, kept))'
  BY <1>1
<1>3. (~StaleBlock(slots, HeldBlocks(blocks, kept)) => BlocksStand)'
  BY NotStale, PTL
<1>. QED
  BY <1>1, <1>2, <1>3

\* A step keeps the table, with a number for each callback.
LEMMA StepInv == FewCallbacks /\ IInv /\ [Next]_vars => IInv'
<1> SUFFICES ASSUME FewCallbacks, IInv, [Next]_vars PROVE TableInv'
  BY StepAlways DEF IInv
<1>0. TypeOK /\ SlotsApart /\ OneHolder /\ OneBlocker
  BY DEF IInv, Always, TableInv
<1>1. ASSUME NEW t \in Threads, Next, Table(t)
      PROVE  TableInv'
  <2>1. SlotsApart' /\ OneHolder' /\ UNCHANGED alive
    BY <1>0, <1>1, TableApart, TableKeepsHolders, TableOutside
  <2>2. OneBlocker'
    BY <1>0, <1>1, <2>1, OutlivedStays, TableKeepsBlockers DEF OneBlocker
  <2>. QED
    BY <2>1, <2>2 DEF TableInv
<1>2. ASSUME NEW t \in Threads, Next,
             Emit(t) \/ Running(t) \/ InCallback(t) \/ break_signaling(t)
      PROVE  TableInv'
  <2>1. Kept
    BY <1>0, <1>2, RunningKept
  <2>2. SlotsApart' /\ OneHolder' /\ (BlocksApart => BlocksApart')
    BY <1>0, <2>1, KeptKeepsTable
  <2>3. OneBlocker'
    BY <1>0, <1>2, <2>1, <2>2, OutlivedStays DEF OneBlocker, Kept
  <2>. QED
    BY <2>2, <2>3 DEF TableInv
<1>3. CASE Destroy
  <2>1. alive' = FALSE /\ DOMAIN slots' = {}
    BY <1>3 DEF Destroy, NoSlots
  <2>. QED
    BY <2>1 DEF TableInv, SlotsApart, OneHolder, OneBlocker
<1>4. CASE UNCHANGED vars
  BY <1>0, <1>4 DEF TableInv, vars, SlotsApart, OneHolder, OneBlocker, BlocksApart
<1>. QED
  BY <1>1, <1>2, <1>3, <1>4 DEF Next
-----------------------------------------------------------------------------
\* What holds however many callbacks there are

\* The types, and what is said of the emission, hold in every state.
THEOREM AlwaysHolds == Spec => []Always
<1>1. Init => Always
  BY InitInv DEF IInv
<1>. QED
  BY <1>1, StepAlways, PTL DEF Spec

\* A request to break the emission is lost by no step: the flag is reset only
\* by the thread that has the lock, before it calls the first callback.
THEOREM BreakLasts == Spec => BreakIsFinal
<1>1. ASSUME Always, [Next]_vars, asked, asked'
      PROVE  called' = called
  <2>0. BreakSeen
    BY <1>1 DEF Always, LoopInv
  <2>1. ASSUME NEW t \in Threads, Table(t) PROVE called' = called
    BY <2>1, TableOutside DEF Outside, emission
  <2>2. ASSUME NEW t \in Threads, CallNext(t) PROVE FALSE
    BY <1>1, <2>0, <2>2 DEF BreakSeen, CallNext, Emitting
  <2>3. ASSUME NEW t \in Threads, Unlock(t) PROVE FALSE
    BY <1>1, <2>3 DEF Unlock
  <2>4. ASSUME NEW t \in Threads, Emit(t) \/ Running(t) \/ InCallback(t) \/ break_signaling(t)
        PROVE  called' = called
    BY <2>2, <2>3, <2>4
       DEF Emit, Running, ResetBreak, EndEmission, CallbackReturns, InCallback, emission,
           CallbackThrows, GuardDiesInCallback, BlockDiesInCallback, break_signaling
  <2>. QED
    BY <1>1, <2>1, <2>4 DEF Next, Destroy, vars, emission
<1>2. Always /\ [Next]_vars => [asked /\ asked' => called' = called]_vars
  BY <1>1
<1>. QED
  BY <1>2, AlwaysHolds, PTL DEF Spec, BreakIsFinal

\* A thread leaves the two loops only when it has called every callback that is
\* connected and not blocked, each once and in their order, or is asked to stop.
THEOREM EmissionComplete == Spec => EmissionIsComplete
<1> DEFINE Complete ==
      /\ ToSet(called) = Callable(slots)
      /\ \A i, j \in DOMAIN called : i < j => Before(called[i], called[j])
<1>1. ASSUME Always, Next, NEW t \in Threads, pc[t] = "loop", pc'[t] = "idle"
      PROVE  asked \/ Complete
  <2>0. TypeOK /\ BreakSeen /\ CalledSoFar /\ Emitting
    BY <1>1 DEF Always, LoopInv, Emitting
  <2>1. ASSUME NEW u \in Threads, Table(u) PROVE FALSE
    BY <1>1, <2>1, TableOutside DEF Outside, emission
  <2>2. ASSUME NEW u \in Threads, Emit(u) \/ Running(u) \/ InCallback(u) \/ break_signaling(u)
        PROVE  EndEmission(t)
    BY <1>1, <2>0, <2>2
       DEF TypeOK, Emit, Running, ResetBreak, CallNext, EndEmission, CallbackReturns, Unlock,
           InCallback, CallbackThrows, GuardDiesInCallback, BlockDiesInCallback,
           break_signaling, emission
  <2>3. EndEmission(t)
    BY <1>1, <2>1, <2>2 DEF Next, Destroy, emission
  <2>4. CASE breakSignaling
    BY <2>0, <2>4 DEF BreakSeen
  <2>5. CASE Ahead = {}
    <3>1. DOMAIN called = 1 .. Len(called)
      BY <2>0 DEF TypeOK
    <3>2. \A k \in Callable(slots) : \E i \in DOMAIN called : called[i] = k
      BY <2>0, <2>5, <3>1 DEF CalledSoFar
    <3>3. \A i \in DOMAIN called : called[i] \in Callable(slots)
      BY <2>0, <3>1 DEF CalledSoFar
    <3>4. ToSet(called) = Callable(slots)
      BY <3>2, <3>3 DEF ToSet
    <3>. QED
      BY <2>0, <3>1, <3>4 DEF CalledSoFar
  <2>. QED
    BY <2>3, <2>4, <2>5 DEF EndEmission
<1>2. Always /\ [Next]_vars =>
        [\A t \in Threads : pc[t] = "loop" /\ pc'[t] = "idle" =>
           \/ asked
           \/ /\ ToSet(called) = Callable(slots)
              /\ \A i, j \in DOMAIN called : i < j => Before(called[i], called[j])]_vars
  BY <1>1
<1>. QED
  BY <1>2, AlwaysHolds, PTL DEF Spec, EmissionIsComplete

\* The holders, one by one.
LEMMA HeldIs ==
  ASSUME NEW gs, NEW ks, NEW x
  PROVE  x \in Held(gs, ks) <=> \/ \E g \in Guards : gs[g] # NoGuard /\ gs[g] = x
                                \/ \E r \in ks : r.what = "connection" /\ r.of = x
BY DEF Held

LEMMA HeldBlocksIs ==
  ASSUME NEW bs, NEW ks, NEW x
  PROVE  x \in HeldBlocks(bs, ks) <=> \/ \E b \in Blocks : bs[b] # NoGuard /\ bs[b] = x
                                      \/ \E r \in ks : r.what = "block" /\ r.of = x
BY DEF HeldBlocks

\* An operation on the table that takes a connection or a block from its last
\* holder disconnects or unblocks it.
LEMMA TableLeaksNothing ==
  ASSUME Always, NEW t \in Threads, Table(t), NEW k \in DOMAIN slots \cap DOMAIN slots',
         NEW x, x = [key |-> k, fn |-> slots[k].fn]
  PROVE  /\ x \in Held(guards, kept) => x \in Held(guards', kept')
         /\ x \in HeldBlocks(blocks, kept) /\ slots'[k].blocked =>
              x \in HeldBlocks(blocks', kept')
<1>0. /\ alive /\ x.key = k
      /\ guards \in [Guards -> Connections \cup {NoGuard}]
      /\ blocks \in [Blocks -> Connections \cup {NoGuard}]
      /\ \A j \in DOMAIN slots : slots[j] \in [fn : Fns, blocked : BOOLEAN]
      /\ \A r \in kept : r.of \in Connections
      /\ NoGuard \notin Connections
  BY SignalAssumption DEF Always, TypeOK, NoSlots, Connections, Keys
<1> DEFINE
      Guarded(gs, ks) == \/ \E g \in Guards : gs[g] # NoGuard /\ gs[g] = x
                         \/ \E r \in ks : r.what = "connection" /\ r.of = x
      Blocking(bs, ks) == \/ \E b \in Blocks : bs[b] # NoGuard /\ bs[b] = x
                          \/ \E r \in ks : r.what = "block" /\ r.of = x
<1> SUFFICES /\ Guarded(guards, kept) => Guarded(guards', kept')
             /\ Blocking(blocks, kept) /\ slots'[k].blocked => Blocking(blocks', kept')
  <2>1. \A gs, ks : x \in Held(gs, ks) <=> Guarded(gs, ks)
    BY HeldIs
  <2>2. \A bs, ks : x \in HeldBlocks(bs, ks) <=> Blocking(bs, ks)
    BY HeldBlocksIs
  <2> HIDE DEF Guarded, Blocking
  <2>. QED
    BY <2>1, <2>2
<1>1. ASSUME NEW y, slots' = Cut(slots, y.key) PROVE y # x
  BY <1>0, <1>1 DEF Cut
<1>2. ASSUME NEW y, y # NoGuard, slots' = Disconnected(y) PROVE y # x
  BY <1>0, <1>1, <1>2 DEF Disconnected
<1>3. ASSUME NEW y, y # NoGuard, slots' = Unblocked(y), slots'[k].blocked PROVE y # x
  BY <1>0, <1>3 DEF Unblocked
<1>4. ASSUME NEW g \in Guards, NEW p \in Prios, NEW f \in Fns, Connect(t, g, p, f)
      PROVE  /\ Guarded(guards, kept) => Guarded(guards', kept')
             /\ UNCHANGED <<blocks, kept>>
  <2>1. /\ guards[g] = NoGuard /\ \A h \in Guards \ {g} : guards'[h] = guards[h]
        /\ UNCHANGED <<blocks, kept>>
    BY <1>0, <1>4 DEF Connect
  <2>. QED
    BY <2>1
<1>5. ASSUME NEW g \in Guards, Disconnect(t, g)
      PROVE  /\ Guarded(guards, kept) => Guarded(guards', kept')
             /\ UNCHANGED <<blocks, kept>>
  <2>1. guards[g] # x
    BY <1>2, <1>5 DEF Disconnect
  <2>2. (\A h \in Guards \ {g} : guards'[h] = guards[h]) /\ UNCHANGED <<blocks, kept>>
    BY <1>0, <1>5 DEF Disconnect
  <2>. QED
    BY <2>1, <2>2
<1>6. ASSUME NEW g \in Guards, Release(t, g)
      PROVE  /\ Guarded(guards, kept) => Guarded(guards', kept')
             /\ Blocking(blocks, kept) => Blocking(blocks', kept')
  <2>1. /\ \A h \in Guards \ {g} : guards'[h] = guards[h]
        /\ UNCHANGED blocks
        /\ kept' = kept \cup {[what |-> "connection", of |-> guards[g]]}
    BY <1>0, <1>6 DEF Release
  <2>2. \E r \in kept' : r.what = "connection" /\ r.of = guards[g]
    <3>1. [what |-> "connection", of |-> guards[g]] \in kept'
      BY <2>1
    <3>. QED
      BY <3>1
  <2>. QED
    BY <2>1, <2>2
<1>7. ASSUME NEW g \in Guards, NEW h \in Guards, MoveGuard(t, g, h)
      PROVE  /\ Guarded(guards, kept) => Guarded(guards', kept')
             /\ UNCHANGED <<blocks, kept>>
  <2>1. guards[g] = NoGuard \/ guards[g] # x
    BY <1>2, <1>7 DEF MoveGuard
  <2>2. /\ guards'[g] = guards[h] /\ \A i \in Guards \ {g, h} : guards'[i] = guards[i]
        /\ UNCHANGED <<blocks, kept>>
    BY <1>0, <1>7 DEF MoveGuard
  <2>. QED
    BY <2>1, <2>2
<1>8. ASSUME NEW r \in kept, DisconnectId(t, r)
      PROVE  /\ Guarded(guards, kept) => Guarded(guards', kept')
             /\ Blocking(blocks, kept) => Blocking(blocks', kept')
  <2>1. r.of # x
    BY <1>1, <1>8 DEF DisconnectId
  <2>. QED
    BY <1>8, <2>1 DEF DisconnectId
<1>9. ASSUME NEW r \in kept, UnblockId(t, r)
      PROVE  /\ Guarded(guards, kept) => Guarded(guards', kept')
             /\ Blocking(blocks, kept) /\ slots'[k].blocked => Blocking(blocks', kept')
  <2>1. slots'[k].blocked => r.of # x
    BY <1>0, <1>3, <1>9 DEF UnblockId
  <2>2. r.what = "block" /\ UNCHANGED <<guards, blocks>> /\ kept' = kept \ {r}
    BY <1>9 DEF UnblockId
  <2>. QED
    BY <2>1, <2>2
<1>10. ASSUME NEW g \in Guards, NEW b \in Blocks, Block(t, g, b)
       PROVE  UNCHANGED <<guards, kept>> /\ (Blocking(blocks, kept) => Blocking(blocks', kept'))
  <2>1. /\ blocks[b] = NoGuard /\ \A c \in Blocks \ {b} : blocks'[c] = blocks[c]
        /\ UNCHANGED <<guards, kept>>
    BY <1>0, <1>10 DEF Block
  <2>. QED
    BY <2>1
<1>11. ASSUME NEW b \in Blocks, Unblock(t, b)
       PROVE  /\ UNCHANGED <<guards, kept>>
              /\ Blocking(blocks, kept) /\ slots'[k].blocked => Blocking(blocks', kept')
  <2>1. slots'[k].blocked => blocks[b] # x
    BY <1>3, <1>11 DEF Unblock
  <2>2. (\A c \in Blocks \ {b} : blocks'[c] = blocks[c]) /\ UNCHANGED <<guards, kept>>
    BY <1>0, <1>11 DEF Unblock
  <2>. QED
    BY <2>1, <2>2
<1>12. ASSUME NEW b \in Blocks, ReleaseBlock(t, b)
       PROVE  /\ Guarded(guards, kept) => Guarded(guards', kept')
              /\ Blocking(blocks, kept) => Blocking(blocks', kept')
  <2>1. /\ \A c \in Blocks \ {b} : blocks'[c] = blocks[c]
        /\ UNCHANGED guards
        /\ kept' = kept \cup {[what |-> "block", of |-> blocks[b]]}
    BY <1>0, <1>12 DEF ReleaseBlock
  <2>2. \E r \in kept' : r.what = "block" /\ r.of = blocks[b]
    <3>1. [what |-> "block", of |-> blocks[b]] \in kept'
      BY <2>1
    <3>. QED
      BY <3>1
  <2>. QED
    BY <2>1, <2>2
<1>13. ASSUME NEW b \in Blocks, NEW c \in Blocks, MoveBlock(t, b, c)
       PROVE  /\ UNCHANGED <<guards, kept>>
              /\ Blocking(blocks, kept) /\ slots'[k].blocked => Blocking(blocks', kept')
  <2>1. slots'[k].blocked => blocks[b] = NoGuard \/ blocks[b] # x
    BY <1>3, <1>13 DEF MoveBlock
  <2>2. /\ blocks'[b] = blocks[c] /\ \A d \in Blocks \ {b, c} : blocks'[d] = blocks[d]
        /\ UNCHANGED <<guards, kept>>
    BY <1>0, <1>13 DEF MoveBlock
  <2>. QED
    BY <2>1, <2>2
<1>. QED
  BY <1>4, <1>5, <1>6, <1>7, <1>8, <1>9, <1>10, <1>11, <1>12, <1>13 DEF Table

\* A connection without a holder, or a block without one, is only left behind
\* by a guard that dies while a callback of the same signal runs.
THEOREM LeaksOnly == Spec => LeaksOnlyInCallback
<1>1. ASSUME Always, Next, NEW k \in DOMAIN slots \cap DOMAIN slots',
             NEW x, x = [key |-> k, fn |-> slots[k].fn],
             ~\E t \in Threads : pc[t] = "callback"
      PROVE  /\ x \in Held(guards, kept) => x \in Held(guards', kept')
             /\ x \in HeldBlocks(blocks, kept) /\ slots'[k].blocked =>
                  x \in HeldBlocks(blocks', kept')
  <2>1. ASSUME NEW t \in Threads, Table(t)
        PROVE  /\ x \in Held(guards, kept) => x \in Held(guards', kept')
               /\ x \in HeldBlocks(blocks, kept) /\ slots'[k].blocked =>
                    x \in HeldBlocks(blocks', kept')
    BY <1>1, <2>1, TableLeaksNothing
  <2>2. ASSUME NEW t \in Threads, Emit(t) \/ Running(t) \/ InCallback(t) \/ break_signaling(t)
        PROVE  UNCHANGED <<guards, blocks, kept>>
    BY <1>1, <2>2
       DEF Emit, Running, ResetBreak, CallNext, EndEmission, CallbackReturns, InCallback,
           CallbackThrows, GuardDiesInCallback, BlockDiesInCallback, break_signaling
  <2>3. CASE Destroy
    BY <2>3 DEF Destroy
  <2>. QED
    BY <1>1, <2>1, <2>2, <2>3 DEF Next
<1>2. Always /\ [Next]_vars =>
        [\A k \in DOMAIN slots \cap DOMAIN slots' :
           LET x == [key |-> k, fn |-> slots[k].fn]
           IN \/ slots'[k].fn # slots[k].fn
              \/ \E t \in Threads : pc[t] = "callback"
              \/ /\ x \in Held(guards, kept) => x \in Held(guards, kept)'
                 /\ x \in HeldBlocks(blocks, kept) /\ slots'[k].blocked => x \in HeldBlocks(blocks, kept)']_vars
  BY <1>1
<1>. QED
  BY <1>2, AlwaysHolds, PTL DEF Spec, LeaksOnlyInCallback

-----------------------------------------------------------------------------
\* What holds with a number for each callback

\* Every part of the invariant holds in every state.
THEOREM Invariance == ASSUME FewCallbacks PROVE Spec => []IInv
<1>1. IInv /\ [Next]_vars => IInv'
  BY StepInv
<1>. QED
  BY <1>1, InitInv, PTL DEF Spec

\* Numbers are used again, but a guard always stands for its own connection.
THEOREM Consistent == ASSUME FewCallbacks PROVE Spec => []TableConsistent
<1>1. IInv => TableConsistent
  <2> SUFFICES ASSUME IInv PROVE TableConsistent
    OBVIOUS
  <2>1. TypeOK /\ OneHolder
    BY DEF IInv, Always, TableInv
  <2>2. ASSUME alive, NEW x \in Held(guards, kept) PROVE Stands(slots, x)
    BY <2>1, <2>2, HeldIs DEF OneHolder
  <2>. QED
    BY <2>1, <2>2 DEF TableConsistent, GuardOwnsItsConnection, OneHolder, Stands
<1>. QED
  BY <1>1, Invariance, PTL

\* A connection is blocked as long as its block is held.
THEOREM BlockLasts == ASSUME FewCallbacks PROVE Spec => []BlockLastsAsItsGuard
<1>1. IInv => BlockLastsAsItsGuard
  <2> SUFFICES ASSUME IInv, alive, ~outlived
               PROVE  /\ \A x \in HeldBlocks(blocks, kept) : slots[x.key].blocked
                      /\ \A b, c \in Blocks : b # c /\ blocks[b] # NoGuard => blocks[b] # blocks[c]
    BY DEF BlockLastsAsItsGuard
  <2>1. BlocksApart
    BY DEF IInv, TableInv, OneBlocker
  <2>2. ASSUME NEW x \in HeldBlocks(blocks, kept) PROVE slots[x.key].blocked
    BY <2>1, <2>2, HeldBlocksIs DEF BlocksApart, IsBlocked
  <2>. QED
    BY <2>1, <2>2 DEF BlocksApart
<1>. QED
  BY <1>1, Invariance, PTL
=============================================================================
