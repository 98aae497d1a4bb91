--------------------------- MODULE ReadersWriter ---------------------------
(***************************************************************************)
(* What WS::SyncAccess promises its users (headeronly/SyncReadWrite.h): an *)
(* access object of a thread is handed out only while no other thread has  *)
(* one that conflicts with it.  One thread may have several of them.       *)
(***************************************************************************)
CONSTANTS Threads, Slots

VARIABLES reads, writes  \* the read and the write accesses of each thread

vars == <<reads, writes>>

Init ==
  /\ reads = [t \in Threads |-> {}]
  /\ writes = [t \in Threads |-> {}]

GrantRead(t, i) ==
  /\ \A u \in Threads \ {t} : writes[u] = {}
  /\ reads' = [reads EXCEPT ![t] = @ \cup {i}]
  /\ UNCHANGED writes

GrantWrite(t, i) ==
  /\ \A u \in Threads \ {t} : reads[u] = {} /\ writes[u] = {}
  /\ writes' = [writes EXCEPT ![t] = @ \cup {i}]
  /\ UNCHANGED reads

Drop(t, i) ==
  /\ i \in reads[t] \cup writes[t]
  /\ reads' = [reads EXCEPT ![t] = @ \ {i}]
  /\ writes' = [writes EXCEPT ![t] = @ \ {i}]

Next ==
  \E t \in Threads, i \in Slots : GrantRead(t, i) \/ GrantWrite(t, i) \/ Drop(t, i)

Spec == Init /\ [][Next]_vars
=============================================================================
