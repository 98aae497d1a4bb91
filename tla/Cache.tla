------------------------------- MODULE Cache -------------------------------
(***************************************************************************)
(* WS::Cache (headeronly/cache.h): a map from keys to values that several  *)
(* threads use under one mutex, with keys that may expire: never           *)
(* (Pure_key), some time after they are made (Duration_key), or some time  *)
(* after they were last found valid (DurationRefresh_key).                 *)
(*                                                                         *)
(* The clock ticks between any two readings of it.  A job is what a thread *)
(* does in the cache: it found an item and is about to test it, it         *)
(* prolongs it, holds it with the lock, or it scans the map for expired    *)
(* items.                                                                  *)
(***************************************************************************)
EXTENDS Integers, FiniteSets

CONSTANTS CacheThreads, Values,
          CacheKeys,   \* numbers, the order of the map
          Duration,    \* how long a key is valid
          EndOfTime    \* bound on the clock

ASSUME CacheAssumption == CacheKeys \subseteq Nat /\ Duration \in Nat /\ EndOfTime \in Nat

VARIABLES kind,    \* the type of the keys: "pure", "duration", "refresh"
          clock,
          data,    \* the map: the value and valid_till of each key in it
          locked,  \* the mutex
          job      \* what each thread does

cacheVars == <<kind, clock, data, locked, job>>

Idle == [phase |-> "idle"]
Jobs(phases) == [phase : phases, key : CacheKeys, since : 0 .. EndOfTime, todo : SUBSET CacheKeys]

CacheTypeOK ==
  /\ kind \in {"pure", "duration", "refresh"}
  /\ clock \in 0 .. EndOfTime
  /\ DOMAIN data \subseteq CacheKeys
  /\ \A k \in DOMAIN data : data[k] \in [value : Values, till : 0 .. EndOfTime + Duration]
  /\ locked \in BOOLEAN
  /\ job \in [CacheThreads -> {Idle} \cup Jobs({"found", "prolong", "item", "scan"})]

CacheInit ==
  /\ kind \in {"pure", "duration", "refresh"}
  /\ clock = 0 /\ data = <<>> /\ locked = FALSE
  /\ job = [t \in CacheThreads |-> Idle]

Tick == clock < EndOfTime /\ clock' = clock + 1 /\ UNCHANGED <<kind, data, locked, job>>

is_valid(k) == kind = "pure" \/ clock <= data[k].till

WithoutKey(k) == [x \in DOMAIN data \ {k} |-> data[x]]

Prolonged(k) == IF kind = "refresh" THEN [data EXCEPT ![k].till = clock + Duration] ELSE data

Begin(t, phase, k, todo) ==
  job' = [job EXCEPT ![t] = [phase |-> phase, key |-> k, since |-> clock, todo |-> todo]]

Goes(t, phase, todo) == job' = [job EXCEPT ![t].phase = phase, ![t].todo = todo]

Lock(t) == job[t] = Idle /\ ~locked /\ locked' = TRUE
Unlock(t) == locked' = FALSE /\ job' = [job EXCEPT ![t] = Idle]

-----------------------------------------------------------------------------
(***************************************************************************)
(* get_locked_item() and Get()                                             *)
(***************************************************************************)

Find(t, k) ==
  /\ Lock(t)
  /\ k \in DOMAIN data
  /\ Begin(t, "found", k, {})
  /\ UNCHANGED <<kind, clock, data>>

\* The lock is taken and given back at once.
Miss(t, k) == job[t] = Idle /\ ~locked /\ k \notin DOMAIN data /\ UNCHANGED cacheVars

\* Faulty: a valid item is handed out without the lock.
MutantTest(t) ==
  LET k == job[t].key
  IN /\ job[t].phase = "found"
     /\ IF is_valid(k) THEN Goes(t, "item", {}) /\ locked' = FALSE /\ UNCHANGED data
        ELSE Goes(t, "scan", DOMAIN WithoutKey(k)) /\ data' = WithoutKey(k) /\ UNCHANGED locked
     /\ UNCHANGED <<kind, clock>>

\* is_invalid(): an expired item is erased, and the others are looked through.
Test(t) ==
  LET k == job[t].key
  IN /\ job[t].phase = "found"
     /\ IF is_valid(k) THEN Goes(t, "prolong", {}) /\ UNCHANGED data
        ELSE Goes(t, "scan", DOMAIN WithoutKey(k)) /\ data' = WithoutKey(k)
     /\ UNCHANGED <<kind, clock, locked>>

\* is_valid() of a DurationRefresh_key reads the clock once more.
Prolong(t) ==
  /\ job[t].phase = "prolong"
  /\ data' = Prolonged(job[t].key)
  /\ Goes(t, "item", {})
  /\ UNCHANGED <<kind, clock, locked>>

\* The caller lets the item go.
GiveBack(t) == job[t].phase = "item" /\ Unlock(t) /\ UNCHANGED <<kind, clock, data>>

-----------------------------------------------------------------------------
(***************************************************************************)
(* Set(), clear() and clear_invalid()                                      *)
(***************************************************************************)

\* insert_or_assign() keeps the key that is there, and its valid_till.
Set(t, k, v) ==
  /\ Lock(t)
  /\ LET till == IF k \in DOMAIN data THEN data[k].till ELSE clock + Duration
     IN data' = [x \in DOMAIN data \cup {k} |-> IF x = k THEN [value |-> v, till |-> till] ELSE data[x]]
  /\ Begin(t, "item", k, {k})
  /\ UNCHANGED <<kind, clock>>

clear(t) ==
  /\ job[t] = Idle /\ ~locked
  /\ \/ data' = <<>>
     \/ \E k \in CacheKeys : data' = WithoutKey(k)
  /\ UNCHANGED <<kind, clock, locked, job>>

clear_invalid(t) ==
  /\ Lock(t)
  /\ \E k \in CacheKeys : Begin(t, "scan", k, DOMAIN data)
  /\ UNCHANGED <<kind, clock, data>>

\* _clear_invalid() looks at the next item; a valid one is prolonged as well.
Scan(t) ==
  /\ job[t].phase = "scan" /\ job[t].todo # {}
  /\ LET k == CHOOSE x \in job[t].todo : \A y \in job[t].todo : x <= y
     IN /\ data' = IF is_valid(k) THEN Prolonged(k) ELSE WithoutKey(k)
        /\ Goes(t, "scan", job[t].todo \ {k})
  /\ UNCHANGED <<kind, clock, locked>>

EndScan(t) ==
  /\ job[t].phase = "scan" /\ job[t].todo = {}
  /\ Unlock(t)
  /\ UNCHANGED <<kind, clock, data>>

CacheNext ==
  \/ Tick
  \/ \E t \in CacheThreads :
       \/ \E k \in CacheKeys : Find(t, k) \/ Miss(t, k)
       \/ Test(t) \/ Prolong(t) \/ GiveBack(t)
       \/ \E k \in CacheKeys, v \in Values : Set(t, k, v)
       \/ clear(t) \/ clear_invalid(t) \/ Scan(t) \/ EndScan(t)

CacheSpec == CacheInit /\ [][CacheNext]_cacheVars

-----------------------------------------------------------------------------

\* Nobody takes an item away from the thread that holds it, and one that
\* get_locked_item() hands out was valid at some time after the call began.
\* (An item from Set(), whose todo is not empty, may have expired long ago.)
HeldItemStays ==
  \A t \in CacheThreads : job[t].phase = "item" =>
    /\ job[t].key \in DOMAIN data
    /\ kind = "pure" \/ job[t].todo # {} \/ data[job[t].key].till >= job[t].since

\* A thread that has looked through the map leaves nothing that had expired
\* when it began, although the clock ticks and valid keys are prolonged.
ScanIsThorough ==
  [][\A t \in CacheThreads : job[t].phase = "scan" /\ job'[t].phase = "idle" /\ kind # "pure" =>
       \A k \in DOMAIN data' : data'[k].till >= job[t].since]_cacheVars
=============================================================================
