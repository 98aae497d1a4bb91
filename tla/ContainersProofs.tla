-------------------------- MODULE ContainersProofs --------------------------
(***************************************************************************)
(* The small stateful classes for any number of threads, clients, keys and *)
(* handles, any durations and any bounds on time, calls and data.  Each    *)
(* class has an invariant of its own, and a behaviour of Containers is one *)
(* of one class.  Behind them the data structures and functions of one     *)
(* thread: the tree for any finite set of values, ptr_array on any block,  *)
(* bits, turns and loop values of any width; each has a specification of   *)
(* its own, in its module.                                                 *)
(***************************************************************************)
EXTENDS Containers, Tree, PtrArray, Numbers, FiniteSetTheorems, SequenceTheorems, WellFoundedInduction, TLAPS

-----------------------------------------------------------------------------
(***************************************************************************)
(* Sequences and numbers                                                   *)
(***************************************************************************)

\* A set of numbers that is not empty has a smallest one.
LEMMA FirstKey ==
  ASSUME NEW S \in SUBSET Nat, S # {}
  PROVE  \E x \in S : \A y \in S : x <= y
<1>1. PICK x \in S : \A y \in S : ~(y < x)
  <2>1. IsWellFoundedOn(OpToRel(<, Nat), Nat)
    BY NatLessThanWellFounded
  <2>2. \E x \in S : \A y \in S : <<y, x>> \notin OpToRel(<, Nat)
    BY <2>1, WFMin
  <2>. QED
    BY <2>2 DEF OpToRel
<1>. QED
  BY <1>1

-----------------------------------------------------------------------------
(***************************************************************************)
(* Cache                                                                   *)
(***************************************************************************)

Records == [value : Values, till : 0 .. EndOfTime + Duration]

CacheTypes ==
  /\ kind \in {"pure", "duration", "refresh"}
  /\ clock \in 0 .. EndOfTime /\ locked \in BOOLEAN
  /\ DOMAIN data \subseteq CacheKeys /\ \A k \in DOMAIN data : data[k] \in Records
  /\ job \in [CacheThreads -> {Idle} \cup Jobs({"found", "prolong", "item", "scan"})]

\* Whoever has a job has the lock.
OneJob ==
  /\ \A t \in CacheThreads : job[t].phase # "idle" => locked
  /\ \A t, u \in CacheThreads : job[t].phase # "idle" /\ job[u].phase # "idle" => t = u

\* The item k was valid at the time s, or cannot expire.
ValidAt(k, s) == kind = "pure" \/ data[k].till >= s

\* What the job j may rely on: its item is there, and valid since the call
\* began once it is tested; a scan has left behind it nothing that had expired.
JobStands(j) ==
  /\ j.phase # "idle" => j.since <= clock
  /\ j.phase \in {"found", "prolong", "item"} => j.key \in DOMAIN data
  /\ j.phase = "prolong" => ValidAt(j.key, j.since)
  /\ j.phase = "item" => j.todo # {} \/ ValidAt(j.key, j.since)
  /\ j.phase = "scan" =>
       j.todo \subseteq DOMAIN data /\ \A k \in DOMAIN data : k \in j.todo \/ ValidAt(k, j.since)

CacheInv == CacheTypes /\ OneJob /\ \A t \in CacheThreads : JobStands(job[t])

LEMMA CacheStart == CacheInit => CacheInv
<1> SUFFICES ASSUME CacheInit PROVE CacheInv
  OBVIOUS
<1>1. DOMAIN data = {} /\ \A t \in CacheThreads : job[t] = Idle /\ job[t].phase = "idle"
  BY DEF CacheInit, Idle
<1>2. CacheTypes
  <2>1. job \in [CacheThreads -> {Idle} \cup Jobs({"found", "prolong", "item", "scan"})]
    BY DEF CacheInit
  <2>2. kind \in {"pure", "duration", "refresh"} /\ clock \in 0 .. EndOfTime
    <3>1. kind \in {"pure", "duration", "refresh"} /\ clock = 0
      BY DEF CacheInit
    <3>. QED
      BY <3>1, CacheAssumption
  <2>3. locked \in BOOLEAN
    <3>1. locked = FALSE
      BY DEF CacheInit
    <3>. QED
      BY <3>1, Zenon
  <2>. QED
    BY <1>1, <2>1, <2>2, <2>3 DEF CacheTypes
<1>. QED
  BY <1>1, <1>2 DEF CacheInv, OneJob, JobStands

\* The jobs of others are left alone when the thread t goes on with its own.
LEMMA OneGoesOn ==
  ASSUME CacheInv, NEW t \in CacheThreads, job[t].phase # "idle" \/ ~locked,
         NEW j, job' = [job EXCEPT ![t] = j], CacheTypes', JobStands(j)',
         j.phase = "idle" \/ locked'
  PROVE  CacheInv'
<1>1. \A u \in CacheThreads \ {t} : job'[u] = job[u] /\ job[u].phase = "idle" /\ job'[t] = j
  BY DEF CacheInv, CacheTypes, Jobs, OneJob
<1>2. OneJob'
  BY <1>1 DEF CacheInv, CacheTypes, Jobs, OneJob
<1>3. ASSUME NEW u \in CacheThreads \ {t} PROVE JobStands(job[u])'
  <2>1. job'[u].phase = "idle"
    BY <1>1
  <2>. QED
    BY <2>1 DEF JobStands
<1>4. JobStands(job[t])'
  BY DEF CacheInv, CacheTypes, Jobs, JobStands
<1>. QED
  BY <1>2, <1>3, <1>4 DEF CacheInv

LEMMA CacheStep ==
  ASSUME CacheInv, CacheNext
  PROVE  CacheInv'
<1>. USE CacheAssumption
<1>0. /\ CacheTypes /\ OneJob /\ \A t \in CacheThreads : JobStands(job[t])
      /\ \A t \in CacheThreads : job[t] = Idle <=> job[t].phase = "idle"
      /\ Idle.phase = "idle" /\ Idle.phase \notin {"found", "prolong", "item", "scan"}
  BY DEF CacheInv, CacheTypes, Jobs, Idle
<1>1. CASE Tick
  <2>1. clock < EndOfTime /\ clock' = clock + 1 /\ UNCHANGED <<kind, data, locked, job>>
    BY <1>1 DEF Tick
  <2>2. CacheTypes' /\ OneJob'
    BY <1>0, <2>1 DEF CacheTypes, Jobs, OneJob
  <2>3. ASSUME NEW t \in CacheThreads PROVE JobStands(job[t])'
    <3>1. JobStands(job[t]) /\ (job[t].phase # "idle" => job[t].since \in Nat)
      BY <1>0 DEF CacheTypes, Jobs
    <3>. QED
      BY <1>0, <2>1, <3>1 DEF JobStands, ValidAt, CacheTypes
  <2>. QED
    BY <2>2, <2>3 DEF CacheInv
<1>2. ASSUME NEW t \in CacheThreads, NEW k \in CacheKeys, Find(t, k) PROVE CacheInv'
  <2>1. PICK j : j = [phase |-> "found", key |-> k, since |-> clock, todo |-> {}]
    OBVIOUS
  <2>2. /\ job[t].phase = "idle" /\ ~locked /\ locked' /\ k \in DOMAIN data
        /\ job' = [job EXCEPT ![t] = j] /\ UNCHANGED <<kind, clock, data>>
    BY <1>0, <1>2, <2>1 DEF Find, Lock, Begin
  <2>3. CacheTypes' /\ JobStands(j)' /\ j.phase # "idle"
    BY <1>0, <1>2, <2>1, <2>2 DEF CacheTypes, Jobs, JobStands, Find, Lock
  <2>. QED
    BY <2>2, <2>3, OneGoesOn
<1>3. ASSUME NEW t \in CacheThreads, Test(t) PROVE CacheInv'
  <2>. DEFINE k == job[t].key
  <2>1. /\ job[t].phase = "found" /\ k \in DOMAIN data /\ job[t].since <= clock /\ locked
        /\ k \in CacheKeys /\ job[t].since \in Nat /\ UNCHANGED <<kind, clock, locked>>
        /\ job[t] \in Jobs({"found", "prolong", "item", "scan"})
    BY <1>0, <1>3 DEF CacheTypes, Jobs, JobStands, OneJob, Test
  <2>2. CASE is_valid(k)
    <3>1. PICK j : j = [job[t] EXCEPT !.phase = "prolong", !.todo = {}]
      OBVIOUS
    <3>2. job' = [job EXCEPT ![t] = j] /\ UNCHANGED data
      BY <1>0, <1>3, <2>1, <2>2, <3>1 DEF CacheTypes, Jobs, Test, Goes
    <3>3. CacheTypes'
      BY <1>0, <2>1, <3>1, <3>2 DEF CacheTypes, Jobs
    <3>4. JobStands(j)'
      BY <1>0, <2>1, <2>2, <3>1, <3>2, CacheAssumption DEF CacheTypes, Jobs, Records, JobStands, ValidAt, is_valid
    <3>. QED
      BY <2>1, <3>2, <3>3, <3>4, OneGoesOn
  <2>3. CASE ~is_valid(k)
    <3>1. PICK j : j = [job[t] EXCEPT !.phase = "scan", !.todo = DOMAIN data \ {k}]
      OBVIOUS
    <3>2. job' = [job EXCEPT ![t] = j] /\ data' = [x \in DOMAIN data \ {k} |-> data[x]]
      BY <1>0, <1>3, <2>1, <2>3, <3>1 DEF CacheTypes, Jobs, Test, Goes, WithoutKey
    <3>3. CacheTypes'
      BY <1>0, <2>1, <3>1, <3>2 DEF CacheTypes, Jobs
    <3>4. JobStands(j)'
      BY <2>1, <3>1, <3>2 DEF JobStands
    <3>. QED
      BY <2>1, <3>2, <3>3, <3>4, OneGoesOn
  <2>. QED
    BY <2>2, <2>3
<1>4. ASSUME NEW t \in CacheThreads, Prolong(t) PROVE CacheInv'
  <2>. DEFINE k == job[t].key
  <2>1. /\ job[t].phase = "prolong" /\ k \in DOMAIN data /\ job[t].since <= clock /\ locked
        /\ ValidAt(k, job[t].since) /\ data' = Prolonged(k)
        /\ k \in CacheKeys /\ job[t].since \in Nat /\ UNCHANGED <<kind, clock, locked>>
        /\ job[t] \in Jobs({"found", "prolong", "item", "scan"})
    BY <1>0, <1>4 DEF CacheTypes, Jobs, JobStands, OneJob, Prolong
  <2>2. PICK j : j = [job[t] EXCEPT !.phase = "item", !.todo = {}]
    OBVIOUS
  <2>3. job' = [job EXCEPT ![t] = j]
    BY <1>0, <1>4, <2>1, <2>2 DEF CacheTypes, Jobs, Prolong, Goes
  <2>4. /\ DOMAIN data' = DOMAIN data
        /\ data'[k] = data[k] \/ data'[k] = [data[k] EXCEPT !.till = clock + Duration]
        /\ \A x \in DOMAIN data \ {k} : data'[x] = data[x]
    BY <2>1 DEF Prolonged
  <2>5. CacheTypes'
    <3>1. \A x \in DOMAIN data' : data'[x] \in Records
      <4>1. [data[k] EXCEPT !.till = clock + Duration] \in Records
        BY <1>0, <2>1, CacheAssumption DEF CacheTypes, Jobs, Records
      <4>. QED
        BY <1>0, <2>1, <2>4, <4>1 DEF CacheTypes, Jobs
    <3>2. j \in Jobs({"found", "prolong", "item", "scan"})
      BY <2>1, <2>2 DEF Jobs
    <3>. QED
      BY <1>0, <2>1, <2>3, <2>4, <3>1, <3>2 DEF CacheTypes, Jobs
  <2>6. JobStands(j)'
    BY <1>0, <2>1, <2>2, <2>4, CacheAssumption DEF CacheTypes, Jobs, Records, JobStands, ValidAt
  <2>. QED
    BY <2>1, <2>3, <2>5, <2>6, OneGoesOn
<1>5. ASSUME NEW t \in CacheThreads, job[t].phase # "idle", locked' = FALSE, job' = [job EXCEPT ![t] = Idle],
             UNCHANGED <<kind, clock, data>>
      PROVE  CacheInv'
  <2>1. PICK j : j = Idle
    OBVIOUS
  <2>2. CacheTypes' /\ JobStands(j)'
    BY <1>0, <1>5, <2>1 DEF CacheTypes, Jobs, JobStands
  <2>. QED
    BY <1>0, <1>5, <2>1, <2>2, OneGoesOn
<1>6. ASSUME NEW t \in CacheThreads, NEW k \in CacheKeys, NEW v \in Values, Set(t, k, v) PROVE CacheInv'
  <2>1. PICK j : j = [phase |-> "item", key |-> k, since |-> clock, todo |-> {k}]
    OBVIOUS
  <2>2. PICK till : till = IF k \in DOMAIN data THEN data[k].till ELSE clock + Duration
    OBVIOUS
  <2>3. /\ job[t].phase = "idle" /\ ~locked /\ locked' = TRUE
        /\ data' = [x \in DOMAIN data \cup {k} |-> IF x = k THEN [value |-> v, till |-> till] ELSE data[x]]
        /\ job' = [job EXCEPT ![t] = j] /\ UNCHANGED <<kind, clock>>
    BY <1>0, <1>6, <2>1, <2>2 DEF Set, Lock, Begin
  <2>4. till \in 0 .. EndOfTime + Duration
    BY <1>0, <2>2, CacheAssumption DEF CacheTypes, Jobs, Records
  <2>5. CacheTypes'
    BY <1>0, <2>1, <2>3, <2>4 DEF CacheTypes, Jobs, Records
  <2>6. JobStands(j)' /\ j.phase # "idle"
    BY <1>0, <2>1, <2>3 DEF JobStands, CacheTypes
  <2>. QED
    BY <2>3, <2>5, <2>6, OneGoesOn
<1>7. ASSUME NEW t \in CacheThreads, clear(t) PROVE CacheInv'
  <2>1. ~locked /\ UNCHANGED <<kind, clock, locked, job>>
    BY <1>7 DEF clear
  <2>2. \A u \in CacheThreads : job[u].phase = "idle"
    BY <1>0, <2>1 DEF OneJob
  <2>3. DOMAIN data' \subseteq DOMAIN data /\ \A x \in DOMAIN data' : data'[x] = data[x]
    <3>1. CASE data' = <<>>
      BY <3>1
    <3>2. CASE \E k \in CacheKeys : data' = WithoutKey(k)
      BY <3>2 DEF WithoutKey
    <3>. QED
      BY <1>7, <3>1, <3>2 DEF clear
  <2>. QED
    BY <1>0, <2>1, <2>2, <2>3 DEF CacheInv, CacheTypes, Jobs, OneJob, JobStands
<1>8. ASSUME NEW t \in CacheThreads, clear_invalid(t) PROVE CacheInv'
  <2>1. PICK k \in CacheKeys : Begin(t, "scan", k, DOMAIN data)
    BY <1>8 DEF clear_invalid
  <2>2. PICK j : j = [phase |-> "scan", key |-> k, since |-> clock, todo |-> DOMAIN data]
    OBVIOUS
  <2>3. /\ job[t].phase = "idle" /\ ~locked /\ locked' = TRUE
        /\ job' = [job EXCEPT ![t] = j] /\ UNCHANGED <<kind, clock, data>>
    BY <1>0, <1>8, <2>1, <2>2 DEF clear_invalid, Lock, Begin
  <2>4. CacheTypes' /\ JobStands(j)' /\ j.phase # "idle"
    BY <1>0, <2>2, <2>3 DEF CacheTypes, Jobs, JobStands
  <2>. QED
    BY <2>3, <2>4, OneGoesOn
<1>9. ASSUME NEW t \in CacheThreads, Scan(t) PROVE CacheInv'
  <2>. DEFINE k == CHOOSE x \in job[t].todo : \A y \in job[t].todo : x <= y
  <2>1. /\ job[t].phase = "scan" /\ job[t].since <= clock /\ locked /\ JobStands(job[t])
        /\ job[t].since \in Nat /\ UNCHANGED <<kind, clock, locked>>
        /\ job[t] \in Jobs({"found", "prolong", "item", "scan"})
    BY <1>0, <1>9 DEF CacheTypes, Jobs, JobStands, OneJob, Scan
  <2>2. k \in job[t].todo /\ k \in DOMAIN data
    <3>1. job[t].todo \in SUBSET Nat /\ job[t].todo # {}
      BY <1>9, <2>1, CacheAssumption DEF Scan, Jobs
    <3>2. \E x \in job[t].todo : \A y \in job[t].todo : x <= y
      BY <3>1, FirstKey
    <3>. QED
      BY <2>1, <3>2 DEF JobStands
  <2>3. data' = (IF is_valid(k) THEN Prolonged(k) ELSE WithoutKey(k)) /\ Goes(t, "scan", job[t].todo \ {k})
    BY <1>9 DEF Scan
  <2>4. PICK key : key = k
    OBVIOUS
  <2>. HIDE DEF k
  <2>5. PICK j : j = [job[t] EXCEPT !.phase = "scan", !.todo = job[t].todo \ {key}]
    OBVIOUS
  <2>6. job' = [job EXCEPT ![t] = j]
    BY <1>0, <2>1, <2>3, <2>4, <2>5 DEF CacheTypes, Jobs, Goes
  <2>7. CASE is_valid(key)
    <3>1. /\ DOMAIN data' = DOMAIN data /\ key \in DOMAIN data
          /\ data'[key] = data[key] \/ data'[key] = [data[key] EXCEPT !.till = clock + Duration]
          /\ \A x \in DOMAIN data \ {key} : data'[x] = data[x]
      BY <2>2, <2>3, <2>4, <2>7 DEF Prolonged
    <3>2. CacheTypes'
      <4>1. \A x \in DOMAIN data' : data'[x] \in Records
        <5>1. [data[key] EXCEPT !.till = clock + Duration] \in Records
          BY <1>0, <2>1, <3>1, CacheAssumption DEF CacheTypes, Jobs, Records
        <5>. QED
          BY <1>0, <2>1, <3>1, <5>1 DEF CacheTypes, Jobs
      <4>2. j \in Jobs({"found", "prolong", "item", "scan"})
        BY <2>1, <2>5 DEF Jobs
      <4>. QED
        BY <1>0, <2>1, <2>6, <3>1, <4>1, <4>2 DEF CacheTypes, Jobs
    <3>3. JobStands(j)'
      BY <1>0, <2>1, <2>5, <2>7, <3>1, CacheAssumption DEF CacheTypes, Jobs, Records, JobStands, ValidAt, is_valid
    <3>. QED
      BY <2>1, <2>6, <3>2, <3>3, OneGoesOn
  <2>8. CASE ~is_valid(key)
    <3>1. data' = [x \in DOMAIN data \ {key} |-> data[x]]
      BY <2>3, <2>4, <2>8 DEF WithoutKey
    <3>2. CacheTypes'
      BY <1>0, <2>1, <2>5, <2>6, <3>1 DEF CacheTypes, Jobs
    <3>3. JobStands(j)'
      BY <2>1, <2>5, <3>1 DEF JobStands, ValidAt
    <3>. QED
      BY <2>1, <2>6, <3>2, <3>3, OneGoesOn
  <2>. QED
    BY <2>7, <2>8
<1>10. ASSUME NEW t \in CacheThreads, GiveBack(t) \/ EndScan(t) PROVE CacheInv'
  BY <1>5, <1>10 DEF GiveBack, EndScan, Unlock
<1>11. ASSUME NEW t \in CacheThreads, NEW k \in CacheKeys, Miss(t, k) PROVE CacheInv'
  BY <1>11 DEF Miss, cacheVars, CacheInv, CacheTypes, Jobs, OneJob, JobStands, ValidAt
<1>. QED
  BY <1>1, <1>2, <1>3, <1>4, <1>6, <1>7, <1>8, <1>9, <1>10, <1>11 DEF CacheNext

LEMMA CacheHolds ==
  ASSUME CacheInv
  PROVE  CacheTypeOK /\ HeldItemStays
BY DEF CacheTypeOK, CacheTypes, Records, CacheInv, JobStands, ValidAt, HeldItemStays

\* Only the end of a scan ends one.
LEMMA CacheScans ==
  ASSUME CacheInv, CacheNext
  PROVE  \A t \in CacheThreads : job[t].phase = "scan" /\ job'[t].phase = "idle" /\ kind # "pure" =>
           \A k \in DOMAIN data' : data'[k].till >= job[t].since
<1> SUFFICES ASSUME NEW t \in CacheThreads, job[t].phase = "scan", job'[t].phase = "idle", kind # "pure"
             PROVE  \A k \in DOMAIN data' : data'[k].till >= job[t].since
  OBVIOUS
<1>1. locked /\ \A u \in CacheThreads : job[u].phase # "idle" => u = t
  BY DEF CacheInv, OneJob
<1>2. Idle.phase = "idle"
  BY DEF Idle
<1>3. EndScan(t)
  <2>1. ~Tick
    BY DEF Tick
  <2>2. ASSUME NEW u \in CacheThreads, Test(u) \/ Prolong(u) \/ GiveBack(u) PROVE FALSE
    BY <1>1, <2>2 DEF Test, Prolong, GiveBack
  <2>3. ASSUME NEW u \in CacheThreads, NEW k \in CacheKeys, Find(u, k) \/ Miss(u, k) PROVE FALSE
    BY <1>1, <2>3 DEF Find, Miss, Lock
  <2>4. ASSUME NEW u \in CacheThreads, NEW k \in CacheKeys, NEW v \in Values, Set(u, k, v) PROVE FALSE
    BY <1>1, <2>4 DEF Set, Lock
  <2>5. ASSUME NEW u \in CacheThreads, clear(u) \/ clear_invalid(u) PROVE FALSE
    BY <1>1, <2>5 DEF clear, clear_invalid, Lock
  <2>6. ASSUME NEW u \in CacheThreads, Scan(u) PROVE FALSE
    <3>1. u = t
      BY <1>1, <2>6 DEF Scan
    <3>2. job'[t].phase = "scan"
      BY <2>6, <3>1 DEF Scan, Goes, CacheInv, CacheTypes
    <3>. QED
      BY <3>2
  <2>7. ASSUME NEW u \in CacheThreads, EndScan(u) PROVE u = t
    BY <1>1, <2>7 DEF EndScan
  <2>. QED
    BY <2>1, <2>2, <2>3, <2>4, <2>5, <2>6, <2>7 DEF CacheNext
<1>4. JobStands(job[t]) /\ job[t].todo = {} /\ UNCHANGED data
  BY <1>3 DEF EndScan, CacheInv
<1>. QED
  BY <1>4 DEF JobStands, ValidAt

-----------------------------------------------------------------------------
(***************************************************************************)
(* DelayDelete                                                             *)
(***************************************************************************)

\* A Clean() has read the clock before.
DeleteInv ==
  /\ DeleteTypeOK
  /\ \A t \in DeleteThreads : cleaning[t].phase = "clean" =>
       cleaning[t].at <= now /\ mutex = {t}

LEMMA DeleteStart == DeleteInit => DeleteInv
BY DeleteAssumption, FS_EmptySet DEF DeleteInit, DeleteInv, DeleteTypeOK, Nothing

LEMMA DeleteStep ==
  ASSUME DeleteInv, DeleteNext
  PROVE  DeleteInv'
<1>. USE DeleteAssumption DEF DeleteInv, DeleteTypeOK, Nothing, Cleanings
<1>1. CASE Later
  BY <1>1 DEF Later
<1>2. ASSUME NEW t \in DeleteThreads, Clean(t) PROVE DeleteInv'
  <2>1. PICK delay \in Delays, things \in SUBSET Things :
          cleaning' = [cleaning EXCEPT ![t] = [phase |-> "clean", at |-> now, things |-> things, delay |-> delay]]
    BY <1>2 DEF Clean
  <2>2. /\ mutex = {} /\ mutex' = {t} /\ UNCHANGED <<now, todelete, gone>> /\ Cardinality({t}) = 1
    BY <1>2, FS_Singleton DEF Clean
  <2>3. [phase |-> "clean", at |-> now, things |-> things, delay |-> delay] \in
          Cleanings
    BY <2>1, DeleteAssumption DEF Cleanings
  <2>. QED
    BY <2>1, <2>2, <2>3
<1>3. ASSUME NEW t \in DeleteThreads, Erase(t) PROVE DeleteInv'
  BY <1>3 DEF Erase
<1>4. ASSUME NEW t \in DeleteThreads, EndClean(t) PROVE DeleteInv'
  <2>1. /\ cleaning[t].phase = "clean" /\ cleaning[t] \in Cleanings /\ mutex' = {}
        /\ UNCHANGED <<now, todelete, gone>>
    BY <1>4 DEF EndClean
  <2>2. PICK x \in {Nothing} \cup Cleanings : x.phase # "clean" /\ cleaning' = [cleaning EXCEPT ![t] = x]
    <3>1. Nothing.phase # "clean"
      OBVIOUS
    <3>2. [cleaning[t] EXCEPT !.phase = "insert"] \in Cleanings
      BY <2>1
    <3>. QED
      BY <1>4, <3>1, <3>2 DEF EndClean
  <2>3. \A u \in DeleteThreads : cleaning[u].phase = "clean" => u = t
    BY <2>1
  <2>. QED
    BY <2>1, <2>2, <2>3, FS_EmptySet
<1>5. ASSUME NEW t \in DeleteThreads, Insert(t) PROVE DeleteInv'
  <2>1. cleaning[t] \in Cleanings
    <3>1. Nothing.phase # "insert"
      OBVIOUS
    <3>. QED
      BY <1>5, <3>1 DEF Insert
  <2>2. cleaning[t].delay \in Nat /\ cleaning[t].things \subseteq Things
    BY <2>1
  <2>. QED
    BY <1>5, <2>2 DEF Insert
<1>6. ASSUME NEW t \in DeleteThreads, CleanAll(t) PROVE DeleteInv'
  <2>1. Queued \subseteq Things
    BY DEF Queued
  <2>. QED
    BY <1>6, <2>1 DEF CleanAll
<1>. QED
  BY <1>1, <1>2, <1>3, <1>4, <1>5, <1>6 DEF DeleteNext

-----------------------------------------------------------------------------
(***************************************************************************)
(* CacheItems                                                              *)
(***************************************************************************)

\* An item has the value its key was given last, and lasts for its duration;
\* an answer is about the item as it is.
ItemsInv ==
  /\ ItemsTypeOK
  /\ latest \in [ItemKeys -> [value : ItemValues \cup {NoValue}, at : 0 .. ItemEnd]]
  /\ \A k \in ItemKeys : latest[k].value # NoValue => k \in DOMAIN items
  /\ \A k \in DOMAIN items :
       /\ items[k].value = latest[k].value
       /\ items[k].valueset <=> latest[k].value # NoValue
       /\ items[k].valueset => latest[k].at <= seconds /\ items[k].validtill >= latest[k].at + ItemDuration
  /\ AnswerIsFresh

LEMMA ItemsStart == ItemsInit => ItemsInv
BY ItemAssumption DEF ItemsInit, ItemsInv, ItemsTypeOK, AnswerIsFresh

LEMMA ItemsStep ==
  ASSUME ItemsInv, ItemsNext
  PROVE  ItemsInv'
<1>. USE ItemAssumption DEF ItemsInv, ItemsTypeOK, AnswerIsFresh
<1>1. CASE Second
  BY <1>1 DEF Second
<1>2. CASE ClearItems
  BY <1>2 DEF ClearItems
<1>3. ASSUME NEW k \in ItemKeys, invalidate(k) PROVE ItemsInv'
  BY <1>3 DEF invalidate, With, Given, Default
<1>4. ASSUME NEW k \in ItemKeys, NEW v \in ItemValues, insert(k, v) PROVE ItemsInv'
  BY <1>4 DEF insert, With, Given
<1>5. ASSUME NEW k \in ItemKeys, getItemValue(k) PROVE ItemsInv'
  <2>. DEFINE item == IF k \in DOMAIN items THEN items[k] ELSE Default
              good == item.valueset /\ (check = "always" \/ seconds <= item.validtill)
              kept == IF good /\ check = "refresh" THEN [item EXCEPT !.validtill = seconds + ItemDuration] ELSE item
  <2>1. /\ items' = [x \in DOMAIN items \cup {k} |-> IF x = k THEN kept ELSE items[x]]
        /\ answer' = {[key |-> k, valid |-> good, value |-> item.value, at |-> seconds]}
        /\ UNCHANGED <<check, seconds, latest>>
    BY <1>5 DEF getItemValue, With
  <2>2. /\ item \in [valueset : BOOLEAN, value : ItemValues \cup {NoValue}, validtill : 0 .. ItemEnd + ItemDuration]
        /\ item.value = latest[k].value
        /\ item.valueset <=> latest[k].value # NoValue
        /\ item.valueset => latest[k].at <= seconds /\ item.validtill >= latest[k].at + ItemDuration
    BY DEF Default
  <2>3. /\ kept \in [valueset : BOOLEAN, value : ItemValues \cup {NoValue}, validtill : 0 .. ItemEnd + ItemDuration]
        /\ kept.value = item.value /\ kept.valueset = item.valueset
        /\ kept.valueset => kept.validtill >= latest[k].at + ItemDuration
    BY <2>2
  <2>4. good \in BOOLEAN
    BY <2>2
  <2>. HIDE DEF item, good, kept
  <2>5. AnswerIsFresh'
    BY <2>1, <2>2, <2>4 DEF good
  <2>6. \E a \in Answers : answer' = {a}
    <3>1. [key |-> k, valid |-> good, value |-> item.value, at |-> seconds] \in Answers
      BY <2>2, <2>4 DEF Answers
    <3>. QED
      BY <2>1, <3>1
  <2>. QED
    BY <2>1, <2>2, <2>3, <2>5, <2>6
<1>. QED
  BY <1>1, <1>2, <1>3, <1>4, <1>5 DEF ItemsNext
LEMMA DeleteInTime ==
  ASSUME DeleteInv, DeleteNext
  PROVE  /\ \A e \in todelete \ todelete' : (todelete' = {} /\ mutex = {}) \/ e.due < now
         /\ \A t \in DeleteThreads : cleaning[t].phase = "clean" /\ cleaning'[t].phase # "clean" =>
              \A e \in todelete' : e.due >= cleaning[t].at
<1>1. ASSUME NEW t \in DeleteThreads, Erase(t)
      PROVE  \A e \in todelete \ todelete' : e.due < now
  <2>1. PICK d \in todelete : d.due < cleaning[t].at /\ todelete' = todelete \ {d}
    BY <1>1 DEF Erase
  <2>2. d.due \in Nat /\ cleaning[t].at \in Nat /\ now \in Nat
    <3>1. cleaning[t] \in {Nothing} \cup Cleanings
      BY DEF DeleteInv, DeleteTypeOK
    <3>2. cleaning[t].at \in Nat
      BY <1>1, <3>1, DeleteAssumption DEF Erase, Nothing, Cleanings
    <3>3. now \in Nat /\ d \in [thing : Things, due : Nat]
      BY <2>1, DeleteAssumption DEF DeleteInv, DeleteTypeOK
    <3>. QED
      BY <3>2, <3>3
  <2>3. cleaning[t].at <= now
    BY <1>1 DEF Erase, DeleteInv
  <2>. QED
    BY <2>1, <2>2, <2>3
<1>2. ASSUME NEW t \in DeleteThreads, CleanAll(t)
      PROVE  todelete' = {} /\ mutex = {}
  BY <1>2 DEF CleanAll
<1>3. \/ todelete \subseteq todelete'
      \/ \E t \in DeleteThreads : Erase(t) \/ CleanAll(t)
  BY DEF DeleteNext, Later, Clean, EndClean, Insert
<1>4. ASSUME NEW t \in DeleteThreads, cleaning[t].phase = "clean", cleaning'[t].phase # "clean"
      PROVE  \A e \in todelete' : e.due >= cleaning[t].at
  <2>1. ASSUME NEW u \in DeleteThreads, Clean(u) PROVE cleaning'[t] = cleaning[t]
    BY <1>4, <2>1 DEF Clean, DeleteInv, Nothing
  <2>2. ASSUME NEW u \in DeleteThreads, Insert(u) PROVE cleaning'[t] = cleaning[t]
    BY <1>4, <2>2 DEF Insert, DeleteInv
  <2>3. ASSUME NEW u \in DeleteThreads, EndClean(u)
        PROVE  cleaning'[t] = cleaning[t] \/ \A e \in todelete' : e.due >= cleaning[t].at
    BY <1>4, <2>3 DEF EndClean, DeleteInv
  <2>. QED
    BY <1>4, <2>1, <2>2, <2>3 DEF DeleteNext, Later, Erase, CleanAll
<1>. QED
  BY <1>1, <1>2, <1>3, <1>4

-----------------------------------------------------------------------------
(***************************************************************************)
(* ContainerMitSuche                                                       *)
(***************************************************************************)

\* What a sequence is after the element at i was taken out.
LEMMA TakenOut ==
  ASSUME NEW S, NEW s \in Seq(S), NEW i \in 1 .. Len(s)
  PROVE  /\ RemoveAt(s, i) \in Seq(S) /\ Len(RemoveAt(s, i)) = Len(s) - 1
<1>. DEFINE front == SubSeq(s, 1, i - 1)
            back == SubSeq(s, i + 1, Len(s))
<1>1. Len(s) \in Nat /\ i \in Int /\ \A j \in 1 .. Len(s) : s[j] \in S
  BY LenProperties, ElementOfSeq
<1>2. front \in Seq(S) /\ Len(front) = i - 1
  <2>1. 1 \in Int /\ i - 1 \in Int /\ \A j \in 1 .. i - 1 : s[j] \in S
    BY <1>1
  <2>2. front \in Seq(S) /\ Len(front) = IF 1 <= i - 1 THEN (i - 1) - 1 + 1 ELSE 0
    BY <2>1, SubSeqProperties
  <2>. QED
    BY <1>1, <2>2
<1>3. back \in Seq(S) /\ Len(back) = Len(s) - i
  <2>1. i + 1 \in Int /\ Len(s) \in Int /\ \A j \in i + 1 .. Len(s) : s[j] \in S
    BY <1>1
  <2>2. back \in Seq(S) /\ Len(back) = IF i + 1 <= Len(s) THEN Len(s) - (i + 1) + 1 ELSE 0
    BY <2>1, SubSeqProperties
  <2>. QED
    BY <1>1, <2>2
<1>4. RemoveAt(s, i) = front \o back
  BY DEF RemoveAt
<1>. HIDE DEF front, back
<1>5. front \o back \in Seq(S) /\ Len(front \o back) = Len(front) + Len(back)
  BY <1>2, <1>3, ConcatProperties
<1>. QED
  BY <1>1, <1>2, <1>3, <1>4, <1>5

Listable(S) == IsFiniteSet(S) /\ \E s \in [1 .. Cardinality(S) -> S] : Ascends(s)

\* Every finite set of numbers can be listed in ascending order: there is no
\* smallest one that cannot.
LEMMA AllListable ==
  ASSUME NEW S \in SUBSET Nat, IsFiniteSet(S)
  PROVE  \E s \in [1 .. Cardinality(S) -> S] : Ascends(s)
<1>. DEFINE Bad == {n \in Nat : \E T \in SUBSET Nat : IsFiniteSet(T) /\ Cardinality(T) = n /\ ~Listable(T)}
<1>1. ASSUME Bad # {} PROVE FALSE
  <2>1. PICK n \in Bad : \A y \in Bad : n <= y
    <3>1. Bad \in SUBSET Nat
      OBVIOUS
    <3>. HIDE DEF Bad
    <3>. QED
      BY <1>1, <3>1, FirstKey
  <2>2. PICK T \in SUBSET Nat : IsFiniteSet(T) /\ Cardinality(T) = n /\ ~Listable(T)
    BY <2>1
  <2>3. T # {}
    <3>1. Cardinality({}) = 0 /\ IsFiniteSet({})
      BY FS_EmptySet
    <3>2. PICK s : s = [i \in 1 .. 0 |-> 0]
      OBVIOUS
    <3>3. s \in [1 .. 0 -> {}] /\ Ascends(s)
      BY <3>2 DEF Ascends
    <3>. QED
      BY <2>2, <3>1, <3>3 DEF Listable
  <2>4. PICK m \in T : \A y \in T : m <= y
    BY <2>2, <2>3, FirstKey
  <2>5. /\ IsFiniteSet(T \ {m}) /\ Cardinality(T \ {m}) = n - 1 /\ n \in Nat /\ n - 1 \in Nat
        /\ n # 0
    <3>1. IsFiniteSet(T \ {m}) /\ Cardinality(T \ {m}) = Cardinality(T) - 1
      BY <2>2, FS_RemoveElement
    <3>2. Cardinality(T \ {m}) \in Nat /\ n \in Nat
      BY <2>1, <3>1, FS_CardinalityType
    <3>. QED
      BY <2>2, <3>1, <3>2
  <2>6. Listable(T \ {m})
    <3>1. n - 1 \notin Bad
      BY <2>1, <2>5
    <3>. QED
      BY <2>5, <3>1
  <2>7. PICK t \in [1 .. (n - 1) -> T \ {m}] : Ascends(t)
    BY <2>5, <2>6 DEF Listable
  <2>8. PICK s : s = [i \in 1 .. n |-> IF i = 1 THEN m ELSE t[i - 1]]
    OBVIOUS
  <2>9. \A i \in 1 .. n : i # 1 => i - 1 \in 1 .. (n - 1) /\ t[i - 1] \in T \ {m}
    BY <2>5, <2>7
  <2>10. s \in [1 .. n -> T]
    BY <2>8, <2>9
  <2>11. ASSUME NEW i \in 1 .. n, NEW j \in 1 .. n, i < j PROVE s[i] < s[j]
    <3>1. j # 1 /\ s[j] = t[j - 1] /\ t[j - 1] \in T \ {m} /\ j - 1 \in 1 .. (n - 1)
      BY <2>5, <2>8, <2>9, <2>11
    <3>2. CASE i = 1
      <4>1. s[i] = m /\ m \in Nat /\ t[j - 1] \in Nat /\ t[j - 1] # m /\ m <= t[j - 1]
        BY <2>2, <2>4, <2>8, <3>1, <3>2
      <4>. QED
        BY <3>1, <4>1
    <3>3. CASE i # 1
      <4>1. s[i] = t[i - 1] /\ i - 1 \in 1 .. (n - 1) /\ i - 1 < j - 1
        BY <2>5, <2>8, <2>9, <2>11, <3>3
      <4>. QED
        BY <2>7, <3>1, <4>1 DEF Ascends
    <3>. QED
      BY <3>2, <3>3
  <2>12. Ascends(s)
    BY <2>10, <2>11 DEF Ascends
  <2>. QED
    BY <2>2, <2>10, <2>12 DEF Listable
<1>2. Listable(S)
  <2>1. Cardinality(S) \in Nat /\ Cardinality(S) \notin Bad
    BY <1>1, FS_CardinalityType
  <2>. QED
    BY <2>1
<1>. QED
  BY <1>2 DEF Listable

LEMMA AscendingLists ==
  ASSUME NEW S \in SUBSET Nat, IsFiniteSet(S)
  PROVE  /\ Ascending(S) \in [1 .. Cardinality(S) -> S] /\ Ascends(Ascending(S))
         /\ Ascending(S) \in Seq(S) /\ Len(Ascending(S)) = Cardinality(S)
         /\ ToSet(Ascending(S)) = S
<1>. DEFINE s == Ascending(S)
            n == Cardinality(S)
<1>1. s \in [1 .. n -> S] /\ Ascends(s)
  BY AllListable DEF Ascending
<1>2. n \in Nat
  BY FS_CardinalityType
<1>. HIDE DEF s
<1>3. s \in Seq(S) /\ Len(s) = n
  BY <1>1, <1>2
<1>4. IsFiniteSet(1 .. n) /\ Cardinality(1 .. n) = n
  <2>1. IsFiniteSet(1 .. n) /\ Cardinality(1 .. n) = IF 1 > n THEN 0 ELSE n - 1 + 1
    BY <1>2, FS_Interval
  <2>. QED
    BY <1>2, <2>1
<1>5. s \in Injection(1 .. n, S)
  <2>1. ASSUME NEW i \in 1 .. n, NEW j \in 1 .. n, s[i] = s[j] PROVE i = j
    <3>1. s[i] \in Nat /\ s[j] \in Nat
      BY <1>1
    <3>2. ~(i < j) /\ ~(j < i)
      BY <1>1, <2>1, <3>1 DEF Ascends
    <3>. QED
      BY <1>2, <3>2
  <2>. QED
    BY <1>1, <2>1 DEF Injection, IsInjective
<1>6. s \in Surjection(1 .. n, S)
  <2>. HIDE DEF n
  <2>1. Cardinality(1 .. n) = Cardinality(S) <=> s \in Surjection(1 .. n, S)
    BY <1>5, FS_Injection
  <2>. QED
    BY <1>4, <2>1 DEF n
<1>7. ToSet(s) = S
  BY <1>1, <1>6 DEF ToSet, Surjection
<1>. QED
  BY <1>1, <1>3, <1>7 DEF s

FindInv ==
  /\ daten \in Seq([key : FindKeys, id : 1 .. MaxEntries])
  /\ pending \in Seq([key : FindKeys, id : 1 .. MaxEntries])
  /\ map \in [FindKeys -> Seq(Nat)]
  /\ pushed \in 0 .. MaxEntries /\ Len(daten) + Len(pending) <= pushed
  /\ asyncUnique \in BOOLEAN
  /\ \A f \in found : f \in [index : Nat, entry : [key : FindKeys, id : 1 .. MaxEntries]]
  /\ \A k \in FindKeys : Len(map[k]) <= Len(daten)
  /\ IndexExact

LEMMA FindStart == FindInit => FindInv
<1> SUFFICES ASSUME FindInit PROVE FindInv
  OBVIOUS
<1>1. /\ daten = <<>> /\ pending = <<>> /\ found = {} /\ pushed = 0 /\ asyncUnique \in BOOLEAN
      /\ map \in [FindKeys -> Seq(Nat)] /\ \A k \in FindKeys : map[k] = <<>>
  BY DEF FindInit
<1>2. DOMAIN <<>> = {} /\ Len(<<>>) = 0
  OBVIOUS
<1>3. IndexExact
  BY <1>1, <1>2 DEF IndexExact, ToSet, Indices, Ascends
<1>. QED
  BY <1>1, <1>2, <1>3, FindAssumption DEF FindInv

\* A value is pushed back, and its index is listed last under its key.
LEMMA FindPush ==
  ASSUME FindInv, NEW e \in [key : FindKeys, id : 1 .. MaxEntries], Push(e), UNCHANGED found
  PROVE  /\ daten' \in Seq([key : FindKeys, id : 1 .. MaxEntries]) /\ Len(daten') = Len(daten) + 1
         /\ map' \in [FindKeys -> Seq(Nat)]
         /\ \A k \in FindKeys : Len(map'[k]) <= Len(daten')
         /\ IndexExact'
<1>. DEFINE E == [key : FindKeys, id : 1 .. MaxEntries]
            n == Len(daten) + 1
<1>1. /\ daten \in Seq(E) /\ e \in E /\ e.key \in FindKeys /\ daten' = Append(daten, e)
      /\ map \in [FindKeys -> Seq(Nat)] /\ map' = [map EXCEPT ![e.key] = Append(@, n)]
      /\ \A k \in FindKeys : Len(map[k]) <= Len(daten)
      /\ IndexExact
  BY DEF Push, FindInv
<1>. HIDE DEF E
<1>2. /\ daten' \in Seq(E) /\ Len(daten') = n /\ Len(daten) \in Nat /\ n \in Nat
      /\ DOMAIN daten = 1 .. Len(daten) /\ DOMAIN daten' = 1 .. n
      /\ daten'[n] = e /\ \A j \in 1 .. Len(daten) : daten'[j] = daten[j]
  BY <1>1, AppendProperties, LenProperties
<1>. HIDE DEF n
<1>3. ASSUME NEW k \in FindKeys
      PROVE  /\ map'[k] \in Seq(Nat) /\ Len(map'[k]) <= n
             /\ ToSet(map'[k]) = Indices(k)' /\ Ascends(map'[k])
  <2>1. map[k] \in Seq(Nat) /\ Len(map[k]) <= Len(daten) /\ ToSet(map[k]) = Indices(k) /\ Ascends(map[k])
    BY <1>1 DEF IndexExact
  <2>2. /\ Indices(k) = {j \in 1 .. Len(daten) : daten[j].key = k}
        /\ Indices(k)' = {j \in 1 .. n : daten'[j].key = k}
    BY <1>2 DEF Indices
  <2>3. CASE k = e.key
    <3>1. map'[k] = Append(map[k], n)
      BY <1>1, <2>3
    <3>2. /\ map'[k] \in Seq(Nat) /\ Len(map'[k]) = Len(map[k]) + 1 /\ Len(map[k]) \in Nat
          /\ DOMAIN map[k] = 1 .. Len(map[k]) /\ DOMAIN map'[k] = 1 .. (Len(map[k]) + 1)
          /\ map'[k][Len(map[k]) + 1] = n /\ \A j \in 1 .. Len(map[k]) : map'[k][j] = map[k][j]
      BY <1>2, <2>1, <3>1, AppendProperties, LenProperties
    <3>3. \A j \in 1 .. Len(map[k]) : map[k][j] \in Nat /\ map[k][j] < n
      <4>1. \A j \in 1 .. Len(map[k]) : map[k][j] \in Indices(k)
        BY <2>1, <3>2 DEF ToSet
      <4>. QED
        BY <1>2, <2>2, <4>1 DEF n
    <3>4. Ascends(map'[k])
      <4>1. ASSUME NEW i \in 1 .. (Len(map[k]) + 1), NEW j \in 1 .. (Len(map[k]) + 1), i < j
            PROVE  map'[k][i] < map'[k][j]
        <5>1. i \in 1 .. Len(map[k]) /\ map'[k][i] = map[k][i]
            <6>1. i \in Nat /\ j \in Nat /\ i >= 1 /\ j <= Len(map[k]) + 1
              BY <3>2, <4>1
            <6>2. i \in 1 .. Len(map[k])
              BY <3>2, <4>1, <6>1
            <6>. QED
              BY <3>2, <6>2
        <5>2. CASE j = Len(map[k]) + 1
          BY <3>2, <3>3, <5>1, <5>2
        <5>3. CASE j # Len(map[k]) + 1
          <6>1. j \in 1 .. Len(map[k]) /\ map'[k][j] = map[k][j]
            BY <3>2, <5>3
          <6>. QED
            BY <2>1, <3>2, <4>1, <5>1, <6>1 DEF Ascends
        <5>. QED
          BY <5>2, <5>3
      <4>. QED
        BY <3>2, <4>1 DEF Ascends
    <3>5. ToSet(map'[k]) = ToSet(map[k]) \cup {n}
      <4>1. 1 .. (Len(map[k]) + 1) = (1 .. Len(map[k])) \cup {Len(map[k]) + 1}
        BY <3>2
      <4>2. ToSet(map'[k]) = {map'[k][j] : j \in 1 .. (Len(map[k]) + 1)}
        BY <3>2 DEF ToSet
      <4>3. ToSet(map[k]) = {map[k][j] : j \in 1 .. Len(map[k])}
        BY <3>2 DEF ToSet
      <4>4. {map'[k][j] : j \in 1 .. (Len(map[k]) + 1)} = {map[k][j] : j \in 1 .. Len(map[k])} \cup {n}
        <5>1. PICK d : d = 1 .. Len(map[k])
          OBVIOUS
        <5>2. PICK m : m = Len(map[k]) + 1
          OBVIOUS
        <5>3. map'[k][m] = n /\ \A j \in d : map'[k][j] = map[k][j]
          BY <3>2, <5>1, <5>2
        <5>4. {map'[k][j] : j \in d \cup {m}} = {map[k][j] : j \in d} \cup {n}
          BY <5>3
        <5>. QED
          BY <4>1, <5>1, <5>2, <5>4
      <4>. QED
        BY <4>2, <4>3, <4>4
    <3>6. Indices(k)' = Indices(k) \cup {n}
      <4>1. 1 .. n = (1 .. Len(daten)) \cup {n}
        BY <1>2 DEF n
      <4>. QED
        BY <1>2, <2>2, <2>3, <4>1
    <3>. QED
      BY <1>2, <2>1, <3>2, <3>4, <3>5, <3>6 DEF n
  <2>4. CASE k # e.key
    <3>1. map'[k] = map[k]
      BY <1>1, <2>4
    <3>2. Indices(k)' = Indices(k)
      <4>1. 1 .. n = (1 .. Len(daten)) \cup {n}
        BY <1>2 DEF n
      <4>2. daten'[n].key # k /\ \A j \in 1 .. Len(daten) : daten'[j] = daten[j]
        BY <1>2, <2>4
      <4>. QED
        BY <2>2, <4>1, <4>2
    <3>. QED
      BY <1>2, <2>1, <3>1, <3>2 DEF n
  <2>. QED
    BY <2>3, <2>4
<1>4. \A f \in found' : f.index \in DOMAIN daten' /\ daten'[f.index] = f.entry
  <2>1. \A f \in found : f.index \in 1 .. Len(daten) /\ daten[f.index] = f.entry
    BY <1>1, <1>2 DEF IndexExact
  <2>. QED
    BY <1>2, <2>1 DEF n
<1>5. IndexExact'
  BY <1>3, <1>4 DEF IndexExact
<1>6. map' \in [FindKeys -> Seq(Nat)]
  BY <1>1, <1>3
<1>. QED
  BY <1>2, <1>3, <1>5, <1>6 DEF n, E

LEMMA FindStep ==
  ASSUME FindInv, FindNext
  PROVE  FindInv'
<1>. DEFINE E == [key : FindKeys, id : 1 .. MaxEntries]
<1>0. /\ daten \in Seq(E) /\ pending \in Seq(E) /\ map \in [FindKeys -> Seq(Nat)]
      /\ pushed \in 0 .. MaxEntries /\ Len(daten) + Len(pending) <= pushed /\ asyncUnique \in BOOLEAN
      /\ \A f \in found : f \in [index : Nat, entry : E]
      /\ \A k \in FindKeys : Len(map[k]) <= Len(daten)
      /\ IndexExact /\ MaxEntries \in Nat /\ Len(daten) \in Nat /\ Len(pending) \in Nat
      /\ pushed \in Nat
  BY FindAssumption, LenProperties DEF FindInv
<1>1. ASSUME NEW k \in FindKeys, NewValue
      PROVE  pushed' = pushed + 1 /\ pushed' \in 0 .. MaxEntries /\ Fresh(k) \in E
  BY <1>0, <1>1 DEF NewValue, Fresh
<1>2. ASSUME NEW e \in E, Push(e) \/ PushUnique(e), UNCHANGED found
      PROVE  /\ daten' \in Seq(E) /\ map' \in [FindKeys -> Seq(Nat)]
             /\ Len(daten') \in Nat /\ Len(daten') <= Len(daten) + 1
             /\ \A k \in FindKeys : Len(map'[k]) <= Len(daten')
             /\ IndexExact'
  <2>1. CASE Push(e)
    <3>1. /\ daten' \in Seq(E) /\ Len(daten') = Len(daten) + 1 /\ map' \in [FindKeys -> Seq(Nat)]
          /\ \A k \in FindKeys : Len(map'[k]) <= Len(daten')
          /\ IndexExact'
      BY <1>2, <2>1, FindPush
    <3>. QED
      BY <1>0, <3>1
  <2>2. CASE UNCHANGED <<daten, map>>
    <3>1. IndexExact'
      BY <1>0, <1>2, <2>2 DEF IndexExact, Indices
    <3>. QED
      BY <1>0, <2>2, <3>1
  <2>. QED
    BY <1>2, <2>1, <2>2 DEF PushUnique
<1>3. ASSUME NEW k \in FindKeys, push_back(k) \/ push_back_unique(k) PROVE FindInv'
  <2>1. /\ NewValue /\ (Push(Fresh(k)) \/ PushUnique(Fresh(k)))
        /\ UNCHANGED <<pending, asyncUnique, found>>
    BY <1>3 DEF push_back, push_back_unique
  <2>2. Fresh(k) \in E /\ pushed' = pushed + 1 /\ pushed' \in 0 .. MaxEntries
    BY <1>1, <2>1
  <2>3. /\ daten' \in Seq(E) /\ map' \in [FindKeys -> Seq(Nat)]
        /\ Len(daten') \in Nat /\ Len(daten') <= Len(daten) + 1
        /\ \A x \in FindKeys : Len(map'[x]) <= Len(daten')
        /\ IndexExact'
    BY <1>2, <2>1, <2>2
  <2>. QED
    BY <1>0, <2>1, <2>2, <2>3 DEF FindInv
<1>4. ASSUME NEW k \in FindKeys, AsyncPush(k) PROVE FindInv'
  <2>1. /\ NewValue /\ pending' = Append(pending, Fresh(k))
        /\ UNCHANGED <<daten, map, asyncUnique, found>>
    BY <1>4 DEF AsyncPush
  <2>2. Fresh(k) \in E /\ pushed' = pushed + 1 /\ pushed' \in 0 .. MaxEntries
    BY <1>1, <2>1
  <2>. HIDE DEF E
  <2>3. pending' \in Seq(E) /\ Len(pending') = Len(pending) + 1
    BY <1>0, <2>1, <2>2, AppendProperties
  <2>4. IndexExact'
    BY <1>0, <2>1 DEF IndexExact, Indices
  <2>. QED
    BY <1>0, <2>1, <2>2, <2>3, <2>4 DEF FindInv, E
<1>5. CASE AsyncWork
  <2>1. /\ pending # <<>> /\ pending' = Tail(pending)
        /\ Push(Head(pending)) \/ PushUnique(Head(pending))
        /\ UNCHANGED <<asyncUnique, found, pushed>>
    BY <1>5 DEF AsyncWork
  <2>. HIDE DEF E
  <2>2. Head(pending) \in E /\ pending' \in Seq(E) /\ Len(pending') = Len(pending) - 1
    BY <1>0, <2>1, HeadTailProperties
  <2>3. /\ daten' \in Seq(E) /\ map' \in [FindKeys -> Seq(Nat)]
        /\ Len(daten') \in Nat /\ Len(daten') <= Len(daten) + 1
        /\ \A x \in FindKeys : Len(map'[x]) <= Len(daten')
        /\ IndexExact'
    BY <1>2, <2>1, <2>2
  <2>. QED
    BY <1>0, <2>1, <2>2, <2>3 DEF FindInv, E
<1>6. CASE clear_daten
  <2>1. /\ daten' = <<>> /\ found' = {} /\ UNCHANGED <<pending, asyncUnique, pushed>>
        /\ map' \in [FindKeys -> Seq(Nat)] /\ \A k \in FindKeys : map'[k] = <<>>
    BY <1>6 DEF clear_daten
  <2>2. DOMAIN <<>> = {} /\ Len(<<>>) = 0
    OBVIOUS
  <2>3. IndexExact'
    BY <2>1, <2>2 DEF IndexExact, ToSet, Indices, Ascends
  <2>. QED
    BY <1>0, <2>1, <2>2, <2>3 DEF FindInv
<1>7. ASSUME NEW i \in DOMAIN daten, erase_at(i) PROVE FindInv'
  <2>. HIDE DEF E
  <2>1. /\ daten' = RemoveAt(daten, i) /\ found' = {} /\ UNCHANGED <<pending, asyncUnique, pushed>>
        /\ map' = [k \in FindKeys |-> Ascending(Indices(k)')]
    BY <1>7 DEF erase_at
  <2>2. i \in 1 .. Len(daten)
    BY <1>0, LenProperties
  <2>3. daten' \in Seq(E) /\ Len(daten') = Len(daten) - 1
    BY <1>0, <2>1, <2>2, TakenOut
  <2>4. PICK n \in Nat : n = Len(daten') /\ DOMAIN daten' = 1 .. n
    BY <2>3, LenProperties
  <2>5. ASSUME NEW k \in FindKeys
        PROVE  /\ map'[k] \in Seq(Nat) /\ Len(map'[k]) <= n
               /\ ToSet(map'[k]) = Indices(k)' /\ Ascends(map'[k])
    <3>1. PICK S : S = Indices(k)'
      OBVIOUS
    <3>2. S \in SUBSET (1 .. n) /\ S \in SUBSET Nat
      BY <2>4, <3>1 DEF Indices
    <3>3. IsFiniteSet(S) /\ Cardinality(S) <= n
      <4>1. IsFiniteSet(1 .. n) /\ Cardinality(1 .. n) = IF 1 > n THEN 0 ELSE n - 1 + 1
        <5>1. 1 \in Int /\ n \in Int
          BY <2>4
        <5>. QED
          BY <5>1, FS_Interval
      <4>2. IsFiniteSet(S) /\ Cardinality(S) <= Cardinality(1 .. n)
        BY <3>2, <4>1, FS_Subset
      <4>. QED
        BY <2>4, <4>1, <4>2
    <3>4. map'[k] = Ascending(S)
      BY <2>1, <3>1
    <3>5. /\ Ascending(S) \in Seq(S) /\ Len(Ascending(S)) = Cardinality(S)
          /\ ToSet(Ascending(S)) = S /\ Ascends(Ascending(S))
      BY <3>2, <3>3, AscendingLists
    <3>6. Ascending(S) \in Seq(Nat)
      BY <3>2, <3>5, SeqMonotonic
    <3>. QED
      BY <3>1, <3>3, <3>4, <3>5, <3>6
  <2>6. IndexExact'
    BY <2>1, <2>5 DEF IndexExact
  <2>7. map' \in [FindKeys -> Seq(Nat)]
    BY <2>1, <2>5
  <2>8. /\ \A f \in found' : f \in [index : Nat, entry : E]
        /\ Len(daten') + Len(pending') <= pushed'
        /\ \A k \in FindKeys : Len(map'[k]) <= Len(daten')
    BY <1>0, <2>1, <2>3, <2>4, <2>5
  <2>. QED
    BY <1>0, <2>1, <2>3, <2>6, <2>7, <2>8 DEF FindInv, E
<1>8. ASSUME NEW k \in FindKeys, find_index(k) PROVE FindInv'
  <2>1. /\ map[k][1] \in DOMAIN daten /\ UNCHANGED <<daten, map, pending, asyncUnique, pushed>>
        /\ found' = {[index |-> map[k][1], entry |-> daten[map[k][1]]]}
    BY <1>8 DEF find_index
  <2>2. map[k][1] \in Nat /\ daten[map[k][1]] \in E
    <3>1. DOMAIN daten = 1 .. Len(daten)
      BY <1>0, LenProperties
    <3>. HIDE DEF E
    <3>. QED
      BY <1>0, <2>1, <3>1, ElementOfSeq
  <2>3. IndexExact'
    BY <1>0, <2>1 DEF IndexExact, Indices
  <2>4. \A f \in found' : f \in [index : Nat, entry : E]
    BY <2>1, <2>2
  <2>. QED
    BY <1>0, <2>1, <2>3, <2>4 DEF FindInv
<1>. QED
  BY <1>3, <1>4, <1>5, <1>6, <1>7, <1>8 DEF FindNext

\* A sequence that is not longer than n is a bounded one.
LEMMA Bounded ==
  ASSUME NEW S, NEW s \in Seq(S), NEW n \in Nat, Len(s) <= n
  PROVE  s \in BoundedSeq(S, n)
<1>1. Len(s) \in 0 .. n /\ s \in [1 .. Len(s) -> S]
  BY LenProperties
<1>. QED
  BY <1>1 DEF BoundedSeq, SeqOf

LEMMA FindTypes ==
  ASSUME FindInv
  PROVE  FindTypeOK /\ IndexExact
<1>. DEFINE E == [key : FindKeys, id : 1 .. MaxEntries]
<1>0. /\ daten \in Seq(E) /\ pending \in Seq(E) /\ map \in [FindKeys -> Seq(Nat)]
      /\ pushed \in 0 .. MaxEntries /\ Len(daten) + Len(pending) <= pushed /\ asyncUnique \in BOOLEAN
      /\ \A f \in found : f \in [index : Nat, entry : E]
      /\ \A k \in FindKeys : Len(map[k]) <= Len(daten)
      /\ IndexExact
  BY DEF FindInv
<1>1. /\ Len(daten) \in Nat /\ Len(pending) \in Nat /\ MaxEntries \in Nat
      /\ DOMAIN daten = 1 .. Len(daten) /\ Len(daten) <= MaxEntries /\ Len(pending) <= MaxEntries
  BY <1>0, LenProperties, FindAssumption
<1>2. daten \in BoundedSeq(E, MaxEntries) /\ pending \in BoundedSeq(E, MaxEntries)
  <2>. HIDE DEF E
  <2>. QED
    BY <1>0, <1>1, Bounded
<1>3. ASSUME NEW k \in FindKeys PROVE map[k] \in BoundedSeq(1 .. MaxEntries, MaxEntries)
  <2>1. map[k] \in Seq(Nat) /\ Len(map[k]) <= Len(daten) /\ ToSet(map[k]) = Indices(k)
    BY <1>0, <1>3 DEF IndexExact
  <2>2. Len(map[k]) \in Nat /\ DOMAIN map[k] = 1 .. Len(map[k]) /\ map[k] \in [1 .. Len(map[k]) -> Nat]
    BY <2>1, LenProperties
  <2>3. \A i \in 1 .. Len(map[k]) : map[k][i] \in 1 .. MaxEntries
    <3>1. \A i \in 1 .. Len(map[k]) : map[k][i] \in Indices(k)
      BY <2>1, <2>2 DEF ToSet
    <3>. QED
      BY <1>1, <3>1 DEF Indices
  <2>4. map[k] \in Seq(1 .. MaxEntries)
    <3>1. map[k] \in [1 .. Len(map[k]) -> 1 .. MaxEntries]
      BY <2>2, <2>3
    <3>2. PICK n \in Nat : n = Len(map[k])
      BY <2>2
    <3>3. PICK S : S = 1 .. MaxEntries
      OBVIOUS
    <3>4. map[k] \in [1 .. n -> S]
      BY <3>1, <3>2, <3>3
    <3>5. map[k] \in Seq(S)
      BY <3>4
    <3>. QED
      BY <3>3, <3>5
  <2>. QED
    BY <1>1, <2>1, <2>2, <2>4, Bounded
<1>4. ASSUME NEW f \in found PROVE f \in [index : 1 .. MaxEntries, entry : E]
  BY <1>0, <1>1 DEF IndexExact
<1>. QED
  BY <1>0, <1>2, <1>3, <1>4 DEF FindTypeOK, Entry

-----------------------------------------------------------------------------
(***************************************************************************)
(* fifo_with_prio                                                          *)
(***************************************************************************)

\* What a sequence is after an element was put in at i, or taken out.
LEMMA PutIn ==
  ASSUME NEW S, NEW s \in Seq(S), NEW i \in 1 .. Len(s) + 1, NEW e \in S
  PROVE  /\ InsertAt(s, i, e) \in Seq(S) /\ Len(InsertAt(s, i, e)) = Len(s) + 1
         /\ \A j \in 1 .. Len(s) + 1 :
              InsertAt(s, i, e)[j] = IF j < i THEN s[j] ELSE IF j = i THEN e ELSE s[j - 1]
<1>. DEFINE front == SubSeq(s, 1, i - 1)
            back == SubSeq(s, i, Len(s))
<1>1. Len(s) \in Nat /\ i \in Int /\ \A j \in 1 .. Len(s) : s[j] \in S
  BY LenProperties, ElementOfSeq
<1>2. /\ front \in Seq(S) /\ Len(front) = i - 1
      /\ \A j \in 1 .. i - 1 : front[j] = s[j]
  <2>1. 1 \in Int /\ i - 1 \in Int /\ \A j \in 1 .. i - 1 : s[j] \in S
    BY <1>1
  <2>2. /\ front \in Seq(S) /\ Len(front) = IF 1 <= i - 1 THEN (i - 1) - 1 + 1 ELSE 0
        /\ \A j \in 1 .. (i - 1) - 1 + 1 : front[j] = s[1 + j - 1]
    BY <2>1, SubSeqProperties
  <2>. QED
    BY <1>1, <2>2
<1>3. /\ back \in Seq(S) /\ Len(back) = Len(s) - i + 1
      /\ \A j \in 1 .. Len(s) - i + 1 : back[j] = s[i + j - 1]
  <2>1. i \in Int /\ Len(s) \in Int /\ \A j \in i .. Len(s) : s[j] \in S
    BY <1>1
  <2>2. /\ back \in Seq(S) /\ Len(back) = IF i <= Len(s) THEN Len(s) - i + 1 ELSE 0
        /\ \A j \in 1 .. Len(s) - i + 1 : back[j] = s[i + j - 1]
    BY <2>1, SubSeqProperties
  <2>. QED
    BY <1>1, <2>2
<1>4. <<e>> \in Seq(S) /\ Len(<<e>>) = 1 /\ <<e>>[1] = e
  OBVIOUS
<1>. HIDE DEF front, back
<1>5. /\ front \o <<e>> \in Seq(S) /\ Len(front \o <<e>>) = i
      /\ \A j \in 1 .. i : (front \o <<e>>)[j] = IF j < i THEN s[j] ELSE e
  <2>1. /\ front \o <<e>> \in Seq(S) /\ Len(front \o <<e>>) = Len(front) + Len(<<e>>)
        /\ \A j \in 1 .. Len(front) + Len(<<e>>) :
             (front \o <<e>>)[j] = IF j <= Len(front) THEN front[j] ELSE <<e>>[j - Len(front)]
    BY <1>2, <1>4, ConcatProperties
  <2>. QED
    BY <1>1, <1>2, <1>4, <2>1
<1>6. /\ (front \o <<e>>) \o back \in Seq(S) /\ Len((front \o <<e>>) \o back) = Len(s) + 1
      /\ \A j \in 1 .. Len(s) + 1 :
           ((front \o <<e>>) \o back)[j] = IF j <= i THEN (front \o <<e>>)[j] ELSE back[j - i]
  <2>. DEFINE f == front \o <<e>>
  <2>1. f \in Seq(S) /\ Len(f) = i
    BY <1>5
  <2>. HIDE DEF f
  <2>2. /\ f \o back \in Seq(S) /\ Len(f \o back) = Len(f) + Len(back)
        /\ \A j \in 1 .. Len(f) + Len(back) :
             (f \o back)[j] = IF j <= Len(f) THEN f[j] ELSE back[j - Len(f)]
    BY <1>3, <2>1, ConcatProperties
  <2>3. /\ f \o back \in Seq(S) /\ Len(f \o back) = Len(s) + 1
        /\ \A j \in 1 .. Len(s) + 1 : (f \o back)[j] = IF j <= i THEN f[j] ELSE back[j - i]
    BY <1>1, <1>3, <2>1, <2>2
  <2>. QED
    BY <2>3 DEF f
<1>7. InsertAt(s, i, e) = (front \o <<e>>) \o back
  BY DEF InsertAt, front, back
<1>8. ASSUME NEW j \in 1 .. Len(s) + 1
      PROVE  ((front \o <<e>>) \o back)[j] = IF j < i THEN s[j] ELSE IF j = i THEN e ELSE s[j - 1]
  <2>1. CASE j <= i
    BY <1>1, <1>5, <1>6, <2>1
  <2>2. CASE j > i
    <3>1. j - i \in 1 .. Len(s) - i + 1 /\ i + (j - i) - 1 = j - 1
      BY <1>1, <2>2
    <3>2. back[j - i] = s[i + (j - i) - 1]
      BY <1>3, <3>1
    <3>. QED
      BY <1>1, <1>6, <2>2, <3>1, <3>2
  <2>3. j <= i \/ j > i
    BY <1>1
  <2>. QED
    BY <2>1, <2>2, <2>3, Zenon
<1>. QED
  BY <1>6, <1>7, <1>8

Rising(s) == \A i, j \in DOMAIN s : i < j => s[i].prio <= s[j].prio

PoolInv ==
  /\ pool \in Seq([prio : 0 .. MaxPrio, id : Nat])
  /\ added \in Nat /\ added <= MaxData /\ Len(pool) <= added
  /\ Rising(pool)
  /\ \A i \in DOMAIN pool : pool[i].id \in 1 .. added
  /\ \A i, j \in DOMAIN pool : pool[i].id = pool[j].id => i = j

\* The place for a new datum is behind those with no greater prio, and before
\* those with a greater one.
LEMMA PlaceFits ==
  ASSUME PoolInv, NEW p \in 0 .. MaxPrio
  PROVE  /\ PlaceOf(p) \in 1 .. Len(pool) + 1
         /\ \A j \in DOMAIN pool : j < PlaceOf(p) => pool[j].prio <= p
         /\ \A j \in DOMAIN pool : j >= PlaceOf(p) => pool[j].prio > p
<1>. DEFINE front == {i \in DOMAIN pool : \A j \in 1 .. i : pool[j].prio <= p}
            rest == (1 .. Len(pool) + 1) \ front
<1>1. Len(pool) \in Nat /\ DOMAIN pool = 1 .. Len(pool) /\ p \in Int
      /\ \A i \in DOMAIN pool : pool[i].prio \in Int
  <2>1. pool \in Seq([prio : 0 .. MaxPrio, id : Nat])
    BY DEF PoolInv
  <2>2. /\ Len(pool) \in Nat /\ DOMAIN pool = 1 .. Len(pool)
        /\ \A i \in DOMAIN pool : pool[i] \in [prio : 0 .. MaxPrio, id : Nat]
    BY <2>1, LenProperties, ElementOfSeq
  <2>. QED
    BY <2>2, PrioAssumption
<1>2. rest \in SUBSET Nat /\ rest # {}
  <2>1. Len(pool) + 1 \in rest
    BY <1>1
  <2>. QED
    BY <1>1, <2>1
<1>3. PICK m \in rest : \A y \in rest : m <= y
  <2>. HIDE DEF rest
  <2>. QED
    BY <1>2, FirstKey
<1>4. m \in 1 .. Len(pool) + 1 /\ m \in Int
  BY <1>1, <1>3
<1>5. front = 1 .. (m - 1)
  <2>1. ASSUME NEW i \in 1 .. (m - 1) PROVE i \in front
    BY <1>1, <1>3, <1>4
  <2>2. ASSUME NEW i \in front PROVE i \in 1 .. (m - 1)
    <3>1. i \in 1 .. Len(pool) /\ \A j \in 1 .. i : j \in front
      BY <1>1
    <3>. QED
      BY <1>1, <1>3, <1>4, <3>1
  <2>. QED
    BY <2>1, <2>2
<1>6. Cardinality(front) = m - 1
  <2>1. Cardinality(1 .. (m - 1)) = IF 1 > m - 1 THEN 0 ELSE (m - 1) - 1 + 1
    BY <1>4, FS_Interval
  <2>2. Cardinality(front) = Cardinality(1 .. (m - 1))
    BY <1>5
  <2>. HIDE DEF front
  <2>. QED
    BY <1>4, <2>1, <2>2
<1>7. PlaceOf(p) = m
  BY <1>4, <1>6 DEF PlaceOf
<1>8. \A j \in DOMAIN pool : j < m => pool[j].prio <= p
  <2>1. ASSUME NEW j \in DOMAIN pool, j < m PROVE pool[j].prio <= p
    <3>1. j \in front /\ j \in 1 .. j
      BY <1>1, <1>4, <1>5, <2>1
    <3>. QED
      BY <3>1
  <2>. QED
    BY <2>1
<1>9. ASSUME NEW j \in DOMAIN pool, j >= m PROVE pool[j].prio > p
  <2>1. m \in DOMAIN pool /\ m \notin front
    BY <1>1, <1>3, <1>4, <1>9
  <2>2. pool[m].prio > p
    <3>1. PICK i \in 1 .. m : ~(pool[i].prio <= p)
      BY <2>1
    <3>2. i \in DOMAIN pool /\ ~(i < m)
      BY <1>1, <1>8, <2>1, <3>1
    <3>3. i = m
      BY <1>4, <3>1, <3>2
    <3>. QED
      BY <1>1, <2>1, <3>1, <3>3
  <2>3. pool[m].prio <= pool[j].prio
    <3>1. CASE j = m
      BY <1>1, <2>1, <3>1
    <3>2. CASE m < j
      BY <2>1, <3>2 DEF PoolInv, Rising
    <3>. QED
      BY <1>1, <1>4, <1>9, <3>1, <3>2
  <2>. QED
    BY <1>1, <2>1, <2>2, <2>3
<1>. QED
  BY <1>4, <1>7, <1>8, <1>9

LEMMA PoolStart == PrioInit => PoolInv
BY PrioAssumption DEF PrioInit, PoolInv, Rising

\* A datum is put in behind its equals, and the others keep their places.
LEMMA PrioAdds ==
  ASSUME PoolInv, NEW p \in 0 .. MaxPrio, AddData(p)
  PROVE  /\ pool' \in Seq([prio : 0 .. MaxPrio, id : Nat]) /\ Len(pool') = Len(pool) + 1
         /\ PlaceOf(p) \in 1 .. Len(pool) + 1 /\ Len(pool) \in Nat
         /\ DOMAIN pool = 1 .. Len(pool) /\ DOMAIN pool' = 1 .. Len(pool) + 1
         /\ \A j \in DOMAIN pool' :
              \/ j < PlaceOf(p) /\ j \in DOMAIN pool /\ pool'[j] = pool[j]
              \/ j = PlaceOf(p) /\ pool'[j] = [prio |-> p, id |-> added + 1]
              \/ j > PlaceOf(p) /\ j - 1 \in DOMAIN pool /\ j - 1 >= PlaceOf(p) /\ pool'[j] = pool[j - 1]
<1>. DEFINE m == PlaceOf(p)
            d == [prio |-> p, id |-> added + 1]
            D == [prio : 0 .. MaxPrio, id : Nat]
<1>1. pool \in Seq(D) /\ d \in D
  BY DEF PoolInv
<1>2. Len(pool) \in Nat /\ DOMAIN pool = 1 .. Len(pool) /\ m \in 1 .. Len(pool) + 1
  BY <1>1, LenProperties, PlaceFits
<1>3. pool' = InsertAt(pool, m, d)
  BY DEF AddData
<1>. HIDE DEF m, d, D
<1>4. /\ pool' \in Seq(D) /\ Len(pool') = Len(pool) + 1
      /\ \A j \in 1 .. Len(pool) + 1 :
           pool'[j] = IF j < m THEN pool[j] ELSE IF j = m THEN d ELSE pool[j - 1]
  <2>1. /\ InsertAt(pool, m, d) \in Seq(D) /\ Len(InsertAt(pool, m, d)) = Len(pool) + 1
        /\ \A j \in 1 .. Len(pool) + 1 :
             InsertAt(pool, m, d)[j] = IF j < m THEN pool[j] ELSE IF j = m THEN d ELSE pool[j - 1]
    BY <1>1, <1>2, PutIn
  <2>. QED
    BY <1>3, <2>1
<1>5. DOMAIN pool' = 1 .. Len(pool) + 1
  BY <1>4, LenProperties
<1>6. ASSUME NEW j \in 1 .. Len(pool) + 1
      PROVE  \/ j < m /\ j \in DOMAIN pool /\ pool'[j] = pool[j]
             \/ j = m /\ pool'[j] = d
             \/ j > m /\ j - 1 \in DOMAIN pool /\ j - 1 >= m /\ pool'[j] = pool[j - 1]
  BY <1>2, <1>4
<1>. QED
  BY <1>2, <1>4, <1>5, <1>6 DEF m, d, D

LEMMA PrioPops ==
  ASSUME PoolInv, PopData
  PROVE  /\ pool' \in Seq([prio : 0 .. MaxPrio, id : Nat]) /\ Len(pool') = Len(pool) - 1
         /\ Len(pool) \in Nat /\ Len(pool') \in Nat
         /\ DOMAIN pool = 1 .. Len(pool) /\ DOMAIN pool' = 1 .. Len(pool')
         /\ \A j \in DOMAIN pool' :
              /\ j + 1 \in DOMAIN pool /\ pool'[j].id = pool[j + 1].id
              /\ pool'[j].prio = IF pool[j + 1].prio = 0 THEN 0 ELSE pool[j + 1].prio - 1
<1>. DEFINE D == [prio : 0 .. MaxPrio, id : Nat]
<1>1. pool \in Seq(D) /\ pool # <<>>
  BY DEF PoolInv, PopData
<1>2. /\ Tail(pool) \in Seq(D) /\ Len(Tail(pool)) = Len(pool) - 1
      /\ \A i \in 1 .. Len(Tail(pool)) : Tail(pool)[i] = pool[i + 1]
  BY <1>1, HeadTailProperties
<1>3. /\ Len(pool) \in Nat /\ DOMAIN pool = 1 .. Len(pool)
      /\ Len(Tail(pool)) \in Nat /\ DOMAIN Tail(pool) = 1 .. Len(Tail(pool))
      /\ \A i \in 1 .. Len(pool) : pool[i] \in D
  BY <1>1, <1>2, LenProperties, ElementOfSeq
<1>4. PICK n \in Nat : n = Len(Tail(pool))
  BY <1>3
<1>5. /\ DOMAIN pool' = 1 .. n /\ pool' = [i \in 1 .. n |-> pool'[i]]
      /\ \A i \in 1 .. n :
           pool'[i] = [Tail(pool)[i] EXCEPT !.prio = IF @ = 0 THEN 0 ELSE @ - 1]
  BY <1>3, <1>4 DEF PopData
<1>6. ASSUME NEW i \in 1 .. n
      PROVE  /\ i + 1 \in DOMAIN pool /\ pool'[i].id = pool[i + 1].id /\ pool'[i] \in D
             /\ pool'[i].prio = IF pool[i + 1].prio = 0 THEN 0 ELSE pool[i + 1].prio - 1
  <2>1. Tail(pool)[i] = pool[i + 1] /\ i + 1 \in 1 .. Len(pool)
    BY <1>2, <1>3, <1>4
  <2>2. pool'[i] = [pool[i + 1] EXCEPT !.prio = IF @ = 0 THEN 0 ELSE @ - 1] /\ pool[i + 1] \in D
    BY <1>3, <1>5, <2>1
  <2>. QED
    BY <1>3, <2>1, <2>2, PrioAssumption
<1>7. pool' \in Seq(D) /\ Len(pool') = n
  <2>. HIDE DEF D
  <2>1. pool' \in [1 .. n -> D]
    BY <1>5, <1>6
  <2>. QED
    BY <1>4, <2>1
<1>. QED
  <2>1. n = Len(pool) - 1
    BY <1>2, <1>4
  <2>. QED
    BY <1>3, <1>4, <1>5, <1>6, <1>7, <2>1

LEMMA PoolStep ==
  ASSUME PoolInv, PrioNext
  PROVE  PoolInv'
<1>0. \A j \in DOMAIN pool : pool[j].prio \in Int /\ pool[j].id \in Int /\ pool[j].prio >= 0
  <2>1. \A i \in DOMAIN pool : pool[i] \in [prio : 0 .. MaxPrio, id : Nat]
    <3>1. pool \in Seq([prio : 0 .. MaxPrio, id : Nat])
      BY DEF PoolInv
    <3>. QED
      BY <3>1, LenProperties, ElementOfSeq
  <2>. QED
    BY <2>1, PrioAssumption
<1>a. /\ \A i, j \in DOMAIN pool : i < j => pool[i].prio <= pool[j].prio
      /\ \A i \in DOMAIN pool : pool[i].id \in 1 .. added
      /\ \A i, j \in DOMAIN pool : pool[i].id = pool[j].id => i = j
  BY DEF PoolInv, Rising
<1>1. ASSUME NEW p \in 0 .. MaxPrio, AddData(p) PROVE PoolInv'
  <2>. DEFINE m == PlaceOf(p)
  <2>0. pool' \in Seq([prio : 0 .. MaxPrio, id : Nat])
    BY <1>1, PrioAdds
  <2>1. /\ Len(pool') = Len(pool) + 1
        /\ m \in 1 .. Len(pool) + 1 /\ Len(pool) \in Nat
        /\ DOMAIN pool = 1 .. Len(pool) /\ DOMAIN pool' = 1 .. Len(pool) + 1
        /\ \A j \in DOMAIN pool' :
             \/ j < m /\ j \in DOMAIN pool /\ pool'[j] = pool[j]
             \/ j = m /\ pool'[j] = [prio |-> p, id |-> added + 1]
             \/ j > m /\ j - 1 \in DOMAIN pool /\ j - 1 >= m /\ pool'[j] = pool[j - 1]
    BY <1>1, PrioAdds
  <2>2. /\ \A j \in DOMAIN pool : j < m => pool[j].prio <= p
        /\ \A j \in DOMAIN pool : j >= m => pool[j].prio > p
    BY PlaceFits
  <2>3. added < MaxData /\ added' = added + 1 /\ added \in Nat /\ Len(pool) <= added /\ p \in Int
        /\ m \in Int /\ MaxData \in Nat
    BY <1>1, <2>1, PrioAssumption DEF AddData, PoolInv
  <2>. HIDE DEF m
  <2>4. ASSUME NEW i \in DOMAIN pool', NEW j \in DOMAIN pool', i < j
        PROVE  pool'[i].prio <= pool'[j].prio /\ pool'[i].id # pool'[j].id
    <3>1. i \in Int /\ j \in Int
      BY <2>1
    <3>2. CASE j < m
      <4>1. i < m /\ i \in DOMAIN pool /\ j \in DOMAIN pool /\ pool'[i] = pool[i] /\ pool'[j] = pool[j] /\ i # j
        BY <2>1, <2>3, <2>4, <3>1, <3>2
      <4>. QED
        BY <1>a, <2>4, <4>1
    <3>3. CASE j = m
      <4>1. /\ i < m /\ i \in DOMAIN pool /\ pool'[i] = pool[i]
            /\ pool'[j].prio = p /\ pool'[j].id = added + 1
        BY <2>1, <2>3, <2>4, <3>1, <3>3
      <4>2. pool[i].prio <= p /\ pool[i].id \in 1 .. added
        BY <1>a, <2>2, <4>1
      <4>. QED
        BY <2>3, <4>1, <4>2
    <3>4. CASE j > m
      <4>1. j - 1 \in DOMAIN pool /\ j - 1 >= m /\ pool'[j] = pool[j - 1] /\ pool[j - 1].prio > p
            /\ pool[j - 1].id \in 1 .. added
        BY <1>a, <2>1, <2>2, <2>3, <3>1, <3>4
      <4>2. CASE i < m
        <5>1. i \in DOMAIN pool /\ pool'[i] = pool[i] /\ i < j - 1 /\ i # j - 1
          BY <2>1, <2>3, <3>1, <3>4, <4>2
        <5>. QED
          BY <1>a, <4>1, <5>1
      <4>3. CASE i = m
        <5>1. pool'[i].prio = p /\ pool'[i].id = added + 1
          BY <2>1, <2>3, <3>1, <4>3
        <5>. QED
          BY <1>0, <2>3, <4>1, <5>1
      <4>4. CASE i > m
        <5>1. i - 1 \in DOMAIN pool /\ pool'[i] = pool[i - 1] /\ i - 1 < j - 1 /\ i - 1 # j - 1
          BY <2>1, <2>3, <2>4, <3>1, <4>4
        <5>. QED
          BY <1>a, <4>1, <5>1
      <4>. QED
        BY <2>3, <3>1, <4>2, <4>3, <4>4
    <3>. QED
      BY <2>3, <3>1, <3>2, <3>3, <3>4
  <2>5. Rising(pool') /\ \A i, j \in DOMAIN pool' : pool'[i].id = pool'[j].id => i = j
    <3>1. ASSUME NEW i \in DOMAIN pool', NEW j \in DOMAIN pool', pool'[i].id = pool'[j].id
          PROVE  i = j
      <4>1. ~(i < j) /\ ~(j < i)
        BY <2>4, <3>1
      <4>. QED
        BY <2>1, <4>1
    <3>. QED
      BY <2>4, <3>1 DEF Rising
  <2>6. ASSUME NEW i \in DOMAIN pool' PROVE pool'[i].id \in 1 .. added'
    BY <1>a, <2>1, <2>3
  <2>. QED
    BY <2>0, <2>1, <2>3, <2>5, <2>6 DEF PoolInv, Rising
<1>2. CASE PopData
  <2>0. pool' \in Seq([prio : 0 .. MaxPrio, id : Nat])
    BY <1>2, PrioPops
  <2>1. /\ Len(pool') = Len(pool) - 1
        /\ Len(pool) \in Nat /\ Len(pool') \in Nat
        /\ DOMAIN pool = 1 .. Len(pool) /\ DOMAIN pool' = 1 .. Len(pool')
        /\ \A j \in DOMAIN pool' :
             /\ j + 1 \in DOMAIN pool /\ pool'[j].id = pool[j + 1].id
             /\ pool'[j].prio = IF pool[j + 1].prio = 0 THEN 0 ELSE pool[j + 1].prio - 1
    BY <1>2, PrioPops
  <2>2. added' = added /\ added \in Nat /\ added <= MaxData /\ Len(pool) <= added
    BY <1>2 DEF PopData, PoolInv
  <2>3. ASSUME NEW i \in DOMAIN pool', NEW j \in DOMAIN pool', i < j
        PROVE  pool'[i].prio <= pool'[j].prio /\ pool'[i].id # pool'[j].id
    <3>1. /\ i + 1 \in DOMAIN pool /\ j + 1 \in DOMAIN pool /\ i + 1 < j + 1 /\ i + 1 # j + 1
      BY <2>1, <2>3
    <3>2. pool[i + 1].prio <= pool[j + 1].prio /\ pool[i + 1].id # pool[j + 1].id
      BY <1>a, <3>1
    <3>3. /\ pool'[i].id = pool[i + 1].id /\ pool'[j].id = pool[j + 1].id
          /\ pool'[i].prio = IF pool[i + 1].prio = 0 THEN 0 ELSE pool[i + 1].prio - 1
          /\ pool'[j].prio = IF pool[j + 1].prio = 0 THEN 0 ELSE pool[j + 1].prio - 1
          /\ pool[i + 1].prio \in Int /\ pool[j + 1].prio \in Int /\ pool[i + 1].prio >= 0
      BY <1>0, <2>1, <3>1
    <3>. QED
      BY <3>2, <3>3
  <2>4. Rising(pool') /\ \A i, j \in DOMAIN pool' : pool'[i].id = pool'[j].id => i = j
    <3>1. ASSUME NEW i \in DOMAIN pool', NEW j \in DOMAIN pool', pool'[i].id = pool'[j].id
          PROVE  i = j
      <4>1. ~(i < j) /\ ~(j < i)
        BY <2>3, <3>1
      <4>. QED
        BY <2>1, <4>1
    <3>. QED
      BY <2>3, <3>1 DEF Rising
  <2>5. \A i \in DOMAIN pool' : pool'[i].id \in 1 .. added'
    BY <1>a, <2>1, <2>2
  <2>. QED
    BY <2>0, <2>1, <2>2, <2>4, <2>5 DEF PoolInv, Rising
<1>. QED
  BY <1>1, <1>2 DEF PrioNext

LEMMA PoolOrder ==
  ASSUME PoolInv, PrioNext
  PROVE  /\ \A i, j \in DOMAIN pool' : i < j => pool'[i].prio <= pool'[j].prio
         /\ \A i, j \in DOMAIN pool : \A a, b \in DOMAIN pool' :
              i < j /\ Ids(pool')[a] = Ids(pool)[i] /\ Ids(pool')[b] = Ids(pool)[j] => a < b
         /\ \A a, b \in DOMAIN pool' :
              pool'[a].id = added' /\ added' # added /\ a < b => pool'[a].prio < pool'[b].prio
<1>a. /\ \A i \in DOMAIN pool : pool[i].id \in 1 .. added
      /\ \A i, j \in DOMAIN pool : pool[i].id = pool[j].id => i = j
      /\ added \in Nat
  BY DEF PoolInv
<1>1. \A i, j \in DOMAIN pool' : i < j => pool'[i].prio <= pool'[j].prio
  BY PoolStep DEF PoolInv, Rising
<1>2. ASSUME NEW i \in DOMAIN pool, NEW j \in DOMAIN pool, NEW a \in DOMAIN pool', NEW b \in DOMAIN pool',
             i < j, Ids(pool')[a] = Ids(pool)[i], Ids(pool')[b] = Ids(pool)[j]
      PROVE  a < b
  <2>1. pool'[a].id = pool[i].id /\ pool'[b].id = pool[j].id
    BY <1>2 DEF Ids
  <2>2. ASSUME NEW p \in 0 .. MaxPrio, AddData(p) PROVE a < b
    <3>0. /\ PlaceOf(p) \in 1 .. Len(pool) + 1 /\ Len(pool) \in Nat
          /\ DOMAIN pool = 1 .. Len(pool) /\ DOMAIN pool' = 1 .. Len(pool) + 1
          /\ \A x \in DOMAIN pool' :
               \/ x < PlaceOf(p) /\ x \in DOMAIN pool /\ pool'[x] = pool[x]
               \/ x = PlaceOf(p) /\ pool'[x].id = added + 1
               \/ x > PlaceOf(p) /\ x - 1 \in DOMAIN pool /\ x - 1 >= PlaceOf(p) /\ pool'[x] = pool[x - 1]
      BY <2>2, PrioAdds
    <3>1. ASSUME NEW x \in DOMAIN pool', NEW y \in DOMAIN pool, pool'[x].id = pool[y].id
          PROVE  (x = y /\ x < PlaceOf(p)) \/ (x = y + 1 /\ y >= PlaceOf(p))
      <4>1. pool[y].id # added + 1 /\ x \in Int /\ y \in Int
        BY <1>a, <3>0
      <4>2. CASE x < PlaceOf(p) /\ x \in DOMAIN pool /\ pool'[x] = pool[x]
        <5>1. pool[x].id = pool[y].id
          BY <3>1, <4>2
        <5>2. x = y
          BY <1>a, <4>2, <5>1
        <5>. QED
          BY <4>2, <5>2
      <4>3. CASE x > PlaceOf(p) /\ x - 1 \in DOMAIN pool /\ x - 1 >= PlaceOf(p) /\ pool'[x] = pool[x - 1]
        <5>1. x - 1 = y
          BY <1>a, <3>1, <4>3
        <5>. QED
          BY <4>1, <4>3, <5>1
      <4>. QED
        BY <3>0, <3>1, <4>1, <4>2, <4>3
    <3>2. (a = i /\ a < PlaceOf(p)) \/ (a = i + 1 /\ i >= PlaceOf(p))
      BY <2>1, <3>1
    <3>3. (b = j /\ b < PlaceOf(p)) \/ (b = j + 1 /\ j >= PlaceOf(p))
      BY <2>1, <3>1
    <3>. QED
      BY <1>2, <2>2, <3>0, <3>2, <3>3
  <2>3. CASE PopData
    <3>1. /\ DOMAIN pool = 1 .. Len(pool) /\ DOMAIN pool' = 1 .. Len(pool')
          /\ \A x \in DOMAIN pool' : x + 1 \in DOMAIN pool /\ pool'[x].id = pool[x + 1].id
      BY <2>3, PrioPops
    <3>2. a + 1 = i /\ b + 1 = j
      BY <1>a, <2>1, <3>1
    <3>. QED
      BY <1>2, <3>1, <3>2
  <2>. QED
    BY <2>2, <2>3 DEF PrioNext
<1>3. ASSUME NEW a \in DOMAIN pool', NEW b \in DOMAIN pool',
             pool'[a].id = added', added' # added, a < b
      PROVE  pool'[a].prio < pool'[b].prio
  <2>1. PICK p \in 0 .. MaxPrio : AddData(p)
    BY <1>3 DEF PrioNext, PopData
  <2>2. added' = added + 1 /\ p \in Int
    BY <2>1 DEF AddData
  <2>0. /\ PlaceOf(p) \in 1 .. Len(pool) + 1 /\ Len(pool) \in Nat
        /\ DOMAIN pool = 1 .. Len(pool) /\ DOMAIN pool' = 1 .. Len(pool) + 1
        /\ \A x \in DOMAIN pool' :
             \/ x < PlaceOf(p) /\ x \in DOMAIN pool /\ pool'[x] = pool[x]
             \/ x = PlaceOf(p) /\ pool'[x] = [prio |-> p, id |-> added + 1]
             \/ x > PlaceOf(p) /\ x - 1 \in DOMAIN pool /\ x - 1 >= PlaceOf(p) /\ pool'[x] = pool[x - 1]
    BY <2>1, PrioAdds
  <2>3. a = PlaceOf(p) /\ pool'[a].prio = p
    BY <1>a, <1>3, <2>0, <2>2
  <2>4. b > PlaceOf(p)
    BY <1>3, <2>3
  <2>5. b - 1 \in DOMAIN pool /\ b - 1 >= PlaceOf(p) /\ pool'[b] = pool[b - 1]
    BY <2>0, <2>4
  <2>. QED
    BY <2>3, <2>5, PlaceFits
<1>. QED
  BY <1>1, <1>2, <1>3

\* What a datum has yet to rise is what its ripening is away.
Ripens ==
  /\ pops \in Nat /\ ripe \in Seq(Nat) /\ Len(ripe) = added
  /\ \A i \in DOMAIN pool : pool[i].prio = IF ripe[pool[i].id] > pops THEN ripe[pool[i].id] - pops ELSE 0

PrioInv == PoolInv /\ Ripens

LEMMA PrioStart == PrioInit => PrioInv
<1> SUFFICES ASSUME PrioInit PROVE PrioInv
  OBVIOUS
<1>1. PoolInv
  BY PoolStart
<1>2. Ripens
  BY DEF PrioInit, Ripens
<1>. QED
  BY <1>1, <1>2 DEF PrioInv

\* A new datum is noted with its own ripening, the others keep theirs.
LEMMA RipensAdded ==
  ASSUME PrioInv, NEW p \in 0 .. MaxPrio, AddData(p)
  PROVE  /\ Ripens'
         /\ ripe'[added'] = pops + p /\ pops' = pops /\ added' = added + 1
         /\ \A n \in 1 .. added : ripe'[n] = ripe[n]
<1>1. /\ p \in Nat /\ added \in Nat /\ pops \in Nat /\ ripe \in Seq(Nat) /\ Len(ripe) = added
      /\ added' = added + 1 /\ pops' = pops /\ ripe' = Append(ripe, pops + p)
  BY PrioAssumption DEF PrioInv, PoolInv, Ripens, AddData
<1>2. /\ ripe' \in Seq(Nat) /\ Len(ripe') = added + 1 /\ ripe'[added + 1] = pops + p
      /\ \A n \in 1 .. added : ripe'[n] = ripe[n]
  <2>1. PICK r \in Nat : r = pops + p
    BY <1>1
  <2>2. /\ Append(ripe, r) \in Seq(Nat) /\ Len(Append(ripe, r)) = Len(ripe) + 1
        /\ \A n \in 1 .. Len(ripe) : Append(ripe, r)[n] = ripe[n]
        /\ Append(ripe, r)[Len(ripe) + 1] = r
    BY <1>1, AppendProperties
  <2>. QED
    BY <1>1, <2>1, <2>2
<1>3. ASSUME NEW j \in DOMAIN pool'
      PROVE  pool'[j].prio = IF ripe'[pool'[j].id] > pops' THEN ripe'[pool'[j].id] - pops' ELSE 0
  <2>1. \/ j \in DOMAIN pool /\ pool'[j] = pool[j]
        \/ pool'[j].prio = p /\ pool'[j].id = added + 1
        \/ j - 1 \in DOMAIN pool /\ pool'[j] = pool[j - 1]
    <3>1. pool'[j] = [prio |-> p, id |-> added + 1] => pool'[j].prio = p /\ pool'[j].id = added + 1
      OBVIOUS
    <3>. QED
      BY <3>1, PrioAdds DEF PrioInv
  <2>2. ASSUME NEW i \in DOMAIN pool, pool'[j] = pool[i]
        PROVE  pool'[j].prio = IF ripe'[pool'[j].id] > pops' THEN ripe'[pool'[j].id] - pops' ELSE 0
    <3>1. pool[i].id \in 1 .. added
      BY DEF PrioInv, PoolInv
    <3>2. ripe'[pool[i].id] = ripe[pool[i].id]
      BY <1>2, <3>1
    <3>3. pool[i].prio = IF ripe[pool[i].id] > pops THEN ripe[pool[i].id] - pops ELSE 0
      BY DEF PrioInv, Ripens
    <3>. QED
      BY <1>1, <2>2, <3>2, <3>3
  <2>3. CASE pool'[j].prio = p /\ pool'[j].id = added + 1
    BY <1>1, <1>2, <2>3
  <2>. QED
    BY <2>1, <2>2, <2>3
<1>. QED
  BY <1>1, <1>2, <1>3 DEF Ripens

\* With a pop the others are one nearer to their ripening.
LEMMA RipensTaken ==
  ASSUME PrioInv, PopData
  PROVE  Ripens'
<1>1. /\ added \in Nat /\ pops \in Nat /\ ripe \in Seq(Nat) /\ Len(ripe) = added /\ DOMAIN ripe = 1 .. added
      /\ added' = added /\ pops' = pops + 1 /\ ripe' = [ripe EXCEPT ![Head(pool).id] = 0]
  BY LenProperties DEF PrioInv, PoolInv, Ripens, PopData, Taken
<1>2. /\ DOMAIN pool = 1 .. Len(pool) /\ Len(pool) \in Nat /\ 1 \in DOMAIN pool /\ Head(pool) = pool[1]
      /\ DOMAIN pool' = 1 .. Len(pool') /\ Len(pool') \in Nat
      /\ \A j \in DOMAIN pool' :
           /\ j + 1 \in DOMAIN pool /\ pool'[j].id = pool[j + 1].id
           /\ pool'[j].prio = IF pool[j + 1].prio = 0 THEN 0 ELSE pool[j + 1].prio - 1
  <2>1. /\ pool \in Seq([prio : 0 .. MaxPrio, id : Nat]) /\ pool # <<>>
    BY DEF PrioInv, PoolInv, PopData
  <2>2. Len(pool) \in Nat /\ Len(pool) # 0 /\ Head(pool) = pool[1]
    BY <2>1, EmptySeq, LenProperties
  <2>. QED
    BY <2>2, PrioPops DEF PrioInv
<1>3. ripe' \in Seq(Nat) /\ Len(ripe') = added
  <2>1. pool[1].id \in 1 .. added
    BY <1>2 DEF PrioInv, PoolInv
  <2>2. /\ [ripe EXCEPT ![pool[1].id] = 0] \in Seq(Nat)
        /\ Len([ripe EXCEPT ![pool[1].id] = 0]) = Len(ripe)
    BY <1>1, <2>1, ExceptSeq
  <2>. QED
    BY <1>1, <1>2, <2>2
<1>4. \A n \in 1 .. added : n # pool[1].id => ripe'[n] = ripe[n]
  BY <1>1, <1>2
<1>5. ASSUME NEW j \in DOMAIN pool'
      PROVE  pool'[j].prio = IF ripe'[pool'[j].id] > pops' THEN ripe'[pool'[j].id] - pops' ELSE 0
  <2>1. j + 1 \in DOMAIN pool /\ j + 1 # 1 /\ pool'[j].id = pool[j + 1].id
    BY <1>2
  <2>2. pool[j + 1].id \in 1 .. added /\ pool[j + 1].id # pool[1].id
    BY <1>2, <2>1 DEF PrioInv, PoolInv
  <2>3. PICK r \in Nat : r = ripe[pool[j + 1].id] /\ r = ripe'[pool'[j].id]
    BY <1>1, <1>4, <2>1, <2>2, ElementOfSeq
  <2>4. pool[j + 1].prio = IF r > pops THEN r - pops ELSE 0
    BY <2>1, <2>3 DEF PrioInv, Ripens
  <2>5. pool'[j].prio = IF pool[j + 1].prio = 0 THEN 0 ELSE pool[j + 1].prio - 1
    BY <1>2
  <2>. QED
    BY <1>1, <2>3, <2>4, <2>5
<1>. QED
  BY <1>1, <1>3, <1>5 DEF Ripens

LEMMA PrioStep ==
  ASSUME PrioInv, PrioNext
  PROVE  PrioInv'
<1>1. PoolInv'
  BY PoolStep DEF PrioInv
<1>2. Ripens'
  BY RipensAdded, RipensTaken DEF PrioNext
<1>. QED
  BY <1>1, <1>2 DEF PrioInv

\* What a new datum overtakes has more to rise than it has, and ripens later.
LEMMA PrioOrder ==
  ASSUME PrioInv, PrioNext
  PROVE  /\ \A i, j \in DOMAIN pool' : i < j => pool'[i].prio <= pool'[j].prio
         /\ \A i, j \in DOMAIN pool : \A a, b \in DOMAIN pool' :
              i < j /\ Ids(pool')[a] = Ids(pool)[i] /\ Ids(pool')[b] = Ids(pool)[j] => a < b
         /\ \A a, b \in DOMAIN pool' :
              pool'[a].id = added' /\ added' # added /\ a < b => ripe'[pool'[a].id] < ripe'[pool'[b].id]
<1>1. PoolInv
  BY DEF PrioInv
<1>2. ASSUME NEW a \in DOMAIN pool', NEW b \in DOMAIN pool', pool'[a].id = added', added' # added, a < b
      PROVE  ripe'[pool'[a].id] < ripe'[pool'[b].id]
  <2>1. PICK p \in 0 .. MaxPrio : AddData(p)
    BY <1>2 DEF PrioNext, PopData
  <2>2. ripe'[pool'[a].id] = pops + p /\ pops' = pops /\ pops \in Nat /\ p \in Nat
    BY <1>2, <2>1, RipensAdded, PrioAssumption DEF PrioInv, Ripens
  <2>3. PICK x, y : x = ripe'[pool'[a].id] /\ y = ripe'[pool'[b].id]
    OBVIOUS
  <2>4. PrioInv'
    BY PrioStep
  <2>5. /\ pool'[a].prio = IF x > pops' THEN x - pops' ELSE 0
        /\ pool'[b].prio = IF y > pops' THEN y - pops' ELSE 0
    BY <2>3, <2>4 DEF PrioInv, Ripens
  <2>6. y \in Nat
    <3>1. pool'[b].id \in 1 .. added' /\ ripe' \in Seq(Nat) /\ Len(ripe') = added'
      BY <2>4 DEF PrioInv, PoolInv, Ripens
    <3>. QED
      BY <2>3, <3>1, ElementOfSeq
  <2>7. pool'[a].prio < pool'[b].prio
    BY <1>1, <1>2, PoolOrder
  <2>. QED
    BY <2>2, <2>3, <2>5, <2>6, <2>7
<1>3. /\ \A i, j \in DOMAIN pool' : i < j => pool'[i].prio <= pool'[j].prio
      /\ \A i, j \in DOMAIN pool : \A a, b \in DOMAIN pool' :
           i < j /\ Ids(pool')[a] = Ids(pool)[i] /\ Ids(pool')[b] = Ids(pool)[j] => a < b
  BY <1>1, PoolOrder
<1>. QED
  BY <1>2, <1>3

LEMMA PrioTypes ==
  ASSUME PrioInv
  PROVE  PrioTypeOK
<1>1. pool \in Seq([prio : 0 .. MaxPrio, id : Nat])
  BY DEF PrioInv, PoolInv
<1>2. /\ Len(pool) \in Nat /\ pool \in [1 .. Len(pool) -> [prio : 0 .. MaxPrio, id : Nat]]
      /\ DOMAIN pool = 1 .. Len(pool)
  BY <1>1, LenProperties
<1>3. ASSUME NEW i \in 1 .. Len(pool) PROVE pool[i] \in Datum
  <2>1. pool[i].id \in 1 .. MaxData
    <3>1. added \in Nat /\ added <= MaxData /\ \A j \in DOMAIN pool : pool[j].id \in 1 .. added
      BY DEF PrioInv, PoolInv
    <3>2. pool[i].id \in 1 .. added
      BY <1>2, <3>1
    <3>. QED
      BY <3>1, <3>2, PrioAssumption
  <2>. QED
    BY <1>2, <2>1 DEF Datum
<1>4. pool \in Seq(Datum)
  <2>. HIDE DEF Datum
  <2>1. pool \in [1 .. Len(pool) -> Datum]
    BY <1>2, <1>3
  <2>2. PICK n \in Nat : n = Len(pool)
    BY <1>2
  <2>3. pool \in [1 .. n -> Datum]
    BY <2>1, <2>2
  <2>. QED
    BY <2>3
<1>5. Len(pool) <= MaxData /\ added \in 0 .. MaxData
  BY <1>2, PrioAssumption DEF PrioInv, PoolInv
<1>6. pops \in Nat /\ ripe \in Seq(Nat) /\ Len(ripe) = added
  BY DEF PrioInv, Ripens
<1>. QED
  BY <1>4, <1>5, <1>6 DEF PrioTypeOK

-----------------------------------------------------------------------------
(***************************************************************************)
(* process_data_and_wait()                                                 *)
(***************************************************************************)

SyncTypes ==
  /\ client \in [Clients -> {"out", "add", "wait", "leave", "destroy"}]
  /\ gate \in [Clients -> {"none", "blocked", "running"}]
  /\ queue \in Seq(Clients)
  /\ worker.does \in WorkerStates /\ worker.for \in SUBSET Clients
  /\ terminated \in BOOLEAN /\ discarding \in BOOLEAN
  /\ calls \in [Clients -> 0 .. MaxCalls]
  /\ worker = [does |-> worker.does, for |-> worker.for]
  /\ waiting \subseteq Clients /\ processed \subseteq Clients

\* The semaphore of a client is there while the client is in its call, closed
\* before the data are in the pool, and open before the call ends.
GateThere ==
  \A c \in Clients :
    /\ gate[c] = "none" <=> client[c] = "out"
    /\ client[c] = "add" => gate[c] = "blocked"
    /\ client[c] = "destroy" => gate[c] = "running"

Inside(c) == client[c] \in {"wait", "leave"} /\ gate[c] = "blocked"

\* The client of data that are in the pool, or with the worker that has not
\* opened its semaphore, is still before it; and the data are in one place.
BeforeTheGate ==
  /\ \A i \in DOMAIN queue : Inside(queue[i]) /\ queue[i] \notin worker.for
  /\ \A i, j \in DOMAIN queue : queue[i] = queue[j] => i = j
  /\ worker.does \in {"work", "open"} => \A c \in worker.for : Inside(c)

\* The worker that opens a semaphore holds its state_mutex.
WhileDraining ==
  /\ worker.does = "drain" =>
       \A c \in worker.for : client[c] \in {"wait", "leave", "destroy"} /\ gate[c] = "running"
  /\ worker.does \in {"test", "pop"} => worker.for = {}
  /\ \A c, d \in worker.for : c = d

Answered(c) == c \in processed \/ terminated

AnsweredFirst ==
  /\ \A c \in Clients : gate[c] = "running" => Answered(c)
  /\ worker.does = "open" => \A c \in worker.for : Answered(c)
  /\ \A c \in Clients : client[c] = "out" /\ calls[c] > 0 => Answered(c)
  /\ discarding => terminated

SyncInv == SyncTypes /\ GateThere /\ BeforeTheGate /\ WhileDraining /\ AnsweredFirst

LEMMA SyncStep ==
  ASSUME SyncInv, SyncNext
  PROVE  SyncInv'
<1>. USE SyncAssumption DEF SyncInv, SyncTypes, GateThere, BeforeTheGate, WhileDraining, AnsweredFirst,
             Inside, Answered, WorkerStates
<1>1. ASSUME NEW c \in Clients, Call(c) PROVE SyncInv'
  BY <1>1 DEF Call
<1>2. ASSUME NEW c \in Clients, SyncAdd(c) PROVE SyncInv'
  <2>1. /\ queue' = Append(queue, c) /\ queue' \in Seq(Clients)
        /\ DOMAIN queue' = DOMAIN queue \cup {Len(queue) + 1} /\ Len(queue) + 1 \notin DOMAIN queue
        /\ queue'[Len(queue) + 1] = c
        /\ \A i \in DOMAIN queue : queue'[i] = queue[i]
    BY <1>2, AppendProperties DEF SyncAdd
  <2>2. /\ client[c] = "add" /\ client' = [client EXCEPT ![c] = "wait"]
        /\ UNCHANGED <<gate, waiting, worker, processed, terminated, discarding, calls>>
    BY <1>2 DEF SyncAdd
  <2>3. SyncTypes' /\ GateThere' /\ AnsweredFirst' /\ WhileDraining'
    BY <2>1, <2>2
  <2>4. gate[c] = "blocked" /\ c \notin worker.for /\ \A i \in DOMAIN queue : queue[i] # c
    BY <2>2
  <2>5. BeforeTheGate'
    BY <2>1, <2>2, <2>4
  <2>. QED
    BY <2>3, <2>5
<1>3. ASSUME NEW c \in Clients, SyncWait(c) PROVE SyncInv'
  <2>1. PICK to \in {"leave", "destroy"} : client' = [client EXCEPT ![c] = to] /\ (to = "destroy" <=> gate[c] = "running")
    BY <1>3 DEF SyncWait
  <2>2. client[c] = "wait" /\ waiting' \subseteq waiting \cup {c} /\ UNCHANGED <<gate, queue, worker, processed, terminated, discarding, calls>>
    BY <1>3 DEF SyncWait
  <2>3. SyncTypes' /\ GateThere' /\ AnsweredFirst'
    BY <2>1, <2>2
  <2>4. WhileDraining'
    BY <2>1, <2>2
  <2>5. BeforeTheGate'
    BY <2>1, <2>2
  <2>. QED
    BY <2>3, <2>4, <2>5
<1>4. ASSUME NEW c \in Clients, SyncLeave(c) PROVE SyncInv'
  BY <1>4 DEF SyncLeave
<1>5. ASSUME NEW c \in Clients, SyncReturn(c) PROVE SyncInv'
  <2>1. c \notin worker.for
    <3>1. worker.does # "drain" \/ worker.for # {c}
      BY <1>5 DEF SyncReturn, StateLocked
    <3>. QED
      BY <1>5, <3>1 DEF SyncReturn
  <2>. QED
    BY <1>5, <2>1 DEF SyncReturn
<1>6. ASSUME SyncTest PROVE SyncInv'
  BY <1>6 DEF SyncTest, WorkerDoes
<1>7. ASSUME SyncPop PROVE SyncInv'
  <2>1. /\ queue # <<>> /\ queue' = Tail(queue) /\ queue' \in Seq(Clients)
        /\ 1 \in DOMAIN queue /\ Head(queue) = queue[1] /\ queue[1] \in Clients
        /\ \A i \in DOMAIN queue' : i + 1 \in DOMAIN queue /\ i + 1 # 1 /\ queue'[i] = queue[i + 1]
        /\ DOMAIN queue' \subseteq Nat
    BY <1>7, HeadTailProperties DEF SyncPop
  <2>2. worker' = [does |-> IF discarding THEN "open" ELSE "work", for |-> {queue[1]}]
    BY <1>7, <2>1 DEF SyncPop, WorkerDoes
  <2>. QED
    BY <1>7, <2>1, <2>2 DEF SyncPop
<1>8. ASSUME SyncSleep PROVE SyncInv'
  BY <1>8 DEF SyncSleep, WorkerDoes
<1>9. ASSUME SyncWork PROVE SyncInv'
  BY <1>9 DEF SyncWork, WorkerDoes
<1>10. ASSUME SyncOpen PROVE SyncInv'
  <2>1. /\ worker.does = "open" /\ worker' = [does |-> "drain", for |-> worker.for]
        /\ gate' \in [Clients -> {"none", "blocked", "running"}]
        /\ \A c \in worker.for : c \in Clients /\ gate'[c] = "running" /\ gate[c] = "blocked"
        /\ \A c \in Clients \ worker.for : gate'[c] = gate[c]
        /\ UNCHANGED <<client, waiting, queue, processed, terminated, discarding, calls>>
    BY <1>10 DEF SyncOpen, WorkerDoes
  <2>2. SyncTypes' /\ GateThere'
    BY <2>1
  <2>3. AnsweredFirst'
    BY <2>1
  <2>4. WhileDraining'
    BY <2>1
  <2>5. BeforeTheGate'
    BY <2>1
  <2>. QED
    BY <2>2, <2>3, <2>4, <2>5
<1>11. ASSUME SyncDrained PROVE SyncInv'
  BY <1>11 DEF SyncDrained, WorkerDoes
<1>12. ASSUME SyncTerminate PROVE SyncInv'
  BY <1>12 DEF SyncTerminate
<1>. QED
  BY ONLY <1>1, <1>2, <1>3, <1>4, <1>5, <1>6, <1>7, <1>8, <1>9, <1>10, <1>11, <1>12, SyncNext DEF SyncNext

LEMMA SyncStart == SyncInit => SyncInv
<1> SUFFICES ASSUME SyncInit PROVE SyncInv
  OBVIOUS
<1>1. queue = <<>> /\ queue \in Seq(Clients) /\ DOMAIN queue = {}
  BY EmptySeq DEF SyncInit
<1>2. worker.does = "test" /\ worker.for = {}
  BY DEF SyncInit
<1>3. SyncTypes /\ GateThere
  <2>1. /\ client = [c \in Clients |-> "out"] /\ gate = [c \in Clients |-> "none"]
        /\ calls = [c \in Clients |-> 0] /\ worker = [does |-> "test", for |-> {}]
        /\ waiting = {} /\ processed = {}
    BY DEF SyncInit
  <2>2. terminated \in BOOLEAN /\ discarding \in BOOLEAN
    BY Zenon DEF SyncInit
  <2>. QED
    BY <1>1, <1>2, <2>1, <2>2, SyncAssumption DEF SyncTypes, GateThere, WorkerStates
<1>4. BeforeTheGate /\ WhileDraining
  BY <1>1, <1>2 DEF BeforeTheGate, WhileDraining
<1>5. AnsweredFirst
  BY <1>2 DEF SyncInit, AnsweredFirst
<1>. QED
  BY <1>3, <1>4, <1>5 DEF SyncInv

LEMMA SyncAnswers ==
  ASSUME SyncInv
  PROVE  SyncTypeOK /\ AnswerBeforeReturn
<1>1. worker.does \in WorkerStates
  BY DEF SyncInv, SyncTypes
<1>2. Cardinality(worker.for) <= 1
  <2>1. worker.for = {} \/ \E c : worker.for = {c}
    BY DEF SyncInv, WhileDraining
  <2>2. Cardinality(worker.for) \in {0, 1}
    BY <2>1, FS_EmptySet, FS_Singleton
  <2>. QED
    BY <2>2
<1>3. \A i \in DOMAIN queue : queue[i] \in Clients
  BY LenProperties, ElementOfSeq DEF SyncInv, SyncTypes
<1>4. SyncTypeOK
  BY <1>2, <1>3 DEF SyncTypeOK, SyncInv, SyncTypes
<1>. QED
  BY <1>1, <1>4 DEF AnswerBeforeReturn, SyncInv, SyncTypes, GateThere, BeforeTheGate, WhileDraining,
              AnsweredFirst, Inside, Answered, WorkerStates

-----------------------------------------------------------------------------
(***************************************************************************)
(* raii_boolstatus and Dtor_call                                           *)
(***************************************************************************)

\* The assignments under way that will count up the counter of the group g.
CountingUp(g) == {a \in assigning : group[a.to] = g}

\* An assignment is one of a handle in the group it still has to count up, and
\* a handle has one at most.
AssigningApart ==
  /\ assigning \subseteq [to : Handlers, from : Groups]
  /\ \A a \in assigning : group[a.to] = a.from
  /\ \A a, b \in assigning : a.to = b.to => a = b
  /\ IsFiniteSet(assigning)

StatusCounts ==
  \A g \in Groups : Members(g) # {} =>
    counter[g] = Cardinality(Members(g)) - 1 - Cardinality(CountingUp(g))

StatusInv ==
  /\ group \in [Handlers -> Groups \cup {NoHandle}]
  /\ counter \in [Groups -> Int]
  /\ AssigningApart /\ StatusCounts

\* An action is armed as long as one Dtor_call has it.
CallInv ==
  /\ call \in [Handlers -> Actions \cup {NoHandle}]
  /\ outcome \in [Actions -> {"unused", "armed", "run", "discarded", "twice"}]
  /\ \A a \in Actions : outcome[a] = "armed" <=> \E h \in Handlers : call[h] = a
  /\ \A a \in Actions : outcome[a] # "twice"
  /\ \A h, i \in Handlers : call[h] = call[i] /\ call[h] # NoHandle => h = i

\* A counter that nobody shares has been counted down once at most.
Abandoned == \A g \in Groups : Members(g) = {} => counter[g] \in {-1, 0}

HandleInv == StatusInv /\ CallInv /\ Abandoned

\* A set with one element more, and with one less.
LEMMA OneMore ==
  ASSUME NEW S, IsFiniteSet(S), NEW x, x \notin S
  PROVE  Cardinality(S \cup {x}) = Cardinality(S) + 1 /\ IsFiniteSet(S \cup {x})
BY FS_AddElement

LEMMA OneLess ==
  ASSUME NEW S, IsFiniteSet(S), NEW x \in S
  PROVE  Cardinality(S \ {x}) = Cardinality(S) - 1 /\ IsFiniteSet(S \ {x})
BY FS_RemoveElement

LEMMA StatusFinite ==
  ASSUME StatusInv
  PROVE  \A g : /\ IsFiniteSet(Members(g)) /\ Cardinality(Members(g)) \in Nat
                /\ IsFiniteSet(CountingUp(g)) /\ Cardinality(CountingUp(g)) \in Nat
<1> TAKE g
<1>1. Members(g) \in SUBSET Handlers /\ CountingUp(g) \in SUBSET assigning
  BY DEF Members, CountingUp
<1>. QED
  BY <1>1, HandleAssumption, FS_Subset, FS_CardinalityType DEF StatusInv, AssigningApart

\* A handle that no assignment is about changes over to x.
LEMMA ChangesOver ==
  ASSUME StatusInv, NEW h \in Handlers, ~Busy(h), NEW x \in Groups \cup {NoHandle},
         group' = [group EXCEPT ![h] = x], UNCHANGED assigning
  PROVE  /\ AssigningApart'
         /\ \A g \in Groups :
              /\ CountingUp(g)' = CountingUp(g)
              /\ Members(g)' = IF g = x THEN Members(g) \cup {h} ELSE Members(g) \ {h}
<1>1. /\ group'[h] = x /\ \A i \in Handlers \ {h} : group'[i] = group[i]
      /\ \A a \in assigning : a.to \in Handlers \ {h}
  BY DEF StatusInv, AssigningApart, Busy
<1>2. AssigningApart'
  BY <1>1 DEF StatusInv, AssigningApart
<1>3. ASSUME NEW g \in Groups
      PROVE  /\ CountingUp(g)' = CountingUp(g)
             /\ Members(g)' = IF g = x THEN Members(g) \cup {h} ELSE Members(g) \ {h}
  BY <1>1 DEF CountingUp, Members
<1>. QED
  BY <1>2, <1>3

LEMMA StatusStep ==
  ASSUME StatusInv,
         \/ \E h \in Handlers : NewStatus(h) \/ EndStatus(h) \/ ResetStatus(h)
         \/ \E h, r \in Handlers : CopyStatus(h, r) \/ AssignStatus(h, r)
         \/ \E a \in assigning : CountUp(a)
  PROVE  StatusInv'
<1>0. /\ group \in [Handlers -> Groups \cup {NoHandle}] /\ counter \in [Groups -> Int]
      /\ AssigningApart /\ StatusCounts /\ NoHandle \notin Groups
  BY HandleAssumption DEF StatusInv
<1>1. \A h \in Handlers : group[h] = NoHandle => ~Busy(h)
  BY <1>0 DEF Busy, AssigningApart
<1>2. ASSUME NEW g \in Groups, Members(g) = {}, ~\E a \in assigning : a.from = g
      PROVE  CountingUp(g) = {}
  BY <1>0, <1>2 DEF AssigningApart, CountingUp
<1>3. ASSUME NEW h \in Handlers, NEW g \in Groups, ~Busy(h), group[h] # g,
             Members(g) = {}, ~\E a \in assigning : a.from = g,
             group' = [group EXCEPT ![h] = g], UNCHANGED assigning,
             counter' \in [Groups -> Int], counter'[g] = 0,
             \A i \in Groups \ {g} :
               counter'[i] = IF i = group[h] THEN counter[i] - 1 ELSE counter[i]
      PROVE  StatusInv'
  <2>1. /\ AssigningApart'
        /\ \A i \in Groups :
             /\ CountingUp(i)' = CountingUp(i)
             /\ Members(i)' = IF i = g THEN Members(i) \cup {h} ELSE Members(i) \ {h}
    BY <1>3, ChangesOver
  <2>2. ASSUME NEW i \in Groups, Members(i)' # {}
        PROVE  counter'[i] = Cardinality(Members(i)') - 1 - Cardinality(CountingUp(i)')
    <3>1. CASE i = g
      <4>1. Members(i)' = {h} /\ CountingUp(i)' = {}
        BY <1>2, <1>3, <2>1, <3>1
      <4>2. Cardinality({h}) = 1 /\ Cardinality({}) = 0
        BY FS_Singleton, FS_EmptySet
      <4>. QED
        BY <1>3, <3>1, <4>1, <4>2
    <3>2. CASE i # g /\ i = group[h]
      <4>1. h \in Members(i) /\ Members(i)' = Members(i) \ {h} /\ CountingUp(i)' = CountingUp(i)
        BY <2>1, <3>2 DEF Members
      <4>2. Cardinality(Members(i)') = Cardinality(Members(i)) - 1
        BY <4>1, StatusFinite, OneLess
      <4>3. counter[i] = Cardinality(Members(i)) - 1 - Cardinality(CountingUp(i))
        BY <1>0, <4>1 DEF StatusCounts
      <4>. QED
        BY <1>3, <3>2, <4>1, <4>2, <4>3, StatusFinite
    <3>3. CASE i # g /\ i # group[h]
      <4>1. Members(i)' = Members(i) /\ CountingUp(i)' = CountingUp(i)
        BY <2>1, <3>3 DEF Members
      <4>. QED
        BY <1>0, <1>3, <2>2, <3>3, <4>1 DEF StatusCounts
    <3>. QED
      BY <3>1, <3>2, <3>3
  <2>. QED
    BY <1>0, <1>3, <2>1, <2>2 DEF StatusInv, StatusCounts
<1>4. ASSUME NEW h \in Handlers, NewStatus(h) PROVE StatusInv'
  <2>1. PICK g \in Groups : /\ Members(g) = {} /\ ~\E a \in assigning : a.from = g
                            /\ group' = [group EXCEPT ![h] = g]
                            /\ counter' = [counter EXCEPT ![g] = 0]
    BY <1>4 DEF NewStatus
  <2>2. UNCHANGED assigning /\ group[h] = NoHandle
    BY <1>4 DEF NewStatus
  <2>3. /\ ~Busy(h) /\ group[h] # g /\ counter' \in [Groups -> Int] /\ counter'[g] = 0
        /\ \A i \in Groups \ {g} :
             counter'[i] = IF i = group[h] THEN counter[i] - 1 ELSE counter[i]
    BY <1>0, <1>1, <2>1, <2>2
  <2>. QED
    BY <1>3, <2>1, <2>2, <2>3
<1>5. ASSUME NEW h \in Handlers, ResetStatus(h) PROVE StatusInv'
  <2>1. PICK g \in Groups : /\ Members(g) = {} /\ ~\E a \in assigning : a.from = g
                            /\ group' = [group EXCEPT ![h] = g]
                            /\ counter' = [counter EXCEPT ![group[h]] = @ - 1, ![g] = 0]
    BY <1>5 DEF ResetStatus
  <2>2. UNCHANGED assigning /\ group[h] # NoHandle /\ ~Busy(h) /\ group[h] # g
    BY <1>5, <2>1 DEF ResetStatus, Members
  <2>3. /\ group[h] \in Groups /\ counter' \in [Groups -> Int] /\ counter'[g] = 0
        /\ \A i \in Groups \ {g} :
             counter'[i] = IF i = group[h] THEN counter[i] - 1 ELSE counter[i]
    BY <1>0, <2>1, <2>2
  <2>. QED
    BY <1>3, <2>1, <2>2, <2>3
<1>6. ASSUME NEW h \in Handlers, EndStatus(h) PROVE StatusInv'
  <2>1. /\ group[h] \in Groups /\ ~Busy(h) /\ UNCHANGED assigning
        /\ group' = [group EXCEPT ![h] = NoHandle]
        /\ counter' = [counter EXCEPT ![group[h]] = @ - 1]
    BY <1>0, <1>6 DEF EndStatus
  <2>2. /\ AssigningApart'
        /\ \A i \in Groups : CountingUp(i)' = CountingUp(i) /\ Members(i)' = Members(i) \ {h}
    BY <1>0, <2>1, ChangesOver
  <2>3. ASSUME NEW i \in Groups, Members(i)' # {}
        PROVE  counter'[i] = Cardinality(Members(i)') - 1 - Cardinality(CountingUp(i)')
    <3>1. CASE i = group[h]
      <4>1. h \in Members(i) /\ Members(i)' = Members(i) \ {h} /\ CountingUp(i)' = CountingUp(i)
        BY <2>2, <3>1 DEF Members
      <4>2. Cardinality(Members(i)') = Cardinality(Members(i)) - 1
        BY <4>1, StatusFinite, OneLess
      <4>3. counter[i] = Cardinality(Members(i)) - 1 - Cardinality(CountingUp(i))
        BY <1>0, <4>1 DEF StatusCounts
      <4>. QED
        BY <1>0, <2>1, <3>1, <4>1, <4>2, <4>3, StatusFinite
    <3>2. CASE i # group[h]
      <4>1. Members(i)' = Members(i) /\ CountingUp(i)' = CountingUp(i) /\ counter'[i] = counter[i]
        BY <1>0, <2>1, <2>2, <3>2 DEF Members
      <4>. QED
        BY <1>0, <2>3, <4>1 DEF StatusCounts
    <3>. QED
      BY <3>1, <3>2
  <2>. QED
    BY <1>0, <2>1, <2>2, <2>3 DEF StatusInv, StatusCounts
<1>7. ASSUME NEW h \in Handlers, NEW r \in Handlers, CopyStatus(h, r) PROVE StatusInv'
  <2>1. /\ group[h] = NoHandle /\ group[r] \in Groups /\ UNCHANGED assigning
        /\ group' = [group EXCEPT ![h] = group[r]]
        /\ counter' = [counter EXCEPT ![group[r]] = @ + 1]
    BY <1>0, <1>7 DEF CopyStatus
  <2>2. /\ AssigningApart'
        /\ \A i \in Groups :
             /\ CountingUp(i)' = CountingUp(i)
             /\ Members(i)' = IF i = group[r] THEN Members(i) \cup {h} ELSE Members(i) \ {h}
    BY <1>0, <1>1, <2>1, ChangesOver
  <2>3. ASSUME NEW i \in Groups, Members(i)' # {}
        PROVE  counter'[i] = Cardinality(Members(i)') - 1 - Cardinality(CountingUp(i)')
    <3>1. h \notin Members(i)
      BY <1>0, <2>1 DEF Members
    <3>2. CASE i = group[r]
      <4>1. Members(i)' = Members(i) \cup {h} /\ Members(i) # {}
        BY <2>2, <3>2 DEF Members
      <4>2. Cardinality(Members(i)') = Cardinality(Members(i)) + 1
        BY <3>1, <4>1, StatusFinite, OneMore
      <4>3. counter[i] = Cardinality(Members(i)) - 1 - Cardinality(CountingUp(i))
        BY <1>0, <4>1 DEF StatusCounts
      <4>. QED
        BY <1>0, <2>1, <2>2, <3>2, <4>2, <4>3, StatusFinite
    <3>3. CASE i # group[r]
      <4>1. Members(i)' = Members(i) /\ CountingUp(i)' = CountingUp(i) /\ counter'[i] = counter[i]
        BY <1>0, <2>1, <2>2, <3>1, <3>3
      <4>. QED
        BY <1>0, <2>3, <4>1 DEF StatusCounts
    <3>. QED
      BY <3>2, <3>3
  <2>. QED
    BY <1>0, <2>1, <2>2, <2>3 DEF StatusInv, StatusCounts
<1>8. ASSUME NEW h \in Handlers, NEW r \in Handlers, AssignStatus(h, r) PROVE StatusInv'
  <2>. DEFINE n == [to |-> h, from |-> group[r]]
  <2>1. /\ group[h] \in Groups /\ group[r] \in Groups /\ ~Busy(h) /\ ~Busy(r)
        /\ group' = [group EXCEPT ![h] = group[r]]
        /\ counter' = [counter EXCEPT ![group[h]] = @ - 1]
        /\ assigning' = assigning \cup {n}
    BY <1>0, <1>8 DEF AssignStatus
  <2>2. /\ n.to = h /\ n.from = group[r] /\ n \notin assigning /\ n \in [to : Handlers, from : Groups]
        /\ group'[h] = group[r] /\ \A i \in Handlers \ {h} : group'[i] = group[i]
        /\ \A a \in assigning : a.to \in Handlers \ {h}
    BY <1>0, <2>1 DEF AssigningApart, Busy
  <2>. HIDE DEF n
  <2>3. AssigningApart'
    <3>1. IsFiniteSet(assigning \cup {n})
      BY <1>0, FS_AddElement DEF AssigningApart
    <3>. QED
      BY <1>0, <2>1, <2>2, <3>1 DEF AssigningApart
  <2>4. ASSUME NEW i \in Groups, Members(i)' # {}
        PROVE  counter'[i] = Cardinality(Members(i)') - 1 - Cardinality(CountingUp(i)')
    <3>1. /\ Members(i)' = IF i = group[r] THEN Members(i) \cup {h} ELSE Members(i) \ {h}
          /\ CountingUp(i)' = IF i = group[r] THEN CountingUp(i) \cup {n} ELSE CountingUp(i)
          /\ n \notin CountingUp(i) /\ (h \in Members(i) <=> i = group[h])
      BY <2>1, <2>2 DEF Members, CountingUp
    <3>2. Members(i) # {} /\ counter[i] = Cardinality(Members(i)) - 1 - Cardinality(CountingUp(i))
      <4>1. i = group[r] => r \in Members(i)
        BY DEF Members
      <4>2. Members(i) # {}
        BY <2>4, <3>1, <4>1
      <4>. QED
        BY <1>0, <4>2 DEF StatusCounts
    <3>3. /\ Cardinality(CountingUp(i)') =
               IF i = group[r] THEN Cardinality(CountingUp(i)) + 1 ELSE Cardinality(CountingUp(i))
          /\ counter'[i] = IF i = group[h] THEN counter[i] - 1 ELSE counter[i]
      BY <1>0, <2>1, <3>1, StatusFinite, OneMore
    <3>4. Cardinality(Members(i)') =
            IF i = group[h] /\ i # group[r] THEN Cardinality(Members(i)) - 1
            ELSE IF i = group[r] /\ i # group[h] THEN Cardinality(Members(i)) + 1
            ELSE Cardinality(Members(i))
      <4>1. CASE i = group[h] /\ i # group[r]
        BY <3>1, <4>1, StatusFinite, OneLess
      <4>2. CASE i = group[r] /\ i # group[h]
        BY <3>1, <4>2, StatusFinite, OneMore
      <4>3. CASE (i = group[h]) = (i = group[r])
        <5>1. Members(i)' = Members(i)
          BY <3>1, <4>3
        <5>. QED
          BY <4>3, <5>1
      <4>. QED
        BY <4>1, <4>2, <4>3
    <3>. QED
      BY <1>0, <3>2, <3>3, <3>4, StatusFinite
  <2>. QED
    BY <1>0, <2>1, <2>3, <2>4 DEF StatusInv, StatusCounts
<1>9. ASSUME NEW a \in assigning, CountUp(a) PROVE StatusInv'
  <2>1. /\ a.to \in Handlers /\ group[a.to] \in Groups /\ UNCHANGED group
        /\ counter' = [counter EXCEPT ![group[a.to]] = @ + 1]
        /\ assigning' = assigning \ {a}
    BY <1>0, <1>9 DEF CountUp, AssigningApart
  <2>2. AssigningApart'
    <3>1. IsFiniteSet(assigning \ {a})
      BY <1>0, FS_RemoveElement DEF AssigningApart
    <3>. QED
      BY <1>0, <2>1, <3>1 DEF AssigningApart
  <2>3. ASSUME NEW i \in Groups, Members(i)' # {}
        PROVE  counter'[i] = Cardinality(Members(i)') - 1 - Cardinality(CountingUp(i)')
    <3>1. /\ Members(i)' = Members(i)
          /\ CountingUp(i)' = IF i = group[a.to] THEN CountingUp(i) \ {a} ELSE CountingUp(i)
          /\ i = group[a.to] => a \in CountingUp(i)
      BY <2>1 DEF Members, CountingUp
    <3>2. counter[i] = Cardinality(Members(i)) - 1 - Cardinality(CountingUp(i))
      BY <1>0, <2>3, <3>1 DEF StatusCounts
    <3>3. /\ Cardinality(CountingUp(i)') =
               IF i = group[a.to] THEN Cardinality(CountingUp(i)) - 1 ELSE Cardinality(CountingUp(i))
          /\ counter'[i] = IF i = group[a.to] THEN counter[i] + 1 ELSE counter[i]
      BY <1>0, <2>1, <3>1, StatusFinite, OneLess
    <3>. QED
      BY <1>0, <3>1, <3>2, <3>3, StatusFinite
  <2>. QED
    BY <1>0, <2>1, <2>2, <2>3 DEF StatusInv, StatusCounts
<1>. QED
  BY <1>4, <1>5, <1>6, <1>7, <1>8, <1>9

\* The last one that leaves a counter is not being assigned.
LEMMA AbandonStep ==
  ASSUME StatusInv, Abandoned,
         \/ \E h \in Handlers : NewStatus(h) \/ EndStatus(h) \/ ResetStatus(h)
         \/ \E h, r \in Handlers : CopyStatus(h, r) \/ AssignStatus(h, r)
         \/ \E a \in assigning : CountUp(a)
  PROVE  Abandoned'
<1>0. /\ group \in [Handlers -> Groups \cup {NoHandle}] /\ counter \in [Groups -> Int]
      /\ AssigningApart /\ StatusCounts /\ NoHandle \notin Groups
  BY HandleAssumption DEF StatusInv
\* One handle leaves its counter, perhaps for another one.
<1>1. ASSUME NEW h \in Handlers, NEW x, ~Busy(h), group[h] \in Groups,
             group' = [group EXCEPT ![h] = x], counter'[group[h]] = counter[group[h]] - 1,
             \A i \in Groups : i # x /\ i # group[h] => counter'[i] = counter[i]
      PROVE  Abandoned'
  <2>1. ASSUME NEW i \in Groups, Members(i)' = {} PROVE counter'[i] \in {-1, 0}
    <3>1. i # x /\ \A m \in Members(i) : m = h
      BY <1>0, <1>1, <2>1 DEF Members
    <3>2. CASE i = group[h]
      <4>1. Members(i) = {h} /\ CountingUp(i) = {}
        <5>1. h \in Members(i)
          BY <3>2 DEF Members
        <5>2. \A a \in assigning : group[a.to] = i => a.to = h
          BY <1>0, <3>1 DEF AssigningApart, Members
        <5>. QED
          BY <1>1, <3>1, <5>1, <5>2 DEF Busy, CountingUp
      <4>2. Cardinality({h}) = 1 /\ Cardinality({}) = 0
        BY FS_Singleton, FS_EmptySet
      <4>3. counter[i] = Cardinality(Members(i)) - 1 - Cardinality(CountingUp(i))
        BY <1>0, <4>1 DEF StatusCounts
      <4>. QED
        BY <1>1, <3>2, <4>1, <4>2, <4>3
    <3>3. CASE i # group[h]
      <4>1. Members(i) = {}
        BY <3>1, <3>3 DEF Members
      <4>. QED
        BY <1>1, <3>1, <3>3, <4>1 DEF Abandoned
    <3>. QED
      BY <3>2, <3>3
  <2>. QED
    BY <2>1 DEF Abandoned
\* Nobody leaves a counter, and only those that somebody shares are changed.
<1>2. ASSUME \A i \in Groups : Members(i)' = {} => Members(i) = {} /\ counter'[i] = counter[i]
      PROVE  Abandoned'
  BY <1>2 DEF Abandoned
<1>3. ASSUME NEW h \in Handlers, NewStatus(h) PROVE Abandoned'
  <2>1. PICK g \in Groups : /\ group' = [group EXCEPT ![h] = g] /\ counter' = [counter EXCEPT ![g] = 0]
                            /\ group[h] = NoHandle
    BY <1>3 DEF NewStatus
  <2>2. ASSUME NEW i \in Groups, Members(i)' = {} PROVE Members(i) = {} /\ counter'[i] = counter[i]
    BY <1>0, <2>1, <2>2 DEF Members
  <2>. QED
    BY <1>2, <2>2
<1>4. ASSUME NEW h \in Handlers, ResetStatus(h) PROVE Abandoned'
  <2>1. PICK g \in Groups : /\ Members(g) = {} /\ group' = [group EXCEPT ![h] = g]
                            /\ counter' = [counter EXCEPT ![group[h]] = @ - 1, ![g] = 0]
    BY <1>4 DEF ResetStatus
  <2>2. group[h] \in Groups /\ ~Busy(h) /\ group[h] # g
    BY <1>0, <1>4, <2>1 DEF ResetStatus, Members
  <2>. QED
    BY <1>0, <1>1, <2>1, <2>2
<1>5. ASSUME NEW h \in Handlers, EndStatus(h) PROVE Abandoned'
  <2>1. /\ group[h] \in Groups /\ ~Busy(h) /\ group' = [group EXCEPT ![h] = NoHandle]
        /\ counter' = [counter EXCEPT ![group[h]] = @ - 1]
    BY <1>0, <1>5 DEF EndStatus
  <2>. QED
    BY <1>0, <1>1, <2>1
<1>6. ASSUME NEW h \in Handlers, NEW r \in Handlers, CopyStatus(h, r) PROVE Abandoned'
  <2>1. /\ group' = [group EXCEPT ![h] = group[r]] /\ group[h] = NoHandle
        /\ counter' = [counter EXCEPT ![group[r]] = @ + 1]
    BY <1>6 DEF CopyStatus
  <2>2. ASSUME NEW i \in Groups, Members(i)' = {} PROVE Members(i) = {} /\ counter'[i] = counter[i]
    BY <1>0, <2>1, <2>2 DEF Members
  <2>. QED
    BY <1>2, <2>2
<1>7. ASSUME NEW h \in Handlers, NEW r \in Handlers, AssignStatus(h, r) PROVE Abandoned'
  <2>1. /\ group[h] \in Groups /\ ~Busy(h) /\ group' = [group EXCEPT ![h] = group[r]]
        /\ counter' = [counter EXCEPT ![group[h]] = @ - 1]
    BY <1>0, <1>7 DEF AssignStatus
  <2>. QED
    BY <1>0, <1>1, <2>1
<1>8. ASSUME NEW a \in assigning, CountUp(a) PROVE Abandoned'
  <2>1. /\ UNCHANGED group /\ a.to \in Handlers /\ counter' = [counter EXCEPT ![group[a.to]] = @ + 1]
    BY <1>0, <1>8 DEF CountUp, AssigningApart
  <2>2. ASSUME NEW i \in Groups, Members(i)' = {} PROVE Members(i) = {} /\ counter'[i] = counter[i]
    BY <1>0, <2>1, <2>2 DEF Members
  <2>. QED
    BY <1>2, <2>2
<1>. QED
  BY <1>3, <1>4, <1>5, <1>6, <1>7, <1>8

\* The actions move from one Dtor_call to another, or their outcome is settled.
LEMMA CallStep ==
  ASSUME CallInv,
         \/ \E h \in Handlers : CallitNow(h) \/ Discard(h)
         \/ \E h, r \in Handlers : MoveCall(h, r)
         \/ \E h \in Handlers, a \in Actions : CreateDtorCall(h, a)
  PROVE  CallInv'
<1>0. /\ call \in [Handlers -> Actions \cup {NoHandle}]
      /\ outcome \in [Actions -> {"unused", "armed", "run", "discarded", "twice"}]
      /\ \A a \in Actions : outcome[a] = "armed" <=> \E h \in Handlers : call[h] = a
      /\ \A a \in Actions : outcome[a] # "twice"
      /\ \A h, i \in Handlers : call[h] = call[i] /\ call[h] # NoHandle => h = i
      /\ NoHandle \notin Actions
  BY HandleAssumption DEF CallInv
<1>1. \A h \in Handlers : Of(h) = IF call[h] = NoHandle THEN {} ELSE {call[h]}
  BY <1>0 DEF Of
\* One Dtor_call lets go of what it has, which is settled.
<1>2. ASSUME NEW h \in Handlers, call[h] # NoHandle, call' = [call EXCEPT ![h] = NoHandle],
             outcome' = Ran(outcome, Of(h)) \/ outcome' = Dropped(outcome, Of(h))
      PROVE  CallInv'
  <2>1. PICK how \in {"run", "discarded"} : outcome' = [outcome EXCEPT ![call[h]] = how]
    BY <1>0, <1>1, <1>2 DEF Ran, Dropped
  <2>. QED
    BY <1>0, <1>2, <2>1 DEF CallInv
\* What the one has, the other takes over, or nobody does.
<1>3. ASSUME NEW h \in Handlers, NEW r \in Handlers, h # r, call[h] = NoHandle,
             call' = [call EXCEPT ![h] = call[r], ![r] = NoHandle], outcome' = outcome
      PROVE  CallInv'
  BY <1>0, <1>3 DEF CallInv
<1>4. ASSUME NEW h \in Handlers, NEW a \in Actions, CreateDtorCall(h, a) PROVE CallInv'
  BY <1>0, <1>4 DEF CallInv, CreateDtorCall
<1>5. ASSUME NEW h \in Handlers, CallitNow(h) \/ Discard(h) PROVE CallInv'
  BY <1>1, <1>2, <1>5 DEF CallitNow, Discard
<1>6. ASSUME NEW h \in Handlers, NEW r \in Handlers, MoveCall(h, r) PROVE CallInv'
  <2>1. h # r
    BY <1>6 DEF MoveCall
  <2>2. CASE MoveFirst(h, r)
    <3>1. CASE call[h] = NoHandle
      <4>1. outcome' = outcome
        BY <1>0, <1>1, <2>2, <3>1 DEF MoveFirst, Ran
      <4>2. call' = [call EXCEPT ![h] = call[r], ![r] = NoHandle]
        BY <2>2 DEF MoveFirst
      <4>. QED
        BY <1>3, <2>1, <3>1, <4>1, <4>2
    <3>2. CASE call[h] # NoHandle
      <4>1. outcome' = [outcome EXCEPT ![call[h]] = "run"] /\ call[h] \in Actions
        <5>1. Of(h) = {call[h]} /\ call[h] \in Actions /\ outcome[call[h]] = "armed"
          BY <1>0, <1>1, <3>2
        <5>2. outcome' = Ran(outcome, {call[h]})
          BY <2>2, <5>1 DEF MoveFirst
        <5>. QED
          BY <1>0, <5>1, <5>2 DEF Ran
      <4>2. call' = [call EXCEPT ![h] = call[r], ![r] = NoHandle]
        BY <2>2 DEF MoveFirst
      <4>. QED
        BY <1>0, <2>1, <3>2, <4>1, <4>2 DEF CallInv
    <3>. QED
      BY <3>1, <3>2
  <2>3. ASSUME NEW last \in BOOLEAN, MoveKeeping(h, r, last) \/ MoveNothing(h, r, last)
        PROVE  CallInv'
    <3>1. CASE MoveKeeping(h, r, last) /\ call[h] = NoHandle
      BY <1>1, <1>3, <2>1, <3>1 DEF MoveKeeping
    <3>2. CASE MoveNothing(h, r, last) \/ call[h] # NoHandle
      <4>1. /\ call' = [call EXCEPT ![r] = NoHandle]
            /\ outcome' = Ran(outcome, Of(r)) \/ outcome' = Dropped(outcome, Of(r))
        BY <1>0, <1>1, <2>1, <2>3, <3>2 DEF MoveKeeping, MoveNothing
      <4>2. CASE call[r] # NoHandle
        BY <1>2, <4>1, <4>2
      <4>3. CASE call[r] = NoHandle
        <5>1. call' = call /\ outcome' = outcome
          BY <1>0, <1>1, <4>1, <4>3 DEF Ran, Dropped
        <5>. QED
          BY <1>0, <5>1 DEF CallInv
      <4>. QED
        BY <4>2, <4>3
    <3>. QED
      BY <2>3, <3>1, <3>2
  <2>. QED
    BY <1>6, <2>2, <2>3 DEF MoveCall
<1>. QED
  BY <1>4, <1>5, <1>6

LEMMA HandleStep ==
  ASSUME HandleInv, HandleNext
  PROVE  HandleInv'
<1>1. CASE \/ \E h \in Handlers : NewStatus(h) \/ EndStatus(h) \/ ResetStatus(h)
           \/ \E h, r \in Handlers : CopyStatus(h, r) \/ AssignStatus(h, r)
           \/ \E a \in assigning : CountUp(a)
  <2>1. StatusInv'
    BY <1>1, StatusStep DEF HandleInv
  <2>2. UNCHANGED <<call, outcome>>
    BY <1>1 DEF NewStatus, EndStatus, ResetStatus, CopyStatus, AssignStatus, CountUp, CallsAlone
  <2>3. Abandoned'
    BY <1>1, AbandonStep DEF HandleInv
  <2>. QED
    BY <2>1, <2>2, <2>3 DEF HandleInv, CallInv
<1>2. CASE \/ \E h \in Handlers : CallitNow(h) \/ Discard(h)
           \/ \E h, r \in Handlers : MoveCall(h, r)
           \/ \E h \in Handlers, a \in Actions : CreateDtorCall(h, a)
  <2>1. CallInv'
    BY <1>2, CallStep DEF HandleInv
  <2>2. UNCHANGED <<group, counter, assigning>>
    BY <1>2 DEF CallitNow, Discard, MoveCall, CreateDtorCall, StatusAlone
  <2>. QED
    BY <2>1, <2>2 DEF HandleInv, StatusInv, StatusCounts, AssigningApart, Abandoned, Members, CountingUp
<1>. QED
  BY <1>1, <1>2 DEF HandleNext

LEMMA HandleStart == HandleInit => HandleInv
<1> SUFFICES ASSUME HandleInit PROVE HandleInv
  OBVIOUS
<1>1. StatusInv
  <2>1. \A g \in Groups : Members(g) = {}
    BY HandleAssumption DEF HandleInit, Members
  <2>. QED
    BY <2>1, FS_EmptySet DEF HandleInit, StatusInv, StatusCounts, AssigningApart
<1>2. CallInv
  BY HandleAssumption DEF HandleInit, CallInv
<1>3. Abandoned
  BY DEF HandleInit, Abandoned
<1>. QED
  BY <1>1, <1>2, <1>3 DEF HandleInv

LEMMA HandleCounts ==
  ASSUME HandleInv
  PROVE  EachHandleCounts
<1>1. \A g \in Groups : Members(g) # {} =>
        counter[g] = Cardinality(Members(g)) - 1 - Cardinality({a \in assigning : group[a.to] = g})
  BY DEF HandleInv, StatusInv, StatusCounts, CountingUp
<1>2. ASSUME assigning = {}, NEW h \in Handlers, group[h] # NoHandle
      PROVE  status(h) <=> Members(group[h]) = {h}
  <2>. DEFINE m == Members(group[h])
  <2>1. group[h] \in Groups /\ h \in m
    BY <1>2 DEF HandleInv, StatusInv, Members
  <2>2. Cardinality({a \in assigning : group[a.to] = group[h]}) = 0
    BY <1>2, FS_EmptySet
  <2>3. IsFiniteSet(m) /\ Cardinality(m) \in Nat
    BY StatusFinite DEF HandleInv
  <2>4. counter[group[h]] = Cardinality(m) - 1
    BY <1>1, <2>1, <2>2, <2>3
  <2>5. Cardinality(m) = 1 <=> m = {h}
    <3>. HIDE DEF m
    <3>1. Cardinality(m) = 1 <=> \E x : m = {x}
      BY <2>3, FS_Singleton
    <3>. QED
      BY <2>1, <3>1
  <2>. QED
    BY <2>3, <2>4, <2>5 DEF status
<1>3. \A a \in Actions : (outcome[a] = "armed") <=> \E h \in Handlers : call[h] = a
  BY DEF HandleInv, CallInv
<1>4. ASSUME NEW a \in Actions
      PROVE  outcome[a] # "twice" /\ Cardinality({h \in Handlers : call[h] = a}) <= 1
  <2>. DEFINE m == {h \in Handlers : call[h] = a}
  <2>1. m = {} \/ \E h : m = {h}
    <3>1. \A h, i \in m : h = i
      BY HandleAssumption DEF HandleInv, CallInv
    <3>. QED
      BY <3>1
  <2>2. Cardinality(m) = 0 \/ Cardinality(m) = 1
    <3>. HIDE DEF m
    <3>. QED
      BY <2>1, FS_Singleton, FS_EmptySet
  <2>. QED
    BY <2>2 DEF HandleInv, CallInv
<1>. QED
  BY <1>1, <1>2, <1>3, <1>4 DEF EachHandleCounts

LEMMA HandleTypes ==
  ASSUME HandleInv
  PROVE  HandleTypeOK
<1>1. ASSUME NEW g \in Groups PROVE counter[g] \in -1 .. Cardinality(Handlers)
  <2>. DEFINE m == Members(g)
              c == CountingUp(g)
              f == [a \in c |-> a.to]
  <2>1. /\ m \in SUBSET Handlers /\ IsFiniteSet(m) /\ Cardinality(m) \in Nat /\ Cardinality(c) \in Nat
        /\ counter[g] \in Int
    BY StatusFinite DEF HandleInv, StatusInv, Members
  <2>2. Cardinality(m) <= Cardinality(Handlers) /\ Cardinality(Handlers) \in Nat
    <3>. HIDE DEF m
    <3>. QED
      BY <2>1, HandleAssumption, FS_Subset, FS_CardinalityType
  <2>3. CASE m = {}
    BY <2>2, <2>3 DEF HandleInv, Abandoned
  <2>4. CASE m # {}
    <3>1. f \in Injection(c, m)
      <4>1. \A a \in c : a.to \in m
        BY DEF HandleInv, StatusInv, AssigningApart, CountingUp, Members
      <4>2. \A a, b \in c : a.to = b.to => a = b
        BY DEF HandleInv, StatusInv, AssigningApart, CountingUp
      <4>. QED
        BY <4>1, <4>2 DEF Injection, IsInjective
    <3>2. counter[g] = Cardinality(m) - 1 - Cardinality(c)
      BY <2>4 DEF HandleInv, StatusInv, StatusCounts
    <3>. HIDE DEF m, c, f
    <3>3. Cardinality(c) <= Cardinality(m)
      BY <2>1, <3>1, FS_Injection
    <3>. QED
      BY <2>1, <2>2, <3>2, <3>3
  <2>. QED
    BY <2>3, <2>4
<1>. QED
  BY <1>1 DEF HandleInv, StatusInv, CallInv, AssigningApart, HandleTypeOK

-----------------------------------------------------------------------------
(***************************************************************************)
(* All classes                                                             *)
(***************************************************************************)

IInv == CacheInv /\ ItemsInv /\ DeleteInv /\ FindInv /\ PrioInv /\ SyncInv /\ HandleInv

LEMMA Others ==
  ASSUME IInv
  PROVE  /\ UNCHANGED cacheVars => CacheInv'
         /\ UNCHANGED itemVars => ItemsInv'
         /\ UNCHANGED deleteVars => DeleteInv'
         /\ UNCHANGED findVars => FindInv'
         /\ UNCHANGED prioVars => PrioInv'
         /\ UNCHANGED syncVars => SyncInv'
         /\ UNCHANGED handleVars => HandleInv'
<1>1. ASSUME UNCHANGED cacheVars PROVE CacheInv'
  BY <1>1 DEF IInv, cacheVars, CacheInv, CacheTypes, OneJob, JobStands, ValidAt
<1>2. ASSUME UNCHANGED itemVars PROVE ItemsInv'
  BY <1>2 DEF IInv, itemVars, ItemsInv, ItemsTypeOK, AnswerIsFresh
<1>3. ASSUME UNCHANGED deleteVars PROVE DeleteInv'
  BY <1>3 DEF IInv, deleteVars, DeleteInv, DeleteTypeOK
<1>4. ASSUME UNCHANGED findVars PROVE FindInv'
  BY <1>4 DEF IInv, findVars, FindInv, IndexExact, Indices
<1>5. ASSUME UNCHANGED prioVars PROVE PrioInv'
  BY <1>5 DEF IInv, prioVars, PrioInv, PoolInv, Ripens
<1>6. ASSUME UNCHANGED syncVars PROVE SyncInv'
  BY <1>6 DEF IInv, syncVars, SyncInv, SyncTypes, GateThere, BeforeTheGate, WhileDraining, AnsweredFirst,
              Inside, Answered
<1>7. ASSUME UNCHANGED handleVars PROVE HandleInv'
  BY <1>7 DEF IInv, handleVars, HandleInv, StatusInv, StatusCounts, AssigningApart, Abandoned, CallInv,
              Members, CountingUp
<1>. QED
  BY <1>1, <1>2, <1>3, <1>4, <1>5, <1>6, <1>7

LEMMA EachStep ==
  ASSUME IInv, [Next]_vars
  PROVE  IInv'
<1>1. CASE CacheNext /\ OnlyCache
  BY <1>1, CacheStep, Others DEF OnlyCache, IInv
<1>2. CASE ItemsNext /\ OnlyItems
  BY <1>2, ItemsStep, Others DEF OnlyItems, IInv
<1>3. CASE DeleteNext /\ OnlyDelete
  BY <1>3, DeleteStep, Others DEF OnlyDelete, IInv
<1>4. CASE FindNext /\ OnlyFind
  BY <1>4, FindStep, Others DEF OnlyFind, IInv
<1>5. CASE PrioNext /\ OnlyPrio
  BY <1>5, PrioStep, Others DEF OnlyPrio, IInv
<1>6. CASE SyncNext /\ OnlySync
  BY <1>6, SyncStep, Others DEF OnlySync, IInv
<1>7. CASE HandleNext /\ OnlyHandles
  BY <1>7, HandleStep, Others DEF OnlyHandles, IInv
<1>8. CASE UNCHANGED vars
  BY <1>8, Others DEF vars, IInv
<1>. QED
  BY <1>1, <1>2, <1>3, <1>4, <1>5, <1>6, <1>7, <1>8 DEF Next

\* What each class relies on holds in every state.
THEOREM Invariance == Spec => []IInv
<1>1. Init => IInv
  BY CacheStart, ItemsStart, DeleteStart, FindStart, PrioStart, SyncStart, HandleStart DEF Init, IInv
<1>2. IInv /\ [Next]_vars => IInv'
  BY EachStep
<1>. QED
  BY <1>1, <1>2, PTL DEF Spec

\* What a cache or a container hands out is what is stored under its key at
\* that time, for any keys and times (cache.h, WP_Cache.h, containerFastFind.h).
THEOREM NeverStale == Spec => []NothingStale
<1>1. IInv => NothingStale
  <2> SUFFICES ASSUME IInv PROVE NothingStale
    OBVIOUS
  <2>1. /\ CacheInv /\ ItemsInv /\ DeleteInv /\ FindInv /\ PrioInv /\ SyncInv /\ HandleInv
    BY DEF IInv
  <2>2. CacheTypeOK /\ HeldItemStays /\ FindTypeOK /\ IndexExact /\ PrioTypeOK /\ SyncTypeOK /\ HandleTypeOK
    BY <2>1, CacheHolds, FindTypes, PrioTypes, SyncAnswers, HandleTypes
  <2>3. ItemsTypeOK /\ AnswerIsFresh /\ DeleteTypeOK
    BY <2>1 DEF ItemsInv, DeleteInv
  <2>. QED
    BY <2>2, <2>3 DEF NothingStale, ContainersTypeOK
<1>. QED
  BY <1>1, Invariance, PTL

\* The worker of a pipe never opens a semaphore that is gone, and a client of
\* process_data_and_wait() returns with its answer (pipe.h).
THEOREM AnswersFirst == Spec => []AnswerBeforeReturn
<1>1. IInv => AnswerBeforeReturn
  BY SyncAnswers DEF IInv
<1>. QED
  BY <1>1, Invariance, PTL

\* A status counts its copies, and an action is run by one Dtor_call at most
\* (raii_boolstatus, dtor_call.h), for any number of them.
THEOREM HandlesCount == Spec => []EachHandleCounts
<1>1. IInv => EachHandleCounts
  BY HandleCounts DEF IInv
<1>. QED
  BY <1>1, Invariance, PTL

\* A scan of the cache removes whatever had expired when it began, and
\* DelayDelete destroys nothing before its time (cache.h, DelayDelete.h).
THEOREM InTime == Spec => NothingTooEarly
<1>. DEFINE Scans == \A t \in CacheThreads : job[t].phase = "scan" /\ job'[t].phase = "idle" /\ kind # "pure" =>
                       \A k \in DOMAIN data' : data'[k].till >= job[t].since
            Deletes == /\ \A e \in todelete \ todelete' : (todelete' = {} /\ mutex = {}) \/ e.due < now
                       /\ \A t \in DeleteThreads : cleaning[t].phase = "clean" /\ cleaning'[t].phase # "clean" =>
                            \A e \in todelete' : e.due >= cleaning[t].at
<1>1. IInv /\ [Next]_vars => [Scans]_cacheVars
  <2> SUFFICES ASSUME IInv, [Next]_vars PROVE Scans \/ UNCHANGED cacheVars
    OBVIOUS
  <2>1. CacheNext \/ UNCHANGED cacheVars
    BY DEF Next, vars, OnlyItems, OnlyDelete, OnlyFind, OnlyPrio, OnlySync, OnlyHandles
  <2>. QED
    BY <2>1, CacheScans DEF IInv
<1>2. IInv /\ [Next]_vars => [Deletes]_deleteVars
  <2> SUFFICES ASSUME IInv, [Next]_vars PROVE Deletes \/ UNCHANGED deleteVars
    OBVIOUS
  <2>1. DeleteNext \/ UNCHANGED deleteVars
    BY DEF Next, vars, OnlyCache, OnlyItems, OnlyFind, OnlyPrio, OnlySync, OnlyHandles
  <2>. QED
    BY <2>1, DeleteInTime DEF IInv
<1>. QED
  BY <1>1, <1>2, Invariance, PTL DEF Spec, NothingTooEarly, ScanIsThorough, NotTooEarly

\* The data of a fifo_with_prio keep their order, and overtake only data that
\* ripen later: a datum that was added with prio p and has seen p pops is not
\* overtaken any more, however many are added (pipe.h:105).
THEOREM OrderKept == Spec => PrioKeepsOrder
<1>. DEFINE Keeps == /\ \A i, j \in DOMAIN pool' : i < j => pool'[i].prio <= pool'[j].prio
                     /\ \A i, j \in DOMAIN pool : \A a, b \in DOMAIN pool' :
                          i < j /\ Ids(pool')[a] = Ids(pool)[i] /\ Ids(pool')[b] = Ids(pool)[j] => a < b
                     /\ \A a, b \in DOMAIN pool' :
                          pool'[a].id = added' /\ added' # added /\ a < b => ripe'[pool'[a].id] < ripe'[pool'[b].id]
<1>1. IInv /\ [Next]_vars => [Keeps]_prioVars
  <2> SUFFICES ASSUME IInv, [Next]_vars PROVE Keeps \/ UNCHANGED prioVars
    OBVIOUS
  <2>1. PrioNext \/ UNCHANGED prioVars
    BY DEF Next, vars, OnlyCache, OnlyItems, OnlyDelete, OnlyFind, OnlySync, OnlyHandles
  <2>. QED
    BY <2>1, PrioOrder DEF IInv
<1>. QED
  BY <1>1, Invariance, PTL DEF Spec, PrioKeepsOrder

-----------------------------------------------------------------------------
(***************************************************************************)
(* Recursion                                                               *)
(***************************************************************************)

\* Of places with a height some are lowest.
LEMMA Lowest ==
  ASSUME NEW S, NEW height \in [S -> Nat], NEW T \in SUBSET S, T # {}
  PROVE  \E x \in T : \A y \in T : height[x] <= height[y]
<1>1. PICK H : H = {height[x] : x \in T}
  OBVIOUS
<1>2. PICK h \in H : \A k \in H : h <= k
  <2>1. H \in SUBSET Nat /\ H # {}
    BY <1>1
  <2>. QED
    BY <2>1, FirstKey
<1>. QED
  BY <1>1, <1>2

\* From a place outside of the end the way goes on to a lower one.
GoesDown(onward, S, stop, height) == \A m \in S \ stop : onward[m] \in S /\ height[onward[m]] < height[m]

\* f leads from each place to the goal at the end of its way.
IsWay(f, S, stop, goal, onward) == f = [m \in S |-> IF m \in stop THEN goal[m] ELSE f[onward[m]]]

\* A function that looks at lower places only is defined at every place: there
\* is one up to each height.
LEMMA WaysEnd ==
  ASSUME NEW S, NEW top \in Nat, NEW height \in [S -> 0 .. top], NEW stop \in SUBSET S, NEW goal, NEW onward,
         GoesDown(onward, S, stop, height)
  PROVE  \E f : IsWay(f, S, stop, goal, onward)
<1> DEFINE Low(k) == {m \in S : height[m] < k}
           Solves(f, k) == f = [m \in Low(k) |-> IF m \in stop THEN goal[m] ELSE f[onward[m]]]
           Open == {k \in Nat : ~\E f : Solves(f, k)}
<1>0. Open \in SUBSET Nat /\ \A k \in Nat : k \notin Open => \E f : Solves(f, k)
  <2>. HIDE DEF Solves, Low
  <2>. QED
    OBVIOUS
<1>1. SUFFICES ASSUME Open # {} PROVE FALSE
  <2>1. PICK f : Solves(f, top + 1)
    <3>. HIDE DEF Open, Solves
    <3>. QED
      BY <1>0, <1>1
  <2>2. Low(top + 1) = S
    OBVIOUS
  <2>. QED
    BY <2>1, <2>2 DEF IsWay
<1>2. PICK k \in Open : \A j \in Open : k <= j
  <2>. HIDE DEF Open
  <2>. QED
    BY <1>0, <1>1, FirstKey
<1>3. CASE k = 0
  <2>1. Low(0) = {}
    OBVIOUS
  <2>2. PICK f : f = [m \in {} |-> 0]
    OBVIOUS
  <2>3. Solves(f, 0)
    BY <2>1, <2>2
  <2>. QED
    BY <1>2, <1>3, <2>3
<1>4. CASE k # 0
  <2>1. k - 1 \in Nat /\ k - 1 \notin Open
    <3>. HIDE DEF Open
    <3>. QED
      BY <1>0, <1>2, <1>4
  <2>2. PICK g : Solves(g, k - 1)
    <3>. HIDE DEF Open, Solves
    <3>. QED
      BY <1>0, <2>1
  <2>3. PICK f : f = [m \in Low(k) |-> IF m \in stop THEN goal[m] ELSE g[onward[m]]]
    OBVIOUS
  <2>4. ASSUME NEW m \in Low(k), m \notin stop PROVE g[onward[m]] = f[onward[m]]
    <3>1. onward[m] \in Low(k - 1) /\ onward[m] \in Low(k)
      BY <2>1, <2>4 DEF GoesDown
    <3>2. g[onward[m]] = IF onward[m] \in stop THEN goal[onward[m]] ELSE g[onward[onward[m]]]
      BY <2>2, <3>1
    <3>3. f[onward[m]] = IF onward[m] \in stop THEN goal[onward[m]] ELSE g[onward[onward[m]]]
      BY <2>3, <3>1
    <3>. QED
      BY <3>2, <3>3
  <2>5. Solves(f, k)
    BY <2>3, <2>4
  <2>. QED
    BY <1>2, <2>5
<1>. QED
  BY <1>3, <1>4

\* Something stays the same along the way.
Keeps(onward, S, stop, same) == \A m \in S \ stop : same[onward[m]] = same[m]

\* f leads from x to the goal of an end, where it is as it was at x.
LeadsTo(f, stop, goal, same, x) == \E e \in stop : f[x] = goal[e] /\ same[e] = same[x]

\* What stays the same along the way is at its end as at its start.
LEMMA WayGoal ==
  ASSUME NEW S, NEW height \in [S -> Nat], NEW stop \in SUBSET S, NEW goal, NEW onward, GoesDown(onward, S, stop, height),
         NEW f, IsWay(f, S, stop, goal, onward), NEW same, Keeps(onward, S, stop, same), NEW x \in S
  PROVE  LeadsTo(f, stop, goal, same, x)
<1> DEFINE Ends(y) == \E e \in stop : f[y] = goal[e] /\ same[e] = same[y]
<1>1. SUFFICES ASSUME ~Ends(x) PROVE FALSE
  BY DEF LeadsTo
<1>2. PICK T \in SUBSET S : \A y \in S : y \in T <=> ~Ends(y)
  <2>1. {y \in S : ~Ends(y)} \in SUBSET S
    OBVIOUS
  <2>. HIDE DEF Ends
  <2>. QED
    BY <2>1
<1>3. PICK y \in T : \A z \in T : height[y] <= height[z]
  BY <1>1, <1>2, Lowest
<1>4. ~Ends(y)
  BY <1>2, <1>3
<1>5. CASE y \in stop
  BY <1>4, <1>5 DEF IsWay
<1>6. CASE y \notin stop
  <2>1. onward[y] \in S /\ height[onward[y]] < height[y] /\ f[y] = f[onward[y]] /\ same[onward[y]] = same[y]
    BY <1>3, <1>6 DEF GoesDown, IsWay, Keeps
  <2>2. onward[y] \notin T
    BY <1>3, <2>1
  <2>3. Ends(onward[y])
    BY <1>2, <2>1, <2>2
  <2>. QED
    BY <1>4, <2>1, <2>3
<1>. QED
  BY <1>5, <1>6

\* f puts together at each place what it finds at two others.
IsSum(f, S, stop, none, sum, left, right) ==
  f = [m \in S |-> IF m \in stop THEN none ELSE sum[m][f[left[m]]][f[right[m]]]]

\* The same for a function that puts together what it finds at two lower places.
LEMMA SumsEnd ==
  ASSUME NEW S, NEW V, NEW top \in Nat, NEW height \in [S -> 0 .. top], NEW stop \in SUBSET S, NEW none \in V,
         NEW sum \in [S -> [V -> [V -> V]]], NEW left, NEW right,
         GoesDown(left, S, stop, height), GoesDown(right, S, stop, height)
  PROVE  \E f \in [S -> V] : IsSum(f, S, stop, none, sum, left, right)
<1> DEFINE Low(k) == {m \in S : height[m] < k}
           Solves(f, k) == f = [m \in Low(k) |-> IF m \in stop THEN none ELSE sum[m][f[left[m]]][f[right[m]]]]
           Open == {k \in Nat : ~\E f \in [Low(k) -> V] : Solves(f, k)}
<1>0. Open \in SUBSET Nat /\ \A k \in Nat : k \notin Open => \E f \in [Low(k) -> V] : Solves(f, k)
  <2>. HIDE DEF Solves, Low
  <2>. QED
    OBVIOUS
<1>1. SUFFICES ASSUME Open # {} PROVE FALSE
  <2>1. PICK f \in [Low(top + 1) -> V] : Solves(f, top + 1)
    <3>. HIDE DEF Open, Solves, Low
    <3>1. top + 1 \in Nat /\ top + 1 \notin Open
      BY <1>1
    <3>. QED
      BY <1>0, <3>1, Zenon
  <2>2. Low(top + 1) = S
    OBVIOUS
  <2>. QED
    BY <2>1, <2>2 DEF IsSum
<1>2. PICK k \in Open : \A j \in Open : k <= j
  <2>. HIDE DEF Open
  <2>. QED
    BY <1>0, <1>1, FirstKey
<1>3. CASE k = 0
  <2>1. Low(0) = {}
    OBVIOUS
  <2>2. PICK f : f = [m \in {} |-> none]
    OBVIOUS
  <2>3. Solves(f, 0) /\ f \in [Low(0) -> V]
    BY <2>1, <2>2
  <2>. QED
    BY <1>2, <1>3, <2>3
<1>4. CASE k # 0
  <2>1. k - 1 \in Nat /\ k - 1 \notin Open
    <3>. HIDE DEF Open
    <3>. QED
      BY <1>0, <1>2, <1>4
  <2>2. PICK g \in [Low(k - 1) -> V] : Solves(g, k - 1)
    <3>. HIDE DEF Open, Solves, Low
    <3>. QED
      BY <1>0, <2>1
  <2>3. PICK f : f = [m \in Low(k) |-> IF m \in stop THEN none ELSE sum[m][g[left[m]]][g[right[m]]]]
    OBVIOUS
  <2>4. ASSUME NEW m \in S, m \in Low(k - 1) PROVE g[m] = f[m]
    <3>1. m \in Low(k)
      BY <2>1, <2>4
    <3>2. g[m] = IF m \in stop THEN none ELSE sum[m][g[left[m]]][g[right[m]]]
      BY <2>2, <2>4
    <3>. QED
      BY <2>3, <3>1, <3>2
  <2>5. ASSUME NEW m \in Low(k), m \notin stop
        PROVE  left[m] \in S /\ left[m] \in Low(k - 1) /\ right[m] \in S /\ right[m] \in Low(k - 1)
    BY <2>1, <2>5 DEF GoesDown
  <2>6. ASSUME NEW m \in Low(k), m \notin stop
        PROVE  /\ sum[m][g[left[m]]][g[right[m]]] = sum[m][f[left[m]]][f[right[m]]]
               /\ sum[m][g[left[m]]][g[right[m]]] \in V
    <3>1. g[left[m]] = f[left[m]] /\ g[right[m]] = f[right[m]] /\ g[left[m]] \in V /\ g[right[m]] \in V
      BY <2>2, <2>4, <2>5, <2>6
    <3>. QED
      BY <3>1
  <2>7. Solves(f, k) /\ f \in [Low(k) -> V]
    BY <2>3, <2>6
  <2>. QED
    BY <1>2, <2>7
<1>. QED
  BY <1>3, <1>4

-----------------------------------------------------------------------------
(***************************************************************************)
(* tree_t                                                                  *)
(***************************************************************************)

\* The links of the nodes N: they agree in both directions, and only the root
\* has no parent.
IsLinked(t, N) ==
  /\ N \subseteq Int /\ NoNode \notin N
  /\ t \in [root : N \cup {NoNode},
            node : [N -> [parent : N \cup {NoNode}, left : N \cup {NoNode}, right : N \cup {NoNode}]]]
  /\ t.root = NoNode => N = {}
  /\ t.root # NoNode => t.node[t.root].parent = NoNode
  /\ \A n \in N : t.node[n].parent = NoNode => n = t.root
  /\ \A n \in N : t.node[n].parent # NoNode =>
       n = t.node[t.node[n].parent].left \/ n = t.node[t.node[n].parent].right
  /\ \A n \in N : /\ t.node[n].left # NoNode => t.node[t.node[n].left].parent = n
                  /\ t.node[n].right # NoNode => t.node[t.node[n].right].parent = n

\* A branch has the values between lo and hi of its uppermost node, which is one
\* of them and divides the others between its branches; lo and hi are nodes, or
\* below and above all of them.
Spans(t, N, lo, hi, low, high) ==
  /\ low \in Int /\ high \in Int /\ lo \in [N -> N \cup {low}] /\ hi \in [N -> N \cup {high}]
  /\ \A n \in N : low <= lo[n] /\ lo[n] < n /\ n < hi[n] /\ hi[n] <= high
  /\ t.root # NoNode => lo[t.root] = low /\ hi[t.root] = high
  /\ \A n \in N : t.node[n].left # NoNode => lo[t.node[n].left] = lo[n] /\ hi[t.node[n].left] = n
  /\ \A n \in N : t.node[n].right # NoNode => lo[t.node[n].right] = n /\ hi[t.node[n].right] = hi[n]

\* Of two nodes one is in a branch of the other, or another node is between what
\* the two reach.
Nested(t, N, lo, hi) ==
  \A m, n \in N : m < n =>
    \/ t.node[n].left # NoNode /\ lo[n] <= lo[m] /\ hi[m] <= n
    \/ t.node[m].right # NoNode /\ m <= lo[n] /\ hi[n] <= hi[m]
    \/ hi[m] <= lo[n]

IsSearchTree(t, N, lo, hi, low, high) ==
  IsLinked(t, N) /\ Spans(t, N, lo, hi, low, high) /\ Nested(t, N, lo, hi)

\* What bounds the branches are integers.
LEMMA BoundsAreInt ==
  ASSUME NEW t, NEW N, NEW lo, NEW hi, NEW low, NEW high, IsLinked(t, N), Spans(t, N, lo, hi, low, high)
  PROVE  \A m \in N : m \in Int /\ lo[m] \in Int /\ hi[m] \in Int
<1>1. N \cup {low} \subseteq Int /\ N \cup {high} \subseteq Int
  BY DEF IsLinked, Spans
<1>2. \A m \in N : lo[m] \in N \cup {low} /\ hi[m] \in N \cup {high}
  BY DEF Spans
<1>. QED
  BY <1>1, <1>2

-----------------------------------------------------------------------------
(***************************************************************************)
(* tree_t: what is found                                                   *)
(***************************************************************************)

\* How wide a branch is: a height for what goes down the tree.
LEMMA Widths ==
  ASSUME NEW t, NEW N, NEW lo, NEW hi, NEW low, NEW high, IsLinked(t, N), Spans(t, N, lo, hi, low, high), N # {}
  PROVE  /\ high - low \in Nat
         /\ [m \in N |-> hi[m] - lo[m]] \in [N -> 0 .. high - low]
         /\ \A m \in N : /\ t.node[m].left # NoNode =>
                             t.node[m].left \in N /\ hi[t.node[m].left] - lo[t.node[m].left] < hi[m] - lo[m]
                         /\ t.node[m].right # NoNode =>
                             t.node[m].right \in N /\ hi[t.node[m].right] - lo[t.node[m].right] < hi[m] - lo[m]
<1>0. \A m \in N : m \in Int /\ lo[m] \in Int /\ hi[m] \in Int
  BY BoundsAreInt
<1>1. \A m \in N : hi[m] - lo[m] \in 0 .. high - low
  BY <1>0 DEF Spans
<1>2. high - low \in Nat
  <2>1. PICK x \in N : TRUE
    OBVIOUS
  <2>. QED
    BY <1>1, <2>1 DEF Spans
<1>3. ASSUME NEW m \in N
      PROVE  /\ t.node[m].left \in N \cup {NoNode} /\ t.node[m].right \in N \cup {NoNode}
             /\ lo[m] \in Int /\ hi[m] \in Int /\ m \in Int /\ lo[m] < m /\ m < hi[m]
  BY <1>0 DEF IsLinked, Spans
<1>4. ASSUME NEW m \in N, t.node[m].left # NoNode
      PROVE  t.node[m].left \in N /\ hi[t.node[m].left] - lo[t.node[m].left] < hi[m] - lo[m]
  <2>1. lo[t.node[m].left] = lo[m] /\ hi[t.node[m].left] = m
    BY <1>4 DEF Spans
  <2>. QED
    BY <1>3, <1>4, <2>1
<1>5. ASSUME NEW m \in N, t.node[m].right # NoNode
      PROVE  t.node[m].right \in N /\ hi[t.node[m].right] - lo[t.node[m].right] < hi[m] - lo[m]
  <2>1. lo[t.node[m].right] = m /\ hi[t.node[m].right] = hi[m]
    BY <1>5 DEF Spans
  <2>. QED
    BY <1>3, <1>5, <2>1
<1>6. [m \in N |-> hi[m] - lo[m]] \in [N -> 0 .. high - low]
  BY <1>1
<1>. QED
  BY <1>2, <1>4, <1>5, <1>6

\* most() comes to a node that has no branch on that side, at the same end of
\* the values.
IsMost(t, N, lo, hi, n, side, m) ==
  /\ m \in N /\ t.node[m][side] = NoNode
  /\ IF side = "left" THEN lo[m] = lo[n] ELSE hi[m] = hi[n]

\* What most() finds.
LEMMA MostEnds ==
  ASSUME NEW t, NEW N, NEW lo, NEW hi, NEW low, NEW high, IsLinked(t, N), Spans(t, N, lo, hi, low, high),
         NEW n \in N, NEW side \in Sides
  PROVE  IsMost(t, N, lo, hi, n, side, most(t, n, side))
<1> DEFINE Rule(f) == f = [m \in N |-> IF t.node[m][side] = NoNode THEN m ELSE f[t.node[m][side]]]
<1>1. PICK height : height = [m \in N |-> hi[m] - lo[m]]
  OBVIOUS
<1>2. PICK top \in Nat : height \in [N -> 0 .. top]
  BY <1>1, Widths
<1>3. PICK stop \in SUBSET N : stop = {m \in N : t.node[m][side] = NoNode}
  OBVIOUS
<1>4. PICK goal : goal = [m \in N |-> m]
  OBVIOUS
<1>5. PICK onward : onward = [m \in N |-> t.node[m][side]]
  OBVIOUS
<1>6. PICK same : same = [m \in N |-> IF side = "left" THEN lo[m] ELSE hi[m]]
  OBVIOUS
<1>7. GoesDown(onward, N, stop, height)
  BY <1>1, <1>3, <1>5, Widths DEF GoesDown, Sides
<1>8. Keeps(onward, N, stop, same)
  BY <1>3, <1>5, <1>6, <1>7 DEF Spans, Sides, GoesDown, Keeps
<1>9. \A f : IsWay(f, N, stop, goal, onward) <=> Rule(f)
  BY <1>3, <1>4, <1>5 DEF IsWay
<1>10. \E f : IsWay(f, N, stop, goal, onward)
  BY <1>2, <1>7, WaysEnd
<1>11. PICK f : Rule(f) /\ most(t, n, side) = f[n]
  <2>1. Nodes(t) = N
    BY DEF IsLinked, Nodes
  <2>2. PICK g : Rule(g)
    BY <1>9, <1>10
  <2>. QED
    BY <2>1, <2>2 DEF most
<1>12. LeadsTo(f, stop, goal, same, n)
  <2>1. IsWay(f, N, stop, goal, onward)
    BY <1>9, <1>11
  <2>2. height \in [N -> Nat]
    BY <1>2
  <2>. QED
    BY <1>7, <1>8, <2>1, <2>2, WayGoal
<1>. QED
  BY <1>3, <1>4, <1>6, <1>11, <1>12 DEF IsMost, LeadsTo

\* up() comes to the node that bounds the branch on that side, if there is one.
IsUp(N, lo, hi, low, high, n, side, p) ==
  IF p = NoNode THEN IF side = "left" THEN lo[n] = low ELSE hi[n] = high
  ELSE p \in N /\ IF side = "left" THEN lo[n] = p ELSE hi[n] = p

\* What up() finds.
LEMMA UpEnds ==
  ASSUME NEW t, NEW N, NEW lo, NEW hi, NEW low, NEW high, IsLinked(t, N), Spans(t, N, lo, hi, low, high),
         NEW n \in N, NEW side \in Sides
  PROVE  IsUp(N, lo, hi, low, high, n, side, up(t, n, side))
<1> DEFINE turns(m) == t.node[m].parent = NoNode \/ t.node[t.node[m].parent][side] # m
           Rule(f) == f = [m \in N |-> IF turns(m) THEN t.node[m].parent ELSE f[t.node[m].parent]]
<1>1. PICK top \in Nat : top = high - low
  BY Widths
<1>2. PICK height : height = [m \in N |-> top - (hi[m] - lo[m])]
  OBVIOUS
<1>3. height \in [N -> 0 .. top] /\ height \in [N -> Nat]
  BY <1>1, <1>2, Widths
<1>4. PICK stop \in SUBSET N : stop = {m \in N : turns(m)}
  OBVIOUS
<1>5. PICK onward : onward = [m \in N |-> t.node[m].parent]
  OBVIOUS
<1>6. PICK same : same = [m \in N |-> IF side = "left" THEN lo[m] ELSE hi[m]]
  OBVIOUS
<1>7. ASSUME NEW m \in N \ stop PROVE onward[m] \in N /\ height[onward[m]] < height[m] /\ same[onward[m]] = same[m]
  <2>1. PICK p \in N : p = t.node[m].parent /\ t.node[p][side] = m
    BY <1>4, <1>7 DEF IsLinked
  <2>2. t.node[p][side] # NoNode
    BY <2>1 DEF IsLinked
  <2>3. hi[m] - lo[m] < hi[p] - lo[p]
    BY <2>1, <2>2, Widths DEF Sides
  <2>4. same[p] = same[m]
    BY <1>6, <2>1, <2>2 DEF Spans, Sides
  <2>5. hi[m] - lo[m] \in Int /\ hi[p] - lo[p] \in Int
    BY BoundsAreInt
  <2>. QED
    BY <1>1, <1>2, <1>5, <2>1, <2>3, <2>4, <2>5
<1>8. GoesDown(onward, N, stop, height) /\ Keeps(onward, N, stop, same)
  BY <1>7 DEF GoesDown, Keeps
<1>9. \A f : IsWay(f, N, stop, onward, onward) <=> Rule(f)
  BY <1>4, <1>5 DEF IsWay
<1>10. \E f : IsWay(f, N, stop, onward, onward)
  BY <1>3, <1>8, WaysEnd
<1>11. PICK f : Rule(f) /\ up(t, n, side) = f[n]
  <2>1. Nodes(t) = N
    BY DEF IsLinked, Nodes
  <2>2. PICK g : Rule(g)
    BY <1>9, <1>10
  <2>. QED
    BY <2>1, <2>2 DEF up
<1>12. LeadsTo(f, stop, onward, same, n)
  <2>1. IsWay(f, N, stop, onward, onward)
    BY <1>9, <1>11
  <2>. QED
    BY <1>3, <1>8, <2>1, WayGoal
<1>13. PICK e \in N : turns(e) /\ f[n] = t.node[e].parent /\ same[e] = same[n]
  BY <1>4, <1>5, <1>12 DEF LeadsTo
<1>14. CASE t.node[e].parent = NoNode
  <2>1. e = t.root /\ t.root # NoNode
    BY <1>14 DEF IsLinked
  <2>. QED
    BY <1>6, <1>11, <1>13, <1>14, <2>1 DEF IsUp, Spans, Sides
<1>15. CASE t.node[e].parent # NoNode
  <2>1. PICK p \in N : p = t.node[e].parent /\ t.node[p][other(side)] = e /\ e # NoNode
    BY <1>13, <1>15 DEF IsLinked, Sides, other
  <2>2. IF side = "left" THEN lo[e] = p ELSE hi[e] = p
    BY <2>1 DEF Spans, Sides, other
  <2>. QED
    BY <1>6, <1>11, <1>13, <2>1, <2>2 DEF IsUp, Sides, IsLinked
<1>. QED
  BY <1>14, <1>15

\* The node under which a new value belongs, or the node of the value.
IsPlace(t, N, lo, hi, v, p) ==
  p \in N /\ lo[p] < v /\ v < hi[p] /\ (v < p => t.node[p].left = NoNode) /\ (p < v => t.node[p].right = NoNode)

\* What Place() finds.
LEMMA PlaceEnds ==
  ASSUME NEW t, NEW N, NEW lo, NEW hi, NEW low, NEW high, IsLinked(t, N), Spans(t, N, lo, hi, low, high),
         t.root # NoNode, NEW v \in Int, low < v, v < high
  PROVE  IsPlace(t, N, lo, hi, v, Place(t, t.root, v))
<1> DEFINE way(m) == IF v < m THEN "left" ELSE "right"
           Rule(f) == f = [m \in N |-> IF v = m \/ t.node[m][way(m)] = NoNode THEN m ELSE f[t.node[m][way(m)]]]
<1>1. PICK height : height = [m \in N |-> hi[m] - lo[m]]
  OBVIOUS
<1>2. t.root \in N /\ \A m \in N : m \in Int /\ lo[m] \in Int /\ hi[m] \in Int
  BY BoundsAreInt DEF IsLinked
<1>3. PICK top \in Nat : height \in [N -> 0 .. top]
  BY <1>1, <1>2, Widths
<1>4. PICK stop \in SUBSET N : stop = {m \in N : v = m \/ t.node[m][way(m)] = NoNode}
  OBVIOUS
<1>5. PICK goal : goal = [m \in N |-> m]
  OBVIOUS
<1>6. PICK onward : onward = [m \in N |-> t.node[m][way(m)]]
  OBVIOUS
<1>7. PICK same : same = [m \in N |-> IF lo[m] < v /\ v < hi[m] THEN "in" ELSE "out"]
  OBVIOUS
<1>8. ASSUME NEW m \in N \ stop PROVE onward[m] \in N /\ height[onward[m]] < height[m] /\ same[onward[m]] = same[m]
  <2>1. PICK c \in N : c = t.node[m][way(m)] /\ c # NoNode /\ v # m /\ c = onward[m]
    BY <1>4, <1>6, <1>8 DEF IsLinked
  <2>2. hi[c] - lo[c] < hi[m] - lo[m]
    BY <2>1, Widths
  <2>3. IF v < m THEN lo[c] = lo[m] /\ hi[c] = m ELSE lo[c] = m /\ hi[c] = hi[m]
    BY <2>1 DEF Spans
  <2>4. lo[m] < m /\ m < hi[m]
    BY DEF Spans
  <2>. QED
    BY <1>1, <1>2, <1>7, <2>1, <2>2, <2>3, <2>4
<1>9. GoesDown(onward, N, stop, height) /\ Keeps(onward, N, stop, same)
  BY <1>8 DEF GoesDown, Keeps
<1>10. \A f : IsWay(f, N, stop, goal, onward) <=> Rule(f)
  BY <1>4, <1>5, <1>6 DEF IsWay
<1>11. \E f : IsWay(f, N, stop, goal, onward)
  BY <1>3, <1>9, WaysEnd
<1>12. PICK f : Rule(f) /\ Place(t, t.root, v) = f[t.root]
  <2>1. Nodes(t) = N
    BY DEF IsLinked, Nodes
  <2>2. PICK g : Rule(g)
    BY <1>10, <1>11
  <2>. QED
    BY <2>1, <2>2 DEF Place
<1>13. LeadsTo(f, stop, goal, same, t.root)
  <2>1. IsWay(f, N, stop, goal, onward) /\ height \in [N -> Nat]
    BY <1>3, <1>10, <1>12
  <2>. QED
    BY <1>2, <1>9, <2>1, WayGoal
<1>14. PICK e \in stop : f[t.root] = e /\ same[e] = same[t.root]
  BY <1>5, <1>13 DEF LeadsTo
<1>15. same[t.root] = "in"
  BY <1>2, <1>7 DEF Spans
<1>16. e \in N /\ lo[e] < v /\ v < hi[e]
  BY <1>7, <1>14, <1>15
<1>17. v = e \/ t.node[e][way(e)] = NoNode
  BY <1>4, <1>14
<1>18. (v < e => t.node[e].left = NoNode) /\ (e < v => t.node[e].right = NoNode)
  BY <1>2, <1>16, <1>17
<1>19. Place(t, t.root, v) = e
  BY <1>12, <1>14
<1>. QED
  BY <1>16, <1>18, <1>19 DEF IsPlace

\* find() answers with the node of the value or none.
LEMMA FindEnds ==
  ASSUME NEW t, NEW N, NEW lo, NEW hi, NEW low, NEW high, IsLinked(t, N), Spans(t, N, lo, hi, low, high),
         t.root # NoNode, NEW v
  PROVE  find(t, t.root, v) \in N \cup {NoNode}
<1> DEFINE S == N \cup {NoNode}
           way(m) == IF m < v THEN t.node[m].right ELSE t.node[m].left
           Rule(f) == f = [m \in S |-> IF m = NoNode \/ m = v THEN m ELSE f[way(m)]]
<1>1. PICK height : height = [m \in S |-> IF m = NoNode THEN 0 ELSE hi[m] - lo[m]]
  OBVIOUS
<1>2. t.root \in N /\ \A m \in N : m \in Int /\ lo[m] \in Int /\ hi[m] \in Int /\ m # NoNode
  BY BoundsAreInt DEF IsLinked
<1>3. PICK top \in Nat : height \in [S -> 0 .. top]
  BY <1>1, <1>2, Widths
<1>4. PICK stop \in SUBSET S : stop = {m \in S : m = NoNode \/ m = v}
  OBVIOUS
<1>5. PICK goal : goal = [m \in S |-> m]
  OBVIOUS
<1>6. PICK onward : onward = [m \in S |-> way(m)]
  OBVIOUS
<1>7. PICK same : same = [m \in S |-> "same"]
  OBVIOUS
<1>8. ASSUME NEW m \in S \ stop PROVE onward[m] \in S /\ height[onward[m]] < height[m] /\ same[onward[m]] = same[m]
  <2>1. PICK c \in S : m \in N /\ c = onward[m] /\ (c = t.node[m].left \/ c = t.node[m].right)
    BY <1>4, <1>6, <1>8 DEF IsLinked
  <2>2. c # NoNode => hi[c] - lo[c] < hi[m] - lo[m]
    BY <2>1, Widths
  <2>3. lo[m] < m /\ m < hi[m]
    BY <2>1 DEF Spans
  <2>. QED
    BY <1>1, <1>2, <1>7, <2>1, <2>2, <2>3
<1>9. GoesDown(onward, S, stop, height) /\ Keeps(onward, S, stop, same)
  BY <1>8 DEF GoesDown, Keeps
<1>10. \A f : IsWay(f, S, stop, goal, onward) <=> Rule(f)
  BY <1>4, <1>5, <1>6 DEF IsWay
<1>11. \E f : IsWay(f, S, stop, goal, onward)
  BY <1>3, <1>9, WaysEnd
<1>12. PICK f : Rule(f) /\ find(t, t.root, v) = f[t.root]
  <2>1. Nodes(t) = N
    BY DEF IsLinked, Nodes
  <2>2. PICK g : Rule(g)
    BY <1>10, <1>11
  <2>. QED
    BY <2>1, <2>2 DEF find
<1>13. LeadsTo(f, stop, goal, same, t.root)
  <2>1. IsWay(f, S, stop, goal, onward)
    BY <1>10, <1>12
  <2>2. height \in [S -> Nat]
    BY <1>3
  <2>. QED
    BY <1>2, <1>9, <2>1, <2>2, WayGoal
<1>. QED
  BY <1>5, <1>12, <1>13 DEF LeadsTo

\* No node is between n and what is bounded by it in its branch.
LEMMA Neighbours ==
  ASSUME NEW t, NEW N, NEW lo, NEW hi, NEW low, NEW high, IsSearchTree(t, N, lo, hi, low, high), NEW n \in N
  PROVE  /\ t.node[n].left = NoNode => \A m \in N : m < n => m <= lo[n]
         /\ t.node[n].right = NoNode => \A m \in N : n < m => hi[n] <= m
         /\ \A m \in N : low < m /\ m < high
<1>1. \A m \in N : /\ m \in Int /\ lo[m] \in Int /\ hi[m] \in Int
                   /\ lo[m] < m /\ m < hi[m] /\ low <= lo[m] /\ hi[m] <= high
  <2>1. \A m \in N : m \in Int /\ lo[m] \in Int /\ hi[m] \in Int
    BY BoundsAreInt DEF IsSearchTree
  <2>. QED
    BY <2>1 DEF IsSearchTree, Spans
<1>2. low \in Int /\ high \in Int
  BY DEF IsSearchTree, Spans
<1>3. Nested(t, N, lo, hi)
  BY DEF IsSearchTree
<1>4. ASSUME t.node[n].left = NoNode, NEW m \in N, m < n PROVE m <= lo[n]
  BY <1>1, <1>3, <1>4 DEF Nested
<1>5. ASSUME t.node[n].right = NoNode, NEW m \in N, n < m PROVE hi[n] <= m
  BY <1>1, <1>3, <1>5 DEF Nested
<1>6. \A m \in N : low < m /\ m < high
  BY <1>1, <1>2
<1>. QED
  BY <1>4, <1>5, <1>6

\* begin() and rbegin() stand at the foremost value.
LEMMA FirstIsForemost ==
  ASSUME NEW t, NEW N, NEW lo, NEW hi, NEW low, NEW high, IsSearchTree(t, N, lo, hi, low, high), NEW side \in Sides
  PROVE  Foremost(First(t, side), N, side)
<1>1. IsLinked(t, N) /\ Spans(t, N, lo, hi, low, high)
  BY DEF IsSearchTree
<1>2. CASE t.root = NoNode
  BY <1>1, <1>2 DEF IsLinked, First, Foremost
<1>3. CASE t.root # NoNode
  <2>1. t.root \in N
    BY <1>1, <1>3 DEF IsLinked
  <2>2. PICK m : m = most(t, t.root, side) /\ IsMost(t, N, lo, hi, t.root, side, m)
    BY <1>1, <2>1, MostEnds
  <2>3. m \in N /\ First(t, side) = m
    BY <1>3, <2>2 DEF First, IsMost
  <2>4. IF side = "left" THEN t.node[m].left = NoNode /\ lo[m] = low ELSE t.node[m].right = NoNode /\ hi[m] = high
    BY <1>1, <1>3, <2>2 DEF IsMost, Spans, Sides
  <2>5. \A w \in N : m \in Int /\ w \in Int /\ low \in Int /\ high \in Int
    BY <1>1, <2>3 DEF IsLinked, Spans
  <2>6. \A w \in N \ {m} : IF side = "left" THEN m < w ELSE w < m
    BY <2>3, <2>4, <2>5, Neighbours
  <2>. QED
    BY <2>3, <2>6 DEF Foremost, Precedes
<1>. QED
  BY <1>2, <1>3

\* An iterator goes on to the foremost of the values that are left.
LEMMA FollowingIsForemost ==
  ASSUME NEW t, NEW N, NEW lo, NEW hi, NEW low, NEW high, IsSearchTree(t, N, lo, hi, low, high), NEW side \in Sides,
         NEW n \in N
  PROVE  Foremost(Following(t, n, side), {m \in N : Precedes(n, m, side)}, side)
<1>1. IsLinked(t, N) /\ Spans(t, N, lo, hi, low, high)
  BY DEF IsSearchTree
<1>2. PICK onward \in N \cup {NoNode} : onward = t.node[n][other(side)]
  BY <1>1 DEF IsLinked, Sides, other
<1>3. low \in Int /\ high \in Int
      /\ \A m \in N : m # NoNode /\ m \in Int /\ lo[m] \in Int /\ hi[m] \in Int /\ lo[m] < m /\ m < hi[m]
  <2>1. \A m \in N : m \in Int /\ lo[m] \in Int /\ hi[m] \in Int
    BY <1>1, BoundsAreInt
  <2>. QED
    BY <1>1, <2>1 DEF IsLinked, Spans
<1>4. CASE onward # NoNode
  <2>1. PICK p : p = most(t, onward, side) /\ IsMost(t, N, lo, hi, onward, side, p)
    BY <1>1, <1>2, <1>4, MostEnds
  <2>2. p \in N /\ Following(t, n, side) = p
    BY <1>2, <1>4, <2>1 DEF Following, IsMost
  <2>3. IF side = "left" THEN t.node[p].left = NoNode /\ lo[p] = n ELSE t.node[p].right = NoNode /\ hi[p] = n
    BY <1>1, <1>2, <1>4, <2>1 DEF IsMost, Spans, Sides, other
  <2>4. IF side = "left" THEN n < p ELSE p < n
    BY <1>3, <2>2, <2>3
  <2>5. \A w \in N \ {p} : Precedes(n, w, side) => Precedes(p, w, side)
    BY <1>3, <2>2, <2>3, Neighbours DEF Precedes
  <2>. QED
    BY <2>2, <2>4, <2>5 DEF Foremost, Precedes
<1>5. CASE onward = NoNode
  <2>1. PICK p : p = up(t, n, other(side)) /\ IsUp(N, lo, hi, low, high, n, other(side), p)
    BY <1>1, UpEnds DEF Sides, other
  <2>2. Following(t, n, side) = p
    BY <1>2, <1>5, <2>1 DEF Following
  <2>3. IF side = "left" THEN \A w \in N : n < w => hi[n] <= w ELSE \A w \in N : w < n => w <= lo[n]
    BY <1>2, <1>5, Neighbours DEF Sides, other
  <2>4. \A w \in N : low < w /\ w < high
    BY Neighbours
  <2>5. CASE p = NoNode
    <3>1. IF side = "left" THEN hi[n] = high ELSE lo[n] = low
      BY <2>1, <2>5 DEF IsUp, Sides, other
    <3>2. \A w \in N : ~Precedes(n, w, side)
      BY <1>3, <2>3, <2>4, <3>1 DEF Precedes
    <3>. QED
      BY <2>2, <2>5, <3>2 DEF Foremost
  <2>6. CASE p # NoNode
    <3>1. p \in N /\ IF side = "left" THEN hi[n] = p ELSE lo[n] = p
      BY <2>1, <2>6 DEF IsUp, Sides, other
    <3>2. Precedes(n, p, side) /\ \A w \in N \ {p} : Precedes(n, w, side) => Precedes(p, w, side)
      BY <1>3, <2>3, <3>1 DEF Precedes
    <3>. QED
      BY <2>2, <3>1, <3>2 DEF Foremost
  <2>. QED
    BY <2>5, <2>6
<1>. QED
  BY <1>4, <1>5

\* Every search tree with such bounds is what TreeIsItsSet asks for.
LEMMA SearchTreeIsTreeOf ==
  ASSUME NEW t, NEW N, NEW lo, NEW hi, NEW low, NEW high, IsSearchTree(t, N, lo, hi, low, high)
  PROVE  IsTreeOf(t, N)
<1>1. Nodes(t) = N
  BY DEF IsSearchTree, IsLinked, Nodes
<1>2. /\ \A n \in N, s \in Sides : t.node[n][s] # NoNode => t.node[t.node[n][s]].parent = n
      /\ t.root # NoNode => t.node[t.root].parent = NoNode
  BY DEF IsSearchTree, IsLinked, Sides
<1>. QED
  BY <1>1, <1>2, FirstIsForemost, FollowingIsForemost DEF IsTreeOf

-----------------------------------------------------------------------------
(***************************************************************************)
(* tree_t: weights and depths                                              *)
(***************************************************************************)

\* f has a value of V at each end and wherever it has one at the two lower places.
Inherits(f, S, V, stop, left, right) ==
  \A m \in S : m \in stop \/ (f[left[m]] \in V /\ f[right[m]] \in V) => f[m] \in V

\* All values of such a function are in V.
LEMMA Inherited ==
  ASSUME NEW S, NEW V, NEW height \in [S -> Nat], NEW stop \in SUBSET S, NEW left, NEW right,
         GoesDown(left, S, stop, height), GoesDown(right, S, stop, height), NEW f, Inherits(f, S, V, stop, left, right)
  PROVE  \A m \in S : f[m] \in V
<1>1. PICK T \in SUBSET S : T = {m \in S : f[m] \notin V}
  OBVIOUS
<1>2. ASSUME T # {} PROVE FALSE
  <2>1. PICK m \in T : \A y \in T : height[m] <= height[y]
    BY <1>2, Lowest
  <2>2. m \notin stop /\ (f[left[m]] \notin V \/ f[right[m]] \notin V)
    BY <1>1, <2>1 DEF Inherits
  <2>3. left[m] \in S /\ height[left[m]] < height[m] /\ right[m] \in S /\ height[right[m]] < height[m]
    BY <2>1, <2>2 DEF GoesDown
  <2>4. left[m] \notin T /\ right[m] \notin T
    BY <2>1, <2>3
  <2>. QED
    BY <1>1, <2>2, <2>3, <2>4
<1>. QED
  BY <1>1, <1>2

\* The branches of the nodes N go down: no node is below itself.
Descends(t, N, height) ==
  /\ Nodes(t) = N /\ NoNode \notin N
  /\ \A m \in N : /\ t.node[m].left \in N \cup {NoNode}
                  /\ t.node[m].left # NoNode => height[t.node[m].left] < height[m]
                  /\ t.node[m].right \in N \cup {NoNode}
                  /\ t.node[m].right # NoNode => height[t.node[m].right] < height[m]

\* The branches of a search tree go down.
LEMMA SearchTreeDescends ==
  ASSUME NEW t, NEW N, NEW lo, NEW hi, NEW low, NEW high, IsLinked(t, N), Spans(t, N, lo, hi, low, high)
  PROVE  \E top \in Nat : \E height \in [N -> 0 .. top] : Descends(t, N, height)
<1>1. CASE N = {}
  <2>1. PICK height \in [N -> 0 .. 0] : TRUE
    <3>1. [m \in N |-> 0] \in [N -> 0 .. 0]
      OBVIOUS
    <3>. QED
      BY <3>1
  <2>2. Descends(t, N, height)
    BY <1>1 DEF IsLinked, Descends, Nodes
  <2>. QED
    BY <2>2
<1>2. CASE N # {}
  <2>1. PICK height : height = [m \in N |-> hi[m] - lo[m]]
    OBVIOUS
  <2>2. PICK top \in Nat : height \in [N -> 0 .. top]
    BY <1>2, <2>1, Widths
  <2>3. \A m \in N : /\ t.node[m].left # NoNode => hi[t.node[m].left] - lo[t.node[m].left] < hi[m] - lo[m]
                     /\ t.node[m].right # NoNode => hi[t.node[m].right] - lo[t.node[m].right] < hi[m] - lo[m]
    BY <1>2, Widths
  <2>4. Descends(t, N, height)
    BY <2>1, <2>3 DEF IsLinked, Descends, Nodes
  <2>. QED
    BY <2>2, <2>4
<1>. QED
  BY <1>1, <1>2

\* A place for what is no node, below all nodes.
Floor(S, height) == [m \in S |-> IF m = NoNode THEN 0 ELSE height[m] + 1]

\* The two forms of going down, for the functions that add up branches.
LEMMA BranchesGoDown ==
  ASSUME NEW t, NEW N, NEW top \in Nat, NEW height \in [N -> 0 .. top], Descends(t, N, height),
         NEW S, S = N \cup {NoNode}, NEW left, NEW right,
         left = [m \in S |-> t.node[m].left], right = [m \in S |-> t.node[m].right]
  PROVE  /\ Floor(S, height) \in [S -> 0 .. top + 1] /\ Floor(S, height) \in [S -> Nat]
         /\ GoesDown(left, S, {NoNode}, Floor(S, height)) /\ GoesDown(right, S, {NoNode}, Floor(S, height))
<1>1. \A m \in S : m # NoNode => m \in N /\ height[m] \in 0 .. top
  OBVIOUS
<1>2. Floor(S, height) \in [S -> 0 .. top + 1] /\ Floor(S, height) \in [S -> Nat]
  BY <1>1 DEF Floor
<1>3. ASSUME NEW m \in S \ {NoNode}
      PROVE  /\ left[m] \in S /\ Floor(S, height)[left[m]] < Floor(S, height)[m]
             /\ right[m] \in S /\ Floor(S, height)[right[m]] < Floor(S, height)[m]
  <2>1. m \in N /\ left[m] = t.node[m].left /\ right[m] = t.node[m].right
    OBVIOUS
  <2>2. /\ left[m] \in S /\ (left[m] # NoNode => height[left[m]] < height[m])
        /\ right[m] \in S /\ (right[m] # NoNode => height[right[m]] < height[m])
    BY <2>1 DEF Descends
  <2>. QED
    BY <1>1, <2>1, <2>2 DEF Floor
<1>. QED
  BY <1>2, <1>3 DEF GoesDown

\* A branch weighs and is deep nothing if and only if it is empty.
LEMMA WeightAndDepth ==
  ASSUME NEW t, NEW N, NEW lo, NEW hi, NEW low, NEW high, IsLinked(t, N), Spans(t, N, lo, hi, low, high),
         NEW n \in N \cup {NoNode}
  PROVE  /\ weight(t, n) \in Nat /\ (weight(t, n) = 0 <=> n = NoNode)
         /\ deep(t, n) \in Nat /\ (deep(t, n) = 0 <=> n = NoNode)
<1>0. PICK top \in Nat : \E height \in [N -> 0 .. top] : Descends(t, N, height)
  BY SearchTreeDescends
<1>1. PICK height \in [N -> 0 .. top] : Descends(t, N, height)
  BY <1>0
<1>2. PICK S : S = N \cup {NoNode}
  OBVIOUS
<1>3. PICK left, right : left = [m \in S |-> t.node[m].left] /\ right = [m \in S |-> t.node[m].right]
  OBVIOUS
<1>4. /\ Floor(S, height) \in [S -> 0 .. top + 1] /\ Floor(S, height) \in [S -> Nat]
      /\ GoesDown(left, S, {NoNode}, Floor(S, height)) /\ GoesDown(right, S, {NoNode}, Floor(S, height))
  BY <1>1, <1>2, <1>3, BranchesGoDown
<1>5. top + 1 \in Nat /\ {NoNode} \in SUBSET S /\ 0 \in Nat /\ Nodes(t) \cup {NoNode} = S /\ n \in S
  BY <1>1, <1>2 DEF Descends
<1>6. weight(t, n) \in Nat /\ (weight(t, n) = 0 <=> n = NoNode)
  <2> DEFINE Rule(f) == f = [m \in S |-> IF m = NoNode THEN 0 ELSE 1 + f[t.node[m].left] + f[t.node[m].right]]
  <2>1. PICK sum : sum = [m \in S |-> [a \in Nat |-> [b \in Nat |-> 1 + a + b]]]
    OBVIOUS
  <2>2. sum \in [S -> [Nat -> [Nat -> Nat]]]
    BY <2>1
  <2>3. PICK g \in [S -> Nat] : IsSum(g, S, {NoNode}, 0, sum, left, right)
    BY <1>4, <1>5, <2>2, SumsEnd
  <2>4. Rule(g)
    BY <1>3, <1>4, <2>1, <2>3 DEF IsSum, GoesDown
  <2>5. PICK f : Rule(f) /\ weight(t, n) = f[n]
    BY <1>5, <2>4 DEF weight
  <2>6. Inherits(f, S, Nat, {NoNode}, left, right)
    <3>1. ASSUME NEW m \in S \ {NoNode}, f[left[m]] \in Nat, f[right[m]] \in Nat PROVE f[m] \in Nat
      <4>1. PICK a \in Nat, b \in Nat : a = f[t.node[m].left] /\ b = f[t.node[m].right]
        BY <1>3, <3>1
      <4>2. f[m] = 1 + a + b
        BY <2>5, <4>1
      <4>. QED
        BY <4>2
    <3>2. f[NoNode] \in Nat
      BY <1>2, <2>5
    <3>. QED
      BY <3>1, <3>2 DEF Inherits
  <2>7. \A m \in S : f[m] \in Nat
    BY <1>4, <1>5, <2>6, Inherited
  <2>8. \A m \in S \ {NoNode} : f[t.node[m].left] \in Nat /\ f[t.node[m].right] \in Nat
    BY <1>3, <1>4, <2>7 DEF GoesDown
  <2>9. ASSUME n # NoNode PROVE weight(t, n) # 0
    <3>1. PICK a \in Nat, b \in Nat : a = f[t.node[n].left] /\ b = f[t.node[n].right]
      BY <1>5, <2>8, <2>9
    <3>2. f[n] = 1 + a + b
      BY <1>5, <2>5, <2>9, <3>1
    <3>. QED
      BY <2>5, <3>2
  <2>10. n = NoNode => f[n] = 0
    BY <1>5, <2>5
  <2>. QED
    BY <1>5, <2>5, <2>7, <2>9, <2>10
<1>7. deep(t, n) \in Nat /\ (deep(t, n) = 0 <=> n = NoNode)
  <2> DEFINE Deeper(a, b) == 1 + (IF a < b THEN b ELSE a)
             Rule(f) == f = [m \in S |-> IF m = NoNode THEN 0 ELSE Deeper(f[t.node[m].left], f[t.node[m].right])]
  <2>1. PICK sum : sum = [m \in S |-> [a \in Nat |-> [b \in Nat |-> Deeper(a, b)]]]
    OBVIOUS
  <2>2. sum \in [S -> [Nat -> [Nat -> Nat]]]
    BY <2>1
  <2>3. PICK g \in [S -> Nat] : IsSum(g, S, {NoNode}, 0, sum, left, right)
    BY <1>4, <1>5, <2>2, SumsEnd
  <2>4. Rule(g)
    BY <1>3, <1>4, <2>1, <2>3 DEF IsSum, GoesDown
  <2>5. PICK f : Rule(f) /\ deep(t, n) = f[n]
    BY <1>5, <2>4 DEF deep
  <2>6. Inherits(f, S, Nat, {NoNode}, left, right)
    <3>1. ASSUME NEW m \in S \ {NoNode}, f[left[m]] \in Nat, f[right[m]] \in Nat PROVE f[m] \in Nat
      <4>1. PICK a \in Nat, b \in Nat : a = f[t.node[m].left] /\ b = f[t.node[m].right]
        BY <1>3, <3>1
      <4>2. f[m] = Deeper(a, b)
        BY <2>5, <4>1
      <4>. QED
        BY <4>2
    <3>2. f[NoNode] \in Nat
      BY <1>2, <2>5
    <3>. QED
      BY <3>1, <3>2 DEF Inherits
  <2>7. \A m \in S : f[m] \in Nat
    BY <1>4, <1>5, <2>6, Inherited
  <2>8. \A m \in S \ {NoNode} : f[t.node[m].left] \in Nat /\ f[t.node[m].right] \in Nat
    BY <1>3, <1>4, <2>7 DEF GoesDown
  <2>9. ASSUME n # NoNode PROVE deep(t, n) # 0
    <3>1. PICK a \in Nat, b \in Nat : a = f[t.node[n].left] /\ b = f[t.node[n].right]
      BY <1>5, <2>8, <2>9
    <3>2. f[n] = Deeper(a, b)
      BY <1>5, <2>5, <2>9, <3>1
    <3>. QED
      BY <2>5, <3>2
  <2>10. n = NoNode => f[n] = 0
    BY <1>5, <2>5
  <2>. QED
    BY <1>5, <2>5, <2>7, <2>9, <2>10
<1>. QED
  BY <1>6, <1>7

\* Below a node without branches there is nothing.
LEMMA BelowLeaf ==
  ASSUME NEW t, NEW N, NEW top \in Nat, NEW height \in [N -> 0 .. top], Descends(t, N, height),
         NEW n \in N, t.node[n].left = NoNode, t.node[n].right = NoNode
  PROVE  Below(t, n) = {n}
<1>0. PICK S, V : S = N \cup {NoNode} /\ V = SUBSET N
  OBVIOUS
<1> DEFINE Rule(f) == f = [m \in S |-> IF m = NoNode THEN {} ELSE {m} \cup f[t.node[m].left] \cup f[t.node[m].right]]
<1>1. PICK left, right : left = [m \in S |-> t.node[m].left] /\ right = [m \in S |-> t.node[m].right]
  OBVIOUS
<1>2. PICK floor \in [S -> 0 .. top + 1] : GoesDown(left, S, {NoNode}, floor) /\ GoesDown(right, S, {NoNode}, floor)
  BY <1>0, <1>1, BranchesGoDown
<1>3. PICK sum : sum = [m \in S |-> [a \in V |-> [b \in V |-> IF m = NoNode THEN {} ELSE {m} \cup a \cup b]]]
  OBVIOUS
<1>4. sum \in [S -> [V -> [V -> V]]]
  BY <1>0, <1>3
<1>5. PICK g \in [S -> V] : IsSum(g, S, {NoNode}, {}, sum, left, right)
  <2>1. top + 1 \in Nat /\ {NoNode} \in SUBSET S /\ {} \in V
    BY <1>0
  <2>. QED
    BY <1>2, <1>4, <2>1, SumsEnd
<1>6. Rule(g)
  BY <1>1, <1>2, <1>3, <1>5 DEF IsSum, GoesDown
<1>7. PICK f : Rule(f) /\ Below(t, n) = f[n]
  <2>1. Nodes(t) \cup {NoNode} = S
    BY <1>0 DEF Descends
  <2>. QED
    BY <1>6, <2>1 DEF Below
<1>8. n # NoNode
  BY DEF Descends
<1>. QED
  BY <1>0, <1>7, <1>8

-----------------------------------------------------------------------------
(***************************************************************************)
(* tree_t: links                                                           *)
(***************************************************************************)

\* The records of links of the nodes N.
Links(N) == [root : N \cup {NoNode},
             node : [N -> [parent : N \cup {NoNode}, left : N \cup {NoNode}, right : N \cup {NoNode}]]]

\* What Hang() makes of the links.
IsHung(t, N, u, n, m) ==
  /\ u \in Links(N)
  /\ u.root = IF t.root = n THEN m ELSE t.root
  /\ \A x \in N : /\ u.node[x].parent = t.node[x].parent
                  /\ u.node[x].left = IF t.node[x].left = n THEN m ELSE t.node[x].left
                  /\ u.node[x].right = IF t.node[x].right = n THEN m ELSE t.node[x].right

\* Only one link leads to n, and it does not come from n or below it.
HasOneLink(t, N, n) ==
  /\ n # NoNode /\ (t.root = n <=> t.node[n].parent = NoNode)
  /\ \A x \in N : /\ t.node[x].left = n => x = t.node[n].parent
                  /\ t.node[x].right = n => x = t.node[n].parent
                  /\ ~(t.node[x].left = n /\ t.node[x].right = n)
                  /\ t.node[x].parent = n => x # t.node[n].parent
  /\ t.node[n].parent # n /\ t.node[n].left # n /\ t.node[n].right # n

\* A node of linked nodes is held by one link.
LEMMA OneLink ==
  ASSUME NEW t, NEW N, NEW lo, NEW hi, NEW low, NEW high, IsLinked(t, N), Spans(t, N, lo, hi, low, high), NEW n \in N
  PROVE  HasOneLink(t, N, n)
<1>1. \A m \in N : m \in Int /\ lo[m] \in Int /\ hi[m] \in Int /\ lo[m] < m /\ m < hi[m]
  <2>1. \A m \in N : m \in Int /\ lo[m] \in Int /\ hi[m] \in Int
    BY BoundsAreInt
  <2>. QED
    BY <2>1 DEF Spans
<1>2. n # NoNode /\ (t.root = n <=> t.node[n].parent = NoNode)
  BY DEF IsLinked
<1>3. ASSUME NEW x \in N, t.node[x].left = n PROVE x = t.node[n].parent /\ x # n
  <2>1. x = t.node[n].parent
    BY <1>2, <1>3 DEF IsLinked
  <2>2. hi[n] = x
    BY <1>2, <1>3 DEF Spans
  <2>. QED
    BY <1>1, <2>1, <2>2
<1>4. ASSUME NEW x \in N, t.node[x].right = n PROVE x = t.node[n].parent /\ x # n
  <2>1. x = t.node[n].parent
    BY <1>2, <1>4 DEF IsLinked
  <2>2. lo[n] = x
    BY <1>2, <1>4 DEF Spans
  <2>. QED
    BY <1>1, <2>1, <2>2
<1>5. ASSUME NEW x \in N, NEW y \in N, t.node[x].left = y, t.node[x].right = y PROVE FALSE
  <2>1. y # NoNode
    BY DEF IsLinked
  <2>2. hi[y] = x /\ lo[y] = x
    BY <1>5, <2>1 DEF Spans
  <2>. QED
    BY <1>1, <2>2
<1>6. t.node[n].parent # n
  BY <1>2, <1>3, <1>4 DEF IsLinked
<1>7. ASSUME NEW x \in N, t.node[x].parent = n, t.node[n].parent = x PROVE FALSE
  <2>1. \A y \in N : /\ t.node[y].left # NoNode => hi[t.node[y].left] - lo[t.node[y].left] < hi[y] - lo[y]
                     /\ t.node[y].right # NoNode => hi[t.node[y].right] - lo[t.node[y].right] < hi[y] - lo[y]
    BY Widths
  <2>2. /\ x # NoNode /\ n # NoNode
        /\ x = t.node[n].left \/ x = t.node[n].right
        /\ n = t.node[x].left \/ n = t.node[x].right
    BY <1>7 DEF IsLinked
  <2>3. hi[x] - lo[x] < hi[n] - lo[n] /\ hi[n] - lo[n] < hi[x] - lo[x]
    BY <2>1, <2>2
  <2>. QED
    BY <1>1, <2>3
<1>. QED
  BY <1>2, <1>3, <1>4, <1>5, <1>6, <1>7 DEF HasOneLink

\* The link that holds n is the root or the one of its parent.
IsHeld(t, N, n) ==
  /\ n # NoNode /\ (t.root = n <=> t.node[n].parent = NoNode)
  /\ \A x \in N : /\ t.node[x].left = n => x = t.node[n].parent
                  /\ t.node[x].right = n => x = t.node[n].parent
                  /\ ~(t.node[x].left = n /\ t.node[x].right = n)
  /\ t.node[n].parent # NoNode => t.node[t.node[n].parent].left = n \/ t.node[t.node[n].parent].right = n

\* What Hang() does to a node that is held there.
LEMMA HeldHangs ==
  ASSUME NEW t, NEW N, t \in Links(N), NoNode \notin N, NEW n \in N, IsHeld(t, N, n), NEW m \in N \cup {NoNode}
  PROVE  IsHung(t, N, Hang(t, n, m), n, m)
<1>1. /\ n # NoNode /\ (t.root = n <=> t.node[n].parent = NoNode)
      /\ \A x \in N : /\ t.node[x].left = n => x = t.node[n].parent
                      /\ t.node[x].right = n => x = t.node[n].parent
                      /\ ~(t.node[x].left = n /\ t.node[x].right = n)
  BY DEF IsHeld
<1>2. t \in Links(N)
  OBVIOUS
<1>3. PICK p \in N \cup {NoNode} : p = t.node[n].parent
  BY <1>2 DEF Links
<1>4. CASE p = NoNode
  <2>1. Hang(t, n, m) = [t EXCEPT !.root = m]
    BY <1>3, <1>4 DEF Hang
  <2>2. \A x \in N : t.node[x].left # n /\ t.node[x].right # n
    BY <1>1, <1>3, <1>4
  <2>. QED
    BY <1>1, <1>2, <1>3, <1>4, <2>1, <2>2 DEF IsHung, Links
<1>5. CASE p # NoNode
  <2>1. PICK s \in Sides : s = IF t.node[p].left = n THEN "left" ELSE "right"
    BY DEF Sides
  <2>2. PICK u : u = [t EXCEPT !.node[p][s] = m]
    OBVIOUS
  <2>3. Hang(t, n, m) = u
    BY <1>3, <1>5, <2>1, <2>2 DEF Hang
  <2>4. p \in N /\ t.node[p][s] = n
    BY <1>3, <1>5, <2>1 DEF IsHeld
  <2>5. u \in Links(N)
    BY <1>2, <2>1, <2>2, <2>4 DEF Links, Sides
  <2>6. u.root = t.root /\ t.root # n
    BY <1>1, <1>2, <1>3, <1>5, <2>2 DEF Links
  <2>7. ASSUME NEW x \in N
        PROVE  /\ u.node[x].parent = t.node[x].parent
               /\ u.node[x].left = IF t.node[x].left = n THEN m ELSE t.node[x].left
               /\ u.node[x].right = IF t.node[x].right = n THEN m ELSE t.node[x].right
    <3>1. CASE x # p
      <4>1. u.node[x] = t.node[x]
        BY <1>2, <2>2, <3>1 DEF Links
      <4>2. t.node[x].left # n /\ t.node[x].right # n
        BY <1>1, <1>3, <3>1
      <4>. QED
        BY <4>1, <4>2
    <3>2. CASE x = p
      <4>1. u.node[x] = [t.node[x] EXCEPT ![s] = m]
        BY <1>2, <2>2, <3>2 DEF Links
      <4>2. s = "left" => t.node[x].left = n /\ t.node[x].right # n
        BY <1>1, <2>4, <3>2
      <4>3. s = "right" => t.node[x].right = n /\ t.node[x].left # n
        BY <1>1, <2>4, <3>2
      <4>4. t.node[x] \in [parent : N \cup {NoNode}, left : N \cup {NoNode}, right : N \cup {NoNode}]
        BY <1>2 DEF Links
      <4>. QED
        BY <2>1, <4>1, <4>2, <4>3, <4>4 DEF Sides
    <3>. QED
      BY <3>1, <3>2
  <2>. QED
    BY <2>3, <2>5, <2>6, <2>7 DEF IsHung
<1>. QED
  BY <1>4, <1>5

\* What Hang() does to any node.
LEMMA HangHangs ==
  ASSUME NEW t, NEW N, NEW lo, NEW hi, NEW low, NEW high, IsLinked(t, N), Spans(t, N, lo, hi, low, high), NEW n \in N,
         NEW m \in N \cup {NoNode}
  PROVE  IsHung(t, N, Hang(t, n, m), n, m)
<1>1. HasOneLink(t, N, n)
  BY OneLink
<1>2. IsHeld(t, N, n)
  BY <1>1 DEF HasOneLink, IsHeld, IsLinked
<1>3. t \in Links(N) /\ NoNode \notin N
  BY DEF IsLinked, Links
<1>. QED
  BY <1>2, <1>3, HeldHangs

\* What SetParent() makes of the links.
IsReparented(t, N, u, n, p) ==
  /\ u \in Links(N) /\ u.root = t.root
  /\ \A x \in N : /\ u.node[x].left = t.node[x].left
                  /\ u.node[x].right = t.node[x].right
                  /\ u.node[x].parent = IF x = n THEN p ELSE t.node[x].parent

\* What SetParent() does.
LEMMA SetParentSets ==
  ASSUME NEW t, NEW N, t \in Links(N), NoNode \notin N, NEW n \in N \cup {NoNode}, NEW p \in N \cup {NoNode}
  PROVE  IsReparented(t, N, SetParent(t, n, p), n, p)
<1>1. CASE n = NoNode
  <2>1. SetParent(t, n, p) = t /\ \A x \in N : x # n
    BY <1>1 DEF SetParent
  <2>. QED
    BY <2>1 DEF IsReparented
<1>2. CASE n # NoNode
  <2>1. PICK u : u = SetParent(t, n, p) /\ u = [t EXCEPT !.node[n].parent = p]
    BY <1>2 DEF SetParent
  <2>2. n \in N /\ \A x \in N : t.node[x] \in [parent : N \cup {NoNode}, left : N \cup {NoNode}, right : N \cup {NoNode}]
    BY <1>2 DEF Links
  <2>3. u \in Links(N) /\ u.root = t.root
    <3>1. PICK r : r = [t.node[n] EXCEPT !.parent = p]
      OBVIOUS
    <3>2. r \in [parent : N \cup {NoNode}, left : N \cup {NoNode}, right : N \cup {NoNode}]
      BY <2>2, <3>1
    <3>3. u = [t EXCEPT !.node[n] = r]
      BY <2>1, <2>2, <3>1 DEF Links
    <3>. QED
      BY <2>2, <3>2, <3>3 DEF Links
  <2>4. \A x \in N : u.node[x] = IF x = n THEN [t.node[x] EXCEPT !.parent = p] ELSE t.node[x]
    BY <2>1, <2>2 DEF Links
  <2>. QED
    BY <2>1, <2>2, <2>3, <2>4 DEF IsReparented
<1>. QED
  BY <1>1, <1>2

-----------------------------------------------------------------------------
(***************************************************************************)
(* tree_t: turns                                                           *)
(***************************************************************************)

\* What rotate() makes of the links, with the branch b on that side of n and its
\* inner branch.
IsTurned(t, N, u, n, side, b, inner) ==
  /\ u \in Links(N)
  /\ u.root = IF t.root = n THEN b ELSE t.root
  /\ \A x \in N : u.node[x].parent = IF x = b THEN t.node[n].parent ELSE IF x = n THEN b
                                     ELSE IF x = inner THEN n ELSE t.node[x].parent
  /\ \A x \in N : u.node[x].left = IF side = "right" /\ x = b THEN n ELSE IF side = "left" /\ x = n THEN inner
                                   ELSE IF t.node[x].left = n THEN b ELSE t.node[x].left
  /\ \A x \in N : u.node[x].right = IF side = "left" /\ x = b THEN n ELSE IF side = "right" /\ x = n THEN inner
                                    ELSE IF t.node[x].right = n THEN b ELSE t.node[x].right

\* What rotate() does.
LEMMA RotateTurns ==
  ASSUME NEW t, NEW N, NEW lo, NEW hi, NEW low, NEW high, IsLinked(t, N), Spans(t, N, lo, hi, low, high), NEW n \in N,
         NEW side \in Sides, NEW b \in N, b = t.node[n][side], NEW inner, inner = t.node[b][other(side)]
  PROVE  IsTurned(t, N, rotate(t, n, side), n, side, b, inner)
<1>1. t \in Links(N) /\ n # NoNode /\ b # NoNode
  BY DEF IsLinked, Links
<1>2. PICK p \in N \cup {NoNode} : p = t.node[n].parent
  BY <1>1 DEF Links
<1>3. inner \in N \cup {NoNode}
  BY <1>1 DEF Links, Sides, other
<1>4. HasOneLink(t, N, n) /\ HasOneLink(t, N, b)
  BY OneLink
<1>5. t.node[b].parent = n /\ b # n
  BY <1>1, <1>4 DEF IsLinked, Sides, HasOneLink
<1>6. inner # NoNode => t.node[inner].parent = b
  BY <1>3 DEF IsLinked, Sides, other
<1>7. /\ inner # b /\ inner # n
      /\ t.node[n].left # n /\ t.node[n].right # n /\ t.node[b].left # n /\ t.node[b].right # n
  BY <1>4, <1>5 DEF HasOneLink, Sides, other
<1>8. PICK h : h = Hang(t, n, b) /\ IsHung(t, N, h, n, b)
  BY HangHangs
<1>9. PICK os \in Sides : os = other(side) /\ os # side
  BY DEF Sides, other
<1>10. h \in Links(N)
  BY <1>8 DEF IsHung
<1>12. PICK g : /\ g \in Links(N) /\ g.root = h.root
                /\ \A x \in N : x # b /\ x # n => g.node[x] = h.node[x]
                /\ g.node[b] = [h.node[b] EXCEPT !.parent = p, ![os] = n]
                /\ g.node[n] = [h.node[n] EXCEPT !.parent = b, ![side] = inner]
                /\ rotate(t, n, side) = SetParent(g, inner, n)
  <2>1. PICK rb : rb = [h.node[b] EXCEPT !.parent = p, ![os] = n]
    OBVIOUS
  <2>2. PICK rn : rn = [h.node[n] EXCEPT !.parent = b, ![side] = inner]
    OBVIOUS
  <2>3. PICK g : g = [h EXCEPT !.node[b] = [@ EXCEPT !.parent = p, ![os] = n],
                               !.node[n] = [@ EXCEPT !.parent = b, ![side] = inner]]
    OBVIOUS
  <2>4. rotate(t, n, side) = SetParent(g, inner, n)
    BY <1>2, <1>8, <1>9, <2>3 DEF rotate
  <2>5. g = [h EXCEPT !.node[b] = rb, !.node[n] = rn]
    BY <1>5, <1>10, <2>1, <2>2, <2>3 DEF Links
  <2>6. LET V == [parent : N \cup {NoNode}, left : N \cup {NoNode}, right : N \cup {NoNode}]
        IN h.node[b] \in V /\ h.node[n] \in V
    BY <1>10 DEF Links
  <2>7. LET V == [parent : N \cup {NoNode}, left : N \cup {NoNode}, right : N \cup {NoNode}]
        IN rb \in V /\ rn \in V
    BY <1>2, <1>3, <1>9, <2>1, <2>2, <2>6 DEF Sides
  <2>8. /\ g \in Links(N) /\ g.root = h.root
        /\ \A x \in N : x # b /\ x # n => g.node[x] = h.node[x]
        /\ g.node[b] = rb /\ g.node[n] = rn
    BY <1>5, <1>10, <2>5, <2>7 DEF Links
  <2>. QED
    BY <2>1, <2>2, <2>4, <2>8
<1>11. PICK u : u = SetParent(g, inner, n) /\ rotate(t, n, side) = u
  BY <1>12
<1>13. /\ u \in Links(N) /\ u.root = g.root
       /\ \A x \in N : /\ u.node[x].left = g.node[x].left
                       /\ u.node[x].right = g.node[x].right
                       /\ u.node[x].parent = IF x = inner THEN n ELSE g.node[x].parent
  <2>1. NoNode \notin N
    BY DEF IsLinked
  <2>2. g \in Links(N) /\ n \in N \cup {NoNode}
    BY <1>12
  <2>3. IsReparented(g, N, SetParent(g, inner, n), inner, n)
    BY <1>3, <2>1, <2>2, SetParentSets
  <2>4. IsReparented(g, N, u, inner, n)
    BY <1>11, <2>3
  <2>. QED
    BY <2>4 DEF IsReparented
<1>14. /\ u.root = IF t.root = n THEN b ELSE t.root
       /\ \A x \in N : /\ h.node[x].parent = t.node[x].parent
                       /\ h.node[x].left = IF t.node[x].left = n THEN b ELSE t.node[x].left
                       /\ h.node[x].right = IF t.node[x].right = n THEN b ELSE t.node[x].right
                       /\ h.node[x] \in [parent : N \cup {NoNode}, left : N \cup {NoNode}, right : N \cup {NoNode}]
  BY <1>8, <1>12, <1>13 DEF IsHung, Links
<1>16. ASSUME NEW x \in N, x # b, x # n
       PROVE  /\ u.node[x].parent = IF x = inner THEN n ELSE t.node[x].parent
              /\ u.node[x].left = IF t.node[x].left = n THEN b ELSE t.node[x].left
              /\ u.node[x].right = IF t.node[x].right = n THEN b ELSE t.node[x].right
  BY <1>12, <1>13, <1>14, <1>16
<1>15. /\ h.node[b] \in [parent : N \cup {NoNode}, left : N \cup {NoNode}, right : N \cup {NoNode}]
       /\ h.node[n] \in [parent : N \cup {NoNode}, left : N \cup {NoNode}, right : N \cup {NoNode}]
       /\ h.node[b].left = t.node[b].left /\ h.node[b].right = t.node[b].right
       /\ h.node[n].left = t.node[n].left /\ h.node[n].right = t.node[n].right
  BY <1>7, <1>14
<1>17. /\ g.node[b].parent = p
       /\ g.node[b].left = IF side = "right" THEN n ELSE t.node[b].left
       /\ g.node[b].right = IF side = "left" THEN n ELSE t.node[b].right
  <2>1. (side = "left" /\ os = "right") \/ (side = "right" /\ os = "left")
    BY <1>9 DEF Sides
  <2>. QED
    BY <1>12, <1>15, <2>1
<1>18. /\ g.node[n].parent = b
       /\ g.node[n].left = IF side = "left" THEN inner ELSE t.node[n].left
       /\ g.node[n].right = IF side = "right" THEN inner ELSE t.node[n].right
  <2>1. side = "left" \/ side = "right"
    BY DEF Sides
  <2>. QED
    BY <1>12, <1>15, <2>1
<1>19. IsTurned(t, N, u, n, side, b, inner)
  <2>1. u.node[b].parent = p /\ u.node[n].parent = b
    BY <1>7, <1>13, <1>17, <1>18
  <2>2. ASSUME NEW x \in N
        PROVE  u.node[x].parent = IF x = b THEN t.node[n].parent ELSE IF x = n THEN b
                                  ELSE IF x = inner THEN n ELSE t.node[x].parent
    BY <1>2, <1>16, <2>1
  <2>3. ASSUME NEW x \in N
        PROVE  /\ u.node[x].left = IF side = "right" /\ x = b THEN n ELSE IF side = "left" /\ x = n THEN inner
                                   ELSE IF t.node[x].left = n THEN b ELSE t.node[x].left
               /\ u.node[x].right = IF side = "left" /\ x = b THEN n ELSE IF side = "right" /\ x = n THEN inner
                                    ELSE IF t.node[x].right = n THEN b ELSE t.node[x].right
    <3>1. CASE x # b /\ x # n
      BY <1>16, <3>1
    <3>2. CASE x = b
      BY <1>5, <1>7, <1>13, <1>17, <3>2 DEF Sides
    <3>3. CASE x = n
      BY <1>5, <1>7, <1>13, <1>18, <3>3 DEF Sides
    <3>. QED
      BY <3>1, <3>2, <3>3
  <2>4. u \in Links(N) /\ u.root = IF t.root = n THEN b ELSE t.root
    BY <1>13, <1>14
  <2>. QED
    BY <2>2, <2>3, <2>4 DEF IsTurned
<1>. QED
  BY <1>11, <1>19

\* b is the branch of n on that side, and inner its own on the other side.
IsBranch(t, N, n, side, b, inner) ==
  n \in N /\ side \in Sides /\ b \in N /\ b = t.node[n][side] /\ inner = t.node[b][other(side)]

\* After a turn the links agree.
LEMMA TurnLinked ==
  ASSUME NEW t, NEW N, NEW lo, NEW hi, NEW low, NEW high, IsLinked(t, N), Spans(t, N, lo, hi, low, high),
         NEW n, NEW side, NEW b, NEW inner, IsBranch(t, N, n, side, b, inner), NEW u, IsTurned(t, N, u, n, side, b, inner)
  PROVE  IsLinked(u, N)
<1>1. n \in N /\ b \in N /\ HasOneLink(t, N, n) /\ HasOneLink(t, N, b)
  BY OneLink DEF IsBranch
<1>2. t \in Links(N) /\ u \in Links(N) /\ inner \in N \cup {NoNode} /\ N \subseteq Int /\ NoNode \notin N
  BY DEF IsLinked, Links, IsTurned, IsBranch, Sides, other
<1>3. inner \in N => HasOneLink(t, N, inner)
  BY OneLink
<1>4. t.node[b].parent = n /\ b # n /\ inner # b /\ inner # n /\ (inner # NoNode => t.node[inner].parent = b)
  BY <1>1, <1>2 DEF IsLinked, IsBranch, HasOneLink, Sides, other
<1>5. side = "left" \/ side = "right"
  BY DEF IsBranch, Sides
<1>6. /\ side = "left" => b = t.node[n].left /\ inner = t.node[b].right
      /\ side = "right" => b = t.node[n].right /\ inner = t.node[b].left
  BY DEF IsBranch, other
<1>7. u.root # NoNode /\ u.node[u.root].parent = NoNode
  <2>1. CASE t.root = n
    BY <1>1, <2>1 DEF IsTurned, HasOneLink
  <2>2. CASE t.root # n
    <3>1. t.root \in N /\ t.node[t.root].parent = NoNode
      BY <1>1, <1>2 DEF IsLinked, Links
    <3>2. u.root = t.root /\ t.root # b /\ t.root # inner
      <4>1. n # NoNode /\ b # NoNode
        BY <1>1 DEF HasOneLink
      <4>. QED
        BY <1>2, <1>4, <2>2, <3>1, <4>1 DEF IsTurned
    <3>. QED
      BY <1>2, <2>2, <3>1, <3>2 DEF IsTurned
  <2>. QED
    BY <2>1, <2>2
<1>8. ASSUME NEW x \in N, u.node[x].parent = NoNode PROVE x = u.root
  <2>0. n # NoNode /\ b # NoNode
    BY <1>1 DEF HasOneLink
  <2>1. CASE x = b
    <3>1. t.node[n].parent = NoNode
      BY <1>8, <2>1 DEF IsTurned
    <3>2. t.root = n
      BY <1>1, <3>1 DEF HasOneLink
    <3>. QED
      BY <2>1, <3>2 DEF IsTurned
  <2>2. (x # n /\ x # inner) \/ x = b
    BY <1>4, <1>8, <2>0 DEF IsTurned
  <2>3. CASE x # b
    <3>1. t.node[x].parent = NoNode
      BY <1>8, <2>2, <2>3 DEF IsTurned
    <3>2. t.root = x
      BY <3>1 DEF IsLinked
    <3>. QED
      BY <2>2, <2>3, <3>2 DEF IsTurned
  <2>. QED
    BY <2>1, <2>3
<1>9. ASSUME NEW x \in N, u.node[x].parent # NoNode
      PROVE  x = u.node[u.node[x].parent].left \/ x = u.node[u.node[x].parent].right
  <2>1. CASE x = b
    <3>0. t.node[n].parent = u.node[x].parent
      BY <2>1 DEF IsTurned
    <3>1. PICK q \in N : q = t.node[n].parent /\ q = u.node[x].parent /\ q # b /\ q # n
      <4>1. t.node[n].parent \in N
        BY <1>1, <1>2, <1>9, <3>0 DEF Links
      <4>2. t.node[n].parent # n /\ t.node[n].parent # b
        BY <1>1, <1>4 DEF HasOneLink
      <4>. QED
        BY <3>0, <4>1, <4>2
    <3>2. n = t.node[q].left \/ n = t.node[q].right
      BY <1>1, <1>2, <3>1 DEF IsLinked
    <3>. QED
      BY <2>1, <3>1, <3>2 DEF IsTurned
  <2>2. CASE x = n
    BY <1>1, <1>4, <1>5, <2>2 DEF IsTurned
  <2>3. CASE x = inner
    BY <1>1, <1>4, <1>5, <2>3 DEF IsTurned
  <2>4. CASE x # b /\ x # n /\ x # inner
    <3>1. PICK q \in N : q = t.node[x].parent /\ q = u.node[x].parent
      BY <1>2, <1>9, <2>4 DEF IsTurned, Links
    <3>2. x = t.node[q].left \/ x = t.node[q].right
      BY <1>2, <3>1, <1>9 DEF IsLinked
    <3>. QED
      BY <1>4, <1>5, <1>6, <2>4, <3>1, <3>2 DEF IsTurned
  <2>. QED
    BY <2>1, <2>2, <2>3, <2>4
<1>10. ASSUME NEW x \in N
       PROVE  /\ u.node[x].left # NoNode => u.node[u.node[x].left].parent = x
              /\ u.node[x].right # NoNode => u.node[u.node[x].right].parent = x
  <2>1. CASE x = b
    <3>1. PICK c : c = IF side = "left" THEN t.node[b].left ELSE t.node[b].right
      OBVIOUS
    <3>2. c # inner \/ c = NoNode
      <4>1. ASSUME inner # NoNode, c = inner PROVE FALSE
        <5>1. t.node[b].left = inner /\ t.node[b].right = inner
          BY <1>5, <1>6, <3>1, <4>1
        <5>. QED
          BY <1>1, <1>2, <1>3, <4>1, <5>1 DEF HasOneLink
      <4>. QED
        BY <4>1
    <3>3. c # NoNode => c \in N /\ t.node[c].parent = b /\ c # n /\ c # b
      <4>1. c # NoNode => c \in N /\ t.node[c].parent = b
        BY <1>1, <1>2, <3>1 DEF IsLinked, Links
      <4>2. c # n /\ c # b
        BY <1>1, <1>4, <3>1 DEF HasOneLink
      <4>. QED
        BY <4>1, <4>2
    <3>4. c # NoNode => u.node[c].parent = b
      BY <3>2, <3>3 DEF IsTurned
    <3>5. u.node[n].parent = b /\ t.node[b].left # n /\ t.node[b].right # n
      BY <1>1, <1>4 DEF IsTurned, HasOneLink
    <3>6. IF side = "left" THEN u.node[b].left = c /\ u.node[b].right = n ELSE u.node[b].left = n /\ u.node[b].right = c
      BY <1>1, <1>4, <1>5, <3>1, <3>5 DEF IsTurned
    <3>. QED
      BY <1>5, <2>1, <3>4, <3>5, <3>6
  <2>2. CASE x = n
    <3>1. PICK c : c = IF side = "left" THEN t.node[n].right ELSE t.node[n].left
      OBVIOUS
    <3>2. c # NoNode => c \in N /\ t.node[c].parent = n /\ c # n /\ c # b
      BY <1>1, <1>2, <1>5, <1>6, <3>1 DEF IsLinked, Links, HasOneLink
    <3>3. c # NoNode => c # inner
      BY <1>4, <3>2
    <3>4. c # NoNode => u.node[c].parent = n
      BY <3>2, <3>3 DEF IsTurned
    <3>5. inner # NoNode => u.node[inner].parent = n
      BY <1>2, <1>4 DEF IsTurned
    <3>6. t.node[n].left # n /\ t.node[n].right # n
      BY <1>1 DEF HasOneLink
    <3>7. IF side = "left" THEN u.node[n].left = inner /\ u.node[n].right = c
          ELSE u.node[n].left = c /\ u.node[n].right = inner
      BY <1>1, <1>4, <1>5, <3>1, <3>6 DEF IsTurned
    <3>. QED
      BY <1>5, <2>2, <3>4, <3>5, <3>7
  <2>3. CASE x # b /\ x # n
    <3>1. ASSUME NEW c \in N, c = t.node[x].left \/ c = t.node[x].right
          PROVE  t.node[c].parent = x /\ c # NoNode /\ c # b /\ c # inner
      BY <1>2, <1>4, <2>3, <3>1 DEF IsLinked
    <3>2. ASSUME NEW c \in N, c = u.node[x].left \/ c = u.node[x].right
          PROVE  u.node[c].parent = x
      <4>1. CASE c = b
        <5>1. t.node[x].left = n \/ t.node[x].right = n
          BY <2>3, <3>1, <3>2, <4>1 DEF IsTurned
        <5>. QED
          BY <1>1, <1>2, <4>1, <5>1 DEF IsTurned, IsLinked
      <4>2. CASE c # b
        <5>1. (c = t.node[x].left \/ c = t.node[x].right) /\ c # n
          BY <2>3, <3>2, <4>2 DEF IsTurned
        <5>. QED
          BY <3>1, <4>2, <5>1 DEF IsTurned
      <4>. QED
        BY <4>1, <4>2
    <3>. QED
      BY <1>2, <3>2 DEF Links
  <2>. QED
    BY <2>1, <2>2, <2>3
<1>. QED
  BY <1>2, <1>7, <1>8, <1>9, <1>10 DEF IsLinked, Links

\* What the branches reach after the turn.
TurnedLo(lo, N, n, side, b) == [x \in N |-> IF x = b THEN lo[n] ELSE IF x = n /\ side = "left" THEN b ELSE lo[x]]
TurnedHi(hi, N, n, side, b) == [x \in N |-> IF x = b THEN hi[n] ELSE IF x = n /\ side = "right" THEN b ELSE hi[x]]

\* After a turn the branches reach from the new bounds to the others.
LEMMA TurnSpans ==
  ASSUME NEW t, NEW N, NEW lo, NEW hi, NEW low, NEW high, IsLinked(t, N), Spans(t, N, lo, hi, low, high),
         NEW n, NEW side, NEW b, NEW inner, IsBranch(t, N, n, side, b, inner), NEW u, IsTurned(t, N, u, n, side, b, inner),
         NEW l, NEW h, l = TurnedLo(lo, N, n, side, b), h = TurnedHi(hi, N, n, side, b)
  PROVE  Spans(u, N, l, h, low, high)
<1>1. /\ n \in N /\ b \in N /\ n # b /\ low \in Int /\ high \in Int
      /\ \A m \in N : m \in Int /\ lo[m] \in Int /\ hi[m] \in Int /\ lo[m] \in N \cup {low} /\ hi[m] \in N \cup {high}
  <2>1. n \in N /\ b \in N /\ HasOneLink(t, N, n)
    BY OneLink DEF IsBranch
  <2>2. n # b
    BY <2>1 DEF HasOneLink, IsBranch, Sides
  <2>3. \A m \in N : m \in Int /\ lo[m] \in Int /\ hi[m] \in Int
    BY BoundsAreInt
  <2>. QED
    BY <2>1, <2>2, <2>3 DEF Spans
<1>2. \A m \in N : low <= lo[m] /\ lo[m] < m /\ m < hi[m] /\ hi[m] <= high
  BY DEF Spans
<1>3. /\ l \in [N -> N \cup {low}] /\ h \in [N -> N \cup {high}]
      /\ \A x \in N : /\ l[x] = IF x = b THEN lo[n] ELSE IF x = n /\ side = "left" THEN b ELSE lo[x]
                      /\ h[x] = IF x = b THEN hi[n] ELSE IF x = n /\ side = "right" THEN b ELSE hi[x]
  BY <1>1 DEF TurnedLo, TurnedHi
<1>4. (side = "left" /\ lo[b] = lo[n] /\ hi[b] = n) \/ (side = "right" /\ lo[b] = n /\ hi[b] = hi[n])
  <2>1. b # NoNode
    BY <1>1 DEF IsLinked
  <2>. QED
    BY <1>1, <2>1 DEF IsBranch, Sides, Spans
<1>5. \A m \in N : low <= l[m] /\ l[m] < m /\ m < h[m] /\ h[m] <= high
  <2>1. ASSUME NEW m \in N PROVE low <= l[m] /\ l[m] < m
    BY <1>1, <1>2, <1>3, <1>4
  <2>2. ASSUME NEW m \in N PROVE m < h[m] /\ h[m] <= high
    BY <1>1, <1>2, <1>3, <1>4
  <2>. QED
    BY <2>1, <2>2
<1>6. u.root # NoNode => l[u.root] = low /\ h[u.root] = high
  <2>1. CASE t.root = n
    BY <1>1, <1>3, <2>1 DEF IsTurned, Spans, IsLinked
  <2>2. CASE t.root # n
    <3>1. t.root # b
      <4>1. HasOneLink(t, N, b)
        BY <1>1, OneLink
      <4>2. n # NoNode /\ b # NoNode
        BY <1>1 DEF IsLinked
      <4>3. t.node[b].parent = n
        BY <1>1, <4>2 DEF IsLinked, IsBranch, Sides
      <4>. QED
        BY <4>1, <4>2, <4>3 DEF HasOneLink
    <3>2. u.root = t.root /\ (t.root # NoNode => t.root \in N /\ lo[t.root] = low /\ hi[t.root] = high)
      BY <2>2 DEF IsTurned, Spans, IsLinked
    <3>. QED
      BY <1>1, <1>3, <2>2, <3>1, <3>2
  <2>. QED
    BY <2>1, <2>2
<1>7. b # NoNode /\ (inner # NoNode => inner \in N)
      /\ (side = "left" => b = t.node[n].left /\ inner = t.node[b].right)
      /\ (side = "right" => b = t.node[n].right /\ inner = t.node[b].left)
  BY DEF IsLinked, IsBranch, Sides, other
<1>8. HasOneLink(t, N, b) /\ HasOneLink(t, N, n) /\ t.node[b].parent = n
  <2>1. t.node[b].parent = n
    BY <1>1, <1>4, <1>7 DEF IsLinked
  <2>. QED
    BY <1>1, <2>1, OneLink
<1>9. inner # b /\ inner # n
  <2>1. inner # b
    BY <1>4, <1>7, <1>8 DEF HasOneLink
  <2>2. inner # n
    <3>1. t.node[b].parent = n
      BY <1>1, <1>4, <1>7 DEF IsLinked
    <3>. QED
      BY <1>1, <1>4, <1>7, <1>8, <3>1 DEF HasOneLink
  <2>. QED
    BY <2>1, <2>2
<1>10. ASSUME NEW m \in N, NEW c, c = u.node[m].left, c # NoNode PROVE l[c] = l[m] /\ h[c] = m
  <2>1. CASE m = b /\ side = "right"
    <3>1. c = n
      BY <1>1, <1>10, <2>1 DEF IsTurned
    <3>. QED
      BY <1>1, <1>3, <2>1, <3>1
  <2>2. CASE m = n /\ side = "left"
    <3>1. c = inner /\ c \in N
      BY <1>1, <1>7, <1>10, <2>2 DEF IsTurned
    <3>2. lo[inner] = b /\ hi[inner] = hi[b]
      BY <1>1, <1>7, <1>10, <2>2, <3>1 DEF Spans
    <3>. QED
      BY <1>1, <1>3, <1>4, <1>9, <2>2, <3>1, <3>2
  <2>3. CASE ~(m = b /\ side = "right") /\ ~(m = n /\ side = "left")
    <3>1. c = IF t.node[m].left = n THEN b ELSE t.node[m].left
      BY <1>1, <1>10, <2>3 DEF IsTurned
    <3>2. CASE t.node[m].left = n
      <4>1. lo[n] = lo[m] /\ hi[n] = m /\ m # n /\ m # b
        <5>1. n # NoNode /\ m = t.node[n].parent
          BY <1>8, <3>2 DEF HasOneLink
        <5>2. m # n /\ m # b
          BY <1>1, <1>7, <1>8, <1>4, <5>1 DEF HasOneLink, IsLinked
        <5>. QED
          BY <3>2, <5>1, <5>2 DEF Spans
      <4>. QED
        BY <1>1, <1>3, <3>1, <3>2, <4>1
    <3>3. CASE t.node[m].left # n
      <4>1. c = t.node[m].left /\ c \in N /\ lo[c] = lo[m] /\ hi[c] = m
        BY <1>10, <3>1, <3>3 DEF Spans, IsLinked
      <4>2. c # b
        <5>1. c = b => m = n
          BY <1>8, <1>10, <4>1 DEF IsLinked
        <5>2. ASSUME m = n PROVE c # b
          <6>1. side = "right" /\ t.node[n].right = b /\ t.node[n].left = c
            BY <1>4, <1>7, <2>3, <4>1, <5>2
          <6>. QED
            BY <1>1, <1>8, <6>1 DEF HasOneLink
        <5>. QED
          BY <5>1, <5>2
      <4>3. c # n
        BY <3>3, <4>1
      <4>. QED
        BY <1>1, <1>3, <1>4, <2>3, <4>1, <4>2, <4>3
    <3>. QED
      BY <3>2, <3>3
  <2>. QED
    BY <2>1, <2>2, <2>3
<1>11. ASSUME NEW m \in N, NEW c, c = u.node[m].right, c # NoNode PROVE l[c] = m /\ h[c] = h[m]
  <2>1. CASE m = b /\ side = "left"
    <3>1. c = n
      BY <1>1, <1>11, <2>1 DEF IsTurned
    <3>. QED
      BY <1>1, <1>3, <2>1, <3>1
  <2>2. CASE m = n /\ side = "right"
    <3>1. c = inner /\ c \in N
      BY <1>1, <1>7, <1>11, <2>2 DEF IsTurned
    <3>2. lo[inner] = lo[b] /\ hi[inner] = b
      BY <1>1, <1>7, <1>11, <2>2, <3>1 DEF Spans
    <3>. QED
      BY <1>1, <1>3, <1>4, <1>9, <2>2, <3>1, <3>2
  <2>3. CASE ~(m = b /\ side = "left") /\ ~(m = n /\ side = "right")
    <3>1. c = IF t.node[m].right = n THEN b ELSE t.node[m].right
      BY <1>1, <1>11, <2>3 DEF IsTurned
    <3>2. CASE t.node[m].right = n
      <4>1. lo[n] = m /\ hi[n] = hi[m] /\ m # n /\ m # b
        <5>1. n # NoNode /\ m = t.node[n].parent
          BY <1>8, <3>2 DEF HasOneLink
        <5>2. m # n /\ m # b
          BY <1>1, <1>7, <1>8, <1>4, <5>1 DEF HasOneLink, IsLinked
        <5>. QED
          BY <3>2, <5>1, <5>2 DEF Spans
      <4>. QED
        BY <1>1, <1>3, <3>1, <3>2, <4>1
    <3>3. CASE t.node[m].right # n
      <4>1. c = t.node[m].right /\ c \in N /\ lo[c] = m /\ hi[c] = hi[m]
        BY <1>11, <3>1, <3>3 DEF Spans, IsLinked
      <4>2. c # b
        <5>1. c = b => m = n
          BY <1>8, <1>11, <4>1 DEF IsLinked
        <5>2. ASSUME m = n PROVE c # b
          <6>1. side = "left" /\ t.node[n].left = b /\ t.node[n].right = c
            BY <1>4, <1>7, <2>3, <4>1, <5>2
          <6>. QED
            BY <1>1, <1>8, <6>1 DEF HasOneLink
        <5>. QED
          BY <5>1, <5>2
      <4>3. c # n
        BY <3>3, <4>1
      <4>. QED
        BY <1>1, <1>3, <1>4, <2>3, <4>1, <4>2, <4>3
    <3>. QED
      BY <3>2, <3>3
  <2>. QED
    BY <2>1, <2>2, <2>3
<1>. QED
  BY <1>1, <1>3, <1>5, <1>6, <1>10, <1>11 DEF Spans

\* After a turn the branches are one in the other, or side by side.
LEMMA TurnNested ==
  ASSUME NEW t, NEW N, NEW lo, NEW hi, NEW low, NEW high, IsSearchTree(t, N, lo, hi, low, high),
         NEW n, NEW side, NEW b, NEW inner, IsBranch(t, N, n, side, b, inner), NEW u, IsTurned(t, N, u, n, side, b, inner),
         NEW l, NEW h, l = TurnedLo(lo, N, n, side, b), h = TurnedHi(hi, N, n, side, b)
  PROVE  Nested(u, N, l, h)
<1>1. IsLinked(t, N) /\ Spans(t, N, lo, hi, low, high) /\ Nested(t, N, lo, hi)
  BY DEF IsSearchTree
<1>2. n \in N /\ b \in N /\ b # NoNode
  BY <1>1 DEF IsBranch, IsLinked
<1>3. \A m \in N : m \in Int /\ lo[m] \in Int /\ hi[m] \in Int
  BY <1>1, BoundsAreInt
<1>4. \A m \in N : lo[m] < m /\ m < hi[m]
  BY <1>1 DEF Spans
<1>5. \A x \in N : /\ l[x] = IF x = b THEN lo[n] ELSE IF x = n /\ side = "left" THEN b ELSE lo[x]
                   /\ h[x] = IF x = b THEN hi[n] ELSE IF x = n /\ side = "right" THEN b ELSE hi[x]
  BY DEF TurnedLo, TurnedHi
<1>6. \/ /\ side = "left" /\ lo[b] = lo[n] /\ hi[b] = n /\ b < n
         /\ b = t.node[n].left /\ inner = t.node[b].right
      \/ /\ side = "right" /\ lo[b] = n /\ hi[b] = hi[n] /\ n < b
         /\ b = t.node[n].right /\ inner = t.node[b].left
  <2>1. side = "left" \/ side = "right"
    BY DEF IsBranch, Sides
  <2>2. /\ side = "left" => b = t.node[n].left /\ inner = t.node[b].right
        /\ side = "right" => b = t.node[n].right /\ inner = t.node[b].left
    BY DEF IsBranch, other
  <2>3. /\ side = "left" => lo[b] = lo[n] /\ hi[b] = n
        /\ side = "right" => lo[b] = n /\ hi[b] = hi[n]
    BY <1>1, <1>2, <2>2 DEF Spans
  <2>. QED
    BY <1>2, <1>4, <2>1, <2>2, <2>3
<1>7. ASSUME NEW x \in N
      PROVE  /\ (t.node[x].left # NoNode /\ x # n /\ x # b) => u.node[x].left # NoNode
             /\ (t.node[x].right # NoNode /\ x # n /\ x # b) => u.node[x].right # NoNode
             /\ side = "right" => /\ u.node[b].left # NoNode
                                  /\ t.node[n].left # NoNode => u.node[n].left # NoNode
                                  /\ t.node[b].right # NoNode => u.node[b].right # NoNode
                                  /\ t.node[b].left # NoNode => u.node[n].right # NoNode
             /\ side = "left" => /\ u.node[b].right # NoNode
                                 /\ t.node[n].right # NoNode => u.node[n].right # NoNode
                                 /\ t.node[b].left # NoNode => u.node[b].left # NoNode
                                 /\ t.node[b].right # NoNode => u.node[n].left # NoNode
  <2>1. n # NoNode
    BY <1>1, <1>2 DEF IsLinked
  <2>2. b # n
    BY <1>2, <1>3, <1>6
  <2>. QED
    BY <1>2, <1>6, <2>1, <2>2 DEF IsTurned
<1> DEFINE Apart(m, k) == \/ u.node[k].left # NoNode /\ l[k] <= l[m] /\ h[m] <= k
                          \/ u.node[m].right # NoNode /\ m <= l[k] /\ h[k] <= h[m]
                          \/ h[m] <= l[k]
           WasApart(m, k) == \/ t.node[k].left # NoNode /\ lo[k] <= lo[m] /\ hi[m] <= k
                             \/ t.node[m].right # NoNode /\ m <= lo[k] /\ hi[k] <= hi[m]
                             \/ hi[m] <= lo[k]
<1>8. \A m, k \in N : m < k => WasApart(m, k)
  BY <1>1 DEF Nested
<1>9. ASSUME side = "right", NEW m \in N, NEW k \in N, m < k PROVE Apart(m, k)
  <2>1. lo[b] = n /\ hi[b] = hi[n] /\ n < b
    BY <1>6, <1>9
  <2>2. CASE m \notin {n, b} /\ k \notin {n, b}
    <3>1. l[m] = lo[m] /\ h[m] = hi[m] /\ l[k] = lo[k] /\ h[k] = hi[k]
      BY <1>5, <2>2
    <3>. QED
      BY <1>7, <1>8, <1>9, <2>2, <3>1
  <2>3. CASE m = n /\ k = b
    BY <1>2, <1>3, <1>5, <1>7, <1>9, <2>1, <2>3
  <2>4. CASE m = n /\ k # b
    <3>1. l[m] = lo[n] /\ h[m] = b /\ l[k] = lo[k] /\ h[k] = hi[k] /\ k # n
      BY <1>3, <1>5, <1>9, <2>1, <2>4
    <3>2. WasApart(n, k) /\ (k < b => WasApart(k, b)) /\ (b < k => WasApart(b, k))
      BY <1>2, <1>8, <1>9, <2>4
    <3>. QED
      BY <1>2, <1>3, <1>4, <1>7, <1>9, <2>1, <2>4, <3>1, <3>2
  <2>5. CASE k = n
    <3>1. l[m] = lo[m] /\ h[m] = hi[m] /\ l[k] = lo[n] /\ h[k] = b /\ m # n /\ m # b
      BY <1>2, <1>3, <1>5, <1>9, <2>1, <2>5
    <3>2. WasApart(m, n)
      BY <1>2, <1>8, <1>9, <2>5
    <3>. QED
      BY <1>2, <1>3, <1>4, <1>7, <1>9, <2>1, <2>5, <3>1, <3>2
  <2>6. CASE m = b
    <3>1. l[m] = lo[n] /\ h[m] = hi[n] /\ l[k] = lo[k] /\ h[k] = hi[k] /\ k # n /\ k # b
      BY <1>2, <1>3, <1>5, <1>9, <2>1, <2>6
    <3>2. WasApart(b, k) /\ WasApart(n, k)
      BY <1>2, <1>3, <1>8, <1>9, <2>1, <2>6
    <3>. QED
      BY <1>2, <1>3, <1>4, <1>7, <1>9, <2>1, <2>6, <3>1, <3>2
  <2>7. CASE m # n /\ k = b
    <3>1. l[m] = lo[m] /\ h[m] = hi[m] /\ l[k] = lo[n] /\ h[k] = hi[n] /\ m # b
      BY <1>2, <1>3, <1>5, <1>9, <2>1, <2>7
    <3>2. WasApart(m, b) /\ (m < n => WasApart(m, n)) /\ (n < m => WasApart(n, m))
      BY <1>2, <1>8, <1>9, <2>7
    <3>. QED
      BY <1>2, <1>3, <1>4, <1>7, <1>9, <2>1, <2>7, <3>1, <3>2
  <2>. QED
    BY <2>2, <2>3, <2>4, <2>5, <2>6, <2>7
<1>10. ASSUME side = "left", NEW m \in N, NEW k \in N, m < k PROVE Apart(m, k)
  <2>1. lo[b] = lo[n] /\ hi[b] = n /\ b < n
    BY <1>6, <1>10
  <2>2. CASE m \notin {n, b} /\ k \notin {n, b}
    <3>1. l[m] = lo[m] /\ h[m] = hi[m] /\ l[k] = lo[k] /\ h[k] = hi[k]
      BY <1>5, <2>2
    <3>. QED
      BY <1>7, <1>8, <1>10, <2>2, <3>1
  <2>3. CASE m = b /\ k = n
    BY <1>2, <1>3, <1>5, <1>7, <1>10, <2>1, <2>3
  <2>4. CASE k = n /\ m # b
    <3>1. l[m] = lo[m] /\ h[m] = hi[m] /\ l[k] = b /\ h[k] = hi[n] /\ m # n
      BY <1>3, <1>5, <1>10, <2>1, <2>4
    <3>2. WasApart(m, n) /\ (m < b => WasApart(m, b)) /\ (b < m => WasApart(b, m))
      BY <1>2, <1>8, <1>10, <2>4
    <3>. QED
      BY <1>2, <1>3, <1>4, <1>7, <1>10, <2>1, <2>4, <3>1, <3>2
  <2>5. CASE m = n
    <3>1. l[m] = b /\ h[m] = hi[n] /\ l[k] = lo[k] /\ h[k] = hi[k] /\ k # n /\ k # b
      BY <1>2, <1>3, <1>5, <1>10, <2>1, <2>5
    <3>2. WasApart(n, k)
      BY <1>2, <1>8, <1>10, <2>5
    <3>. QED
      BY <1>2, <1>3, <1>4, <1>7, <1>10, <2>1, <2>5, <3>1, <3>2
  <2>6. CASE k = b
    <3>1. l[m] = lo[m] /\ h[m] = hi[m] /\ l[k] = lo[n] /\ h[k] = hi[n] /\ m # n /\ m # b
      BY <1>2, <1>3, <1>5, <1>10, <2>1, <2>6
    <3>2. WasApart(m, b) /\ WasApart(m, n)
      BY <1>2, <1>3, <1>8, <1>10, <2>1, <2>6
    <3>. QED
      BY <1>2, <1>3, <1>4, <1>7, <1>10, <2>1, <2>6, <3>1, <3>2
  <2>7. CASE m = b /\ k # n
    <3>1. l[m] = lo[n] /\ h[m] = hi[n] /\ l[k] = lo[k] /\ h[k] = hi[k] /\ k # b
      BY <1>2, <1>3, <1>5, <1>10, <2>1, <2>7
    <3>2. WasApart(b, k) /\ (k < n => WasApart(k, n)) /\ (n < k => WasApart(n, k))
      BY <1>2, <1>8, <1>10, <2>7
    <3>. QED
      BY <1>2, <1>3, <1>4, <1>7, <1>10, <2>1, <2>7, <3>1, <3>2
  <2>. QED
    BY <2>2, <2>3, <2>4, <2>5, <2>6, <2>7
<1>11. \A m, k \in N : m < k => Apart(m, k)
  BY <1>6, <1>9, <1>10
<1>. QED
  BY <1>11 DEF Nested

\* After a turn it is a search tree of the same values.
LEMMA RotateKeeps ==
  ASSUME NEW t, NEW N, NEW lo, NEW hi, NEW low, NEW high, IsSearchTree(t, N, lo, hi, low, high),
         NEW n \in N, NEW side \in Sides, t.node[n][side] # NoNode
  PROVE  /\ \E l, h : IsSearchTree(rotate(t, n, side), N, l, h, low, high)
         /\ IsTurned(t, N, rotate(t, n, side), n, side, t.node[n][side], t.node[t.node[n][side]][other(side)])
<1>1. IsLinked(t, N) /\ Spans(t, N, lo, hi, low, high)
  BY DEF IsSearchTree
<1>2. PICK b \in N : b = t.node[n][side]
  <2>1. t.node[n].left \in N \cup {NoNode} /\ t.node[n].right \in N \cup {NoNode}
    BY <1>1 DEF IsLinked
  <2>2. t.node[n][side] \in N \cup {NoNode}
    BY <2>1 DEF Sides
  <2>. QED
    BY <2>2
<1>3. PICK inner : inner = t.node[b][other(side)]
  OBVIOUS
<1>4. PICK u : u = rotate(t, n, side) /\ IsTurned(t, N, u, n, side, b, inner)
  BY <1>1, <1>2, <1>3, RotateTurns
<1>5. IsBranch(t, N, n, side, b, inner)
  BY <1>2, <1>3 DEF IsBranch
<1>6. PICK l : l = TurnedLo(lo, N, n, side, b)
  OBVIOUS
<1>7. PICK h : h = TurnedHi(hi, N, n, side, b)
  OBVIOUS
<1>8. IsLinked(u, N)
  BY <1>1, <1>4, <1>5, TurnLinked
<1>9. Spans(u, N, l, h, low, high)
  BY <1>1, <1>4, <1>5, <1>6, <1>7, TurnSpans
<1>10. Nested(u, N, l, h)
  BY <1>4, <1>5, <1>6, <1>7, TurnNested
<1>. QED
  BY <1>2, <1>3, <1>4, <1>8, <1>9, <1>10 DEF IsSearchTree

\* One step of balance() at a branch that is too heavy turns a search tree.
LEMMA TooHeavyKeeps ==
  ASSUME NEW t, NEW N, NEW lo, NEW hi, NEW low, NEW high, IsSearchTree(t, N, lo, hi, low, high),
         NEW n \in N, NEW side \in Sides, t.node[n][side] # NoNode
  PROVE  /\ \E l, h : IsSearchTree(TooHeavy(t, n, side).tree, N, l, h, low, high)
         /\ TooHeavy(t, n, side).node \in N \cup {NoNode}
<1>1. IsLinked(t, N) /\ Spans(t, N, lo, hi, low, high)
  BY DEF IsSearchTree
<1>2. PICK b \in N : b = t.node[n][side]
  <2>1. t.node[n].left \in N \cup {NoNode} /\ t.node[n].right \in N \cup {NoNode}
    BY <1>1 DEF IsLinked
  <2>. QED
    BY <2>1 DEF Sides
<1>3. PICK os \in Sides : os = other(side) /\ os # side
  BY DEF Sides, other
<1>4. PICK inner \in N \cup {NoNode} : inner = t.node[b][os]
  <2>1. t.node[b].left \in N \cup {NoNode} /\ t.node[b].right \in N \cup {NoNode}
    BY <1>1 DEF IsLinked
  <2>. QED
    BY <2>1 DEF Sides
<1>5. CASE weight(t, t.node[b][side]) < weight(t, inner)
  <2>1. inner # NoNode
    <3>1. t.node[b][side] \in N \cup {NoNode}
      BY <1>1 DEF IsLinked, Sides
    <3>2. weight(t, t.node[b][side]) \in Nat
      BY <1>1, <3>1, WeightAndDepth
    <3>3. weight(t, inner) \in Nat /\ (weight(t, inner) = 0 <=> inner = NoNode)
      BY <1>1, WeightAndDepth
    <3>. QED
      BY <1>5, <3>2, <3>3
  <2>2. PICK u : /\ u = rotate(t, b, os) /\ \E l, h : IsSearchTree(u, N, l, h, low, high)
                 /\ IsTurned(t, N, u, b, os, inner, t.node[inner][other(os)])
    BY <1>4, <2>1, RotateKeeps
  <2>3. u.node[n][side] # NoNode
    <3>1. n # b
      <4>1. HasOneLink(t, N, n)
        BY <1>1, OneLink
      <4>. QED
        BY <1>2, <4>1 DEF HasOneLink, Sides
    <3>2. b # NoNode
      BY <1>1 DEF IsLinked
    <3>. QED
      BY <1>2, <1>3, <2>1, <2>2, <3>1, <3>2 DEF IsTurned, Sides
  <2>4. \E l, h : IsSearchTree(rotate(u, n, side), N, l, h, low, high)
    BY <2>2, <2>3, RotateKeeps
  <2>5. TooHeavy(t, n, side) = [tree |-> rotate(u, n, side), node |-> inner]
    BY <1>2, <1>3, <1>4, <1>5, <2>2 DEF TooHeavy
  <2>. QED
    BY <2>4, <2>5
<1>6. CASE ~(weight(t, t.node[b][side]) < weight(t, inner))
  <2>1. TooHeavy(t, n, side) = [tree |-> rotate(t, n, side), node |-> t.node[n].parent]
    BY <1>2, <1>3, <1>4, <1>6 DEF TooHeavy
  <2>2. t.node[n].parent \in N \cup {NoNode}
    BY <1>1 DEF IsLinked
  <2>3. \E l, h : IsSearchTree(rotate(t, n, side), N, l, h, low, high)
    BY RotateKeeps
  <2>. QED
    BY <2>1, <2>2, <2>3
<1>. QED
  BY <1>5, <1>6

\* After one turn of the loop of balance() it is a search tree of the same values.
LEMMA BalancedKeeps ==
  ASSUME NEW t, NEW N, NEW lo, NEW hi, NEW low, NEW high, IsSearchTree(t, N, lo, hi, low, high), NEW n \in N
  PROVE  /\ \E l, h : IsSearchTree(Balanced(t, n).tree, N, l, h, low, high)
         /\ Balanced(t, n).node \in N \cup {NoNode}
<1>1. IsLinked(t, N) /\ Spans(t, N, lo, hi, low, high)
  BY DEF IsSearchTree
<1>2. PICK b : b = Balanced(t, n)
  OBVIOUS
<1>3. /\ t.node[n].left \in N \cup {NoNode} /\ t.node[n].right \in N \cup {NoNode}
      /\ t.node[n].parent \in N \cup {NoNode}
  BY <1>1 DEF IsLinked
<1>4. /\ deep(t, t.node[n].left) \in Nat /\ (deep(t, t.node[n].left) = 0 <=> t.node[n].left = NoNode)
      /\ deep(t, t.node[n].right) \in Nat /\ (deep(t, t.node[n].right) = 0 <=> t.node[n].right = NoNode)
  BY <1>1, <1>3, WeightAndDepth
<1>5. \/ deep(t, t.node[n].left) < deep(t, t.node[n].right) /\ b = TooHeavy(t, n, "right")
      \/ deep(t, t.node[n].right) < deep(t, t.node[n].left) /\ b = TooHeavy(t, n, "left")
      \/ b = [tree |-> t, node |-> t.node[n].parent]
  BY <1>2 DEF Balanced
<1>6. CASE deep(t, t.node[n].left) < deep(t, t.node[n].right) /\ b = TooHeavy(t, n, "right")
  <2>1. "right" \in Sides /\ t.node[n]["right"] # NoNode
    BY <1>4, <1>6 DEF Sides
  <2>. QED
    BY <1>2, <1>6, <2>1, TooHeavyKeeps
<1>7. CASE deep(t, t.node[n].right) < deep(t, t.node[n].left) /\ b = TooHeavy(t, n, "left")
  <2>1. "left" \in Sides /\ t.node[n]["left"] # NoNode
    BY <1>4, <1>7 DEF Sides
  <2>. QED
    BY <1>2, <1>7, <2>1, TooHeavyKeeps
<1>8. CASE b = [tree |-> t, node |-> t.node[n].parent]
  BY <1>2, <1>3, <1>8
<1>. QED
  BY <1>5, <1>6, <1>7, <1>8

-----------------------------------------------------------------------------
(***************************************************************************)
(* tree_t: adding                                                          *)
(***************************************************************************)

\* What add() makes of the links: a leaf v below p, or as the root.
IsGrown(t, N, u, v, p) ==
  /\ u \in Links(N \cup {v})
  /\ u.root = IF p = NoNode THEN v ELSE t.root
  /\ u.node[v] = [parent |-> p, left |-> NoNode, right |-> NoNode]
  /\ \A x \in N : /\ u.node[x].parent = t.node[x].parent
                  /\ u.node[x].left = IF x = p /\ v < p THEN v ELSE t.node[x].left
                  /\ u.node[x].right = IF x = p /\ p < v THEN v ELSE t.node[x].right

\* What add() does to the links.
LEMMA AddGrows ==
  ASSUME NEW t, NEW N, t \in Links(N), N \subseteq Int, NoNode \notin N, NEW v \in Int, v \notin N, v # NoNode,
         NEW p \in N \cup {NoNode}, p = IF t.root = NoNode THEN NoNode ELSE Place(t, t.root, v)
  PROVE  IsGrown(t, N, add(t, v), v, p)
<1>1. PICK leaf : leaf = [parent |-> p, left |-> NoNode, right |-> NoNode]
  OBVIOUS
<1>2. PICK g : g = [t EXCEPT !.node = [n \in DOMAIN @ \cup {v} |-> IF n = v THEN leaf ELSE @[n]]]
  OBVIOUS
<1>3. /\ g \in Links(N \cup {v}) /\ g.root = t.root /\ g.node[v] = leaf
      /\ \A x \in N : g.node[x] = t.node[x]
  <2>1. DOMAIN t.node = N
    BY DEF Links
  <2>2. g = [t EXCEPT !.node = [n \in N \cup {v} |-> IF n = v THEN leaf ELSE t.node[n]]]
    BY <1>2, <2>1 DEF Links
  <2>3. PICK f : f = [n \in N \cup {v} |-> IF n = v THEN leaf ELSE t.node[n]]
    OBVIOUS
  <2>4. leaf \in [parent : N \cup {v} \cup {NoNode}, left : N \cup {v} \cup {NoNode}, right : N \cup {v} \cup {NoNode}]
    BY <1>1
  <2>5. \A x \in N : t.node[x] \in [parent : N \cup {v} \cup {NoNode}, left : N \cup {v} \cup {NoNode},
                                     right : N \cup {v} \cup {NoNode}]
    BY DEF Links
  <2>6. f \in [N \cup {v} -> [parent : N \cup {v} \cup {NoNode}, left : N \cup {v} \cup {NoNode},
                               right : N \cup {v} \cup {NoNode}]]
    BY <2>3, <2>4, <2>5
  <2>7. g.root = t.root /\ g.node = f /\ g = [root |-> t.root, node |-> f] /\ t.root \in N \cup {NoNode}
    BY <2>2, <2>3 DEF Links
  <2>. QED
    BY <2>3, <2>6, <2>7 DEF Links
<1>4. p # v
  OBVIOUS
<1>5. CASE p = NoNode
  <2>1. add(t, v) = [g EXCEPT !.root = v]
    BY <1>1, <1>2, <1>4, <1>5 DEF add
  <2>. QED
    BY <1>1, <1>3, <1>5, <2>1 DEF IsGrown, Links
<1>6. CASE p # NoNode
  <2>1. PICK s \in Sides : s = IF v < p THEN "left" ELSE "right"
    BY DEF Sides
  <2>2. PICK u : u = [g EXCEPT !.node[p][s] = v]
    OBVIOUS
  <2>3. add(t, v) = u
    BY <1>1, <1>2, <1>4, <1>6, <2>1, <2>2 DEF add
  <2>4. PICK r : r = [t.node[p] EXCEPT ![s] = v]
    OBVIOUS
  <2>5. p \in N /\ t.node[p] \in [parent : N \cup {NoNode}, left : N \cup {NoNode}, right : N \cup {NoNode}]
    BY <1>6 DEF Links
  <2>6. /\ r \in [parent : N \cup {v} \cup {NoNode}, left : N \cup {v} \cup {NoNode}, right : N \cup {v} \cup {NoNode}]
        /\ r.parent = t.node[p].parent
        /\ r.left = IF v < p THEN v ELSE t.node[p].left
        /\ r.right = IF v < p THEN t.node[p].right ELSE v
    BY <2>1, <2>4, <2>5 DEF Sides
  <2>7. u = [g EXCEPT !.node[p] = r]
    BY <1>3, <2>2, <2>4, <2>5 DEF Links
  <2>8. u \in Links(N \cup {v}) /\ u.root = g.root /\ u.node[p] = r /\ \A x \in N \cup {v} : x # p => u.node[x] = g.node[x]
    BY <1>3, <2>5, <2>6, <2>7 DEF Links
  <2>9. p \in Int
    BY <2>5
  <2>10. (v < p \/ p < v) /\ ~(v < p /\ p < v)
    BY <1>4, <2>9
  <2>11. u.root = t.root /\ u.node[v] = leaf
    BY <1>3, <1>4, <2>8
  <2>12. ASSUME NEW x \in N
         PROVE  /\ u.node[x].parent = t.node[x].parent
                /\ u.node[x].left = IF x = p /\ v < p THEN v ELSE t.node[x].left
                /\ u.node[x].right = IF x = p /\ p < v THEN v ELSE t.node[x].right
    <3>1. CASE x = p
      BY <2>6, <2>8, <2>9, <2>10, <3>1
    <3>2. CASE x # p
      BY <1>3, <2>8, <3>2
    <3>. QED
      BY <3>1, <3>2
  <2>. QED
    BY <1>1, <1>6, <2>3, <2>8, <2>11, <2>12 DEF IsGrown
<1>. QED
  BY <1>5, <1>6

\* What the branches reach with the new leaf.
GrownLo(lo, N, low, v, p) == [x \in N \cup {v} |-> IF x # v THEN lo[x] ELSE IF p = NoNode THEN low ELSE IF v < p THEN lo[p] ELSE p]
GrownHi(hi, N, high, v, p) == [x \in N \cup {v} |-> IF x # v THEN hi[x] ELSE IF p = NoNode THEN high ELSE IF v < p THEN p ELSE hi[p]]

\* The first value makes a search tree.
LEMMA FirstGrows ==
  ASSUME NEW t, t \in Links({}), NEW v \in Int, v # NoNode, NEW low \in Int, NEW high \in Int, low < v, v < high,
         NEW u, IsGrown(t, {}, u, v, NoNode)
  PROVE  \E l, h : IsSearchTree(u, {v}, l, h, low, high)
<1>1. /\ u \in Links({v}) /\ u.root = v
      /\ u.node[v] = [parent |-> NoNode, left |-> NoNode, right |-> NoNode]
  BY DEF IsGrown
<1>2. PICK l : l = [x \in {v} |-> low]
  OBVIOUS
<1>3. PICK h : h = [x \in {v} |-> high]
  OBVIOUS
<1>4. IsLinked(u, {v})
  BY <1>1 DEF IsLinked, Links
<1>5. Spans(u, {v}, l, h, low, high)
  BY <1>1, <1>2, <1>3 DEF Spans
<1>6. Nested(u, {v}, l, h)
  BY DEF Nested
<1>. QED
  BY <1>4, <1>5, <1>6 DEF IsSearchTree

\* A new leaf at its place makes a search tree.
LEMMA GrownKeeps ==
  ASSUME NEW t, NEW N, NEW lo, NEW hi, NEW low, NEW high, IsSearchTree(t, N, lo, hi, low, high), t.root # NoNode,
         NEW v \in Int, v \notin N, v # NoNode, NEW p, IsPlace(t, N, lo, hi, v, p), NEW u, IsGrown(t, N, u, v, p)
  PROVE  \E l, h : IsSearchTree(u, N \cup {v}, l, h, low, high)
<1>1. IsLinked(t, N) /\ Spans(t, N, lo, hi, low, high) /\ Nested(t, N, lo, hi)
  BY DEF IsSearchTree
<1>2. /\ p \in N /\ p # NoNode /\ p # v /\ lo[p] < v /\ v < hi[p]
      /\ (v < p => t.node[p].left = NoNode) /\ (p < v => t.node[p].right = NoNode)
  BY <1>1 DEF IsPlace, IsLinked
<1>3. /\ low \in Int /\ high \in Int
      /\ \A m \in N : m \in Int /\ lo[m] \in Int /\ hi[m] \in Int /\ m # NoNode /\ m # v
  <2>1. \A m \in N : m \in Int /\ lo[m] \in Int /\ hi[m] \in Int
    BY <1>1, BoundsAreInt
  <2>. QED
    BY <1>1, <2>1 DEF Spans, IsLinked
<1>4. \A m \in N : low <= lo[m] /\ lo[m] < m /\ m < hi[m] /\ hi[m] <= high
  BY <1>1 DEF Spans
<1>5. PICK l : l = GrownLo(lo, N, low, v, p)
  OBVIOUS
<1>6. PICK h : h = GrownHi(hi, N, high, v, p)
  OBVIOUS
<1>7. (v < p \/ p < v) /\ ~(v < p /\ p < v)
  BY <1>2, <1>3
<1>8. /\ l[v] = IF v < p THEN lo[p] ELSE p
      /\ h[v] = IF v < p THEN p ELSE hi[p]
      /\ \A x \in N : l[x] = lo[x] /\ h[x] = hi[x]
  BY <1>2, <1>3, <1>5, <1>6 DEF GrownLo, GrownHi
<1>9. /\ u \in Links(N \cup {v}) /\ u.root = t.root
      /\ u.node[v] = [parent |-> p, left |-> NoNode, right |-> NoNode]
      /\ \A x \in N : /\ u.node[x].parent = t.node[x].parent
                      /\ u.node[x].left = IF x = p /\ v < p THEN v ELSE t.node[x].left
                      /\ u.node[x].right = IF x = p /\ p < v THEN v ELSE t.node[x].right
  BY <1>2 DEF IsGrown
<1>10. \A x \in N : /\ t.node[x].left \in N \cup {NoNode} /\ t.node[x].left # v
                    /\ t.node[x].right \in N \cup {NoNode} /\ t.node[x].right # v
                    /\ t.node[x].parent \in N \cup {NoNode} /\ t.node[x].parent # v
  BY <1>1 DEF IsLinked
<1>11. IsLinked(u, N \cup {v})
  <2>1. N \cup {v} \subseteq Int /\ NoNode \notin N \cup {v} /\ u.root # NoNode /\ u.root \in N
    BY <1>1, <1>9 DEF IsLinked
  <2>2. u.node[u.root].parent = NoNode
    BY <1>1, <1>9, <2>1 DEF IsLinked
  <2>3. ASSUME NEW x \in N \cup {v}, u.node[x].parent = NoNode PROVE x = u.root
    BY <1>1, <1>2, <1>9, <2>3 DEF IsLinked
  <2>4. ASSUME NEW x \in N \cup {v}, u.node[x].parent # NoNode
        PROVE  x = u.node[u.node[x].parent].left \/ x = u.node[u.node[x].parent].right
    <3>1. CASE x = v
      <4>1. u.node[v].parent = p
        BY <1>9
      <4>2. /\ u.node[p].left = IF p = p /\ v < p THEN v ELSE t.node[p].left
            /\ u.node[p].right = IF p = p /\ p < v THEN v ELSE t.node[p].right
        BY <1>2, <1>9
      <4>3. u.node[p].left = v \/ u.node[p].right = v
        BY <1>7, <4>2
      <4>. QED
        BY <3>1, <4>1, <4>3
    <3>2. CASE x # v
      <4>1. PICK q \in N : q = t.node[x].parent /\ q = u.node[x].parent
        BY <1>9, <1>10, <2>4, <3>2
      <4>2. x = t.node[q].left \/ x = t.node[q].right
        BY <1>1, <2>4, <3>2, <4>1 DEF IsLinked
      <4>3. x # NoNode
        BY <2>1
      <4>. QED
        BY <1>2, <1>9, <4>1, <4>2, <4>3
    <3>. QED
      BY <3>1, <3>2
  <2>5. ASSUME NEW x \in N \cup {v}
        PROVE  /\ u.node[x].left # NoNode => u.node[u.node[x].left].parent = x
               /\ u.node[x].right # NoNode => u.node[u.node[x].right].parent = x
    <3>1. CASE x = v
      BY <1>9, <3>1
    <3>2. CASE x # v
      <4>1. /\ t.node[x].left # NoNode => t.node[t.node[x].left].parent = x
            /\ t.node[x].right # NoNode => t.node[t.node[x].right].parent = x
        BY <1>1, <3>2 DEF IsLinked
      <4>. QED
        BY <1>9, <1>10, <3>2, <4>1
    <3>. QED
      BY <3>1, <3>2
  <2>. QED
    BY <1>9, <2>1, <2>2, <2>3, <2>4, <2>5 DEF IsLinked, Links
<1>12. Spans(u, N \cup {v}, l, h, low, high)
  <2>1. l \in [N \cup {v} -> N \cup {v} \cup {low}] /\ h \in [N \cup {v} -> N \cup {v} \cup {high}]
    <3>1. /\ \A x \in N \cup {v} : l[x] \in N \cup {v} \cup {low} /\ h[x] \in N \cup {v} \cup {high}
      BY <1>1, <1>2, <1>7, <1>8 DEF Spans
    <3>. QED
      BY <1>5, <1>6, <3>1 DEF GrownLo, GrownHi
  <2>2. \A n \in N \cup {v} : low <= l[n] /\ l[n] < n /\ n < h[n] /\ h[n] <= high
    BY <1>2, <1>3, <1>4, <1>7, <1>8
  <2>3. l[u.root] = low /\ h[u.root] = high
    BY <1>1, <1>8, <1>9 DEF Spans, IsLinked
  <2>4. ASSUME NEW x \in N \cup {v}
        PROVE  /\ u.node[x].left # NoNode => l[u.node[x].left] = l[x] /\ h[u.node[x].left] = x
               /\ u.node[x].right # NoNode => l[u.node[x].right] = x /\ h[u.node[x].right] = h[x]
    <3>1. CASE x = v
      BY <1>9, <3>1
    <3>2. CASE x # v
      <4>1. /\ t.node[x].left # NoNode => lo[t.node[x].left] = lo[x] /\ hi[t.node[x].left] = x
            /\ t.node[x].right # NoNode => lo[t.node[x].right] = x /\ hi[t.node[x].right] = hi[x]
        BY <1>1, <3>2 DEF Spans
      <4>. QED
        BY <1>7, <1>8, <1>9, <1>10, <3>2, <4>1
    <3>. QED
      BY <3>1, <3>2
  <2>. QED
    BY <1>3, <2>1, <2>2, <2>3, <2>4 DEF Spans
<1>13. Nested(u, N \cup {v}, l, h)
  <2> DEFINE Apart(m, k) == \/ u.node[k].left # NoNode /\ l[k] <= l[m] /\ h[m] <= k
                            \/ u.node[m].right # NoNode /\ m <= l[k] /\ h[k] <= h[m]
                            \/ h[m] <= l[k]
             WasApart(m, k) == \/ t.node[k].left # NoNode /\ lo[k] <= lo[m] /\ hi[m] <= k
                               \/ t.node[m].right # NoNode /\ m <= lo[k] /\ hi[k] <= hi[m]
                               \/ hi[m] <= lo[k]
  <2>1. \A m, k \in N : m < k => WasApart(m, k)
    BY <1>1 DEF Nested
  <2>2. \A x \in N : /\ t.node[x].left # NoNode => u.node[x].left # NoNode
                     /\ t.node[x].right # NoNode => u.node[x].right # NoNode
    BY <1>9
  <2>3. ASSUME NEW m \in N, NEW k \in N, m < k PROVE Apart(m, k)
    BY <1>8, <2>1, <2>2, <2>3
  <2>4. ASSUME NEW m \in N, m < v PROVE Apart(m, v)
    <3>1. (m < p => WasApart(m, p)) /\ (p < m => WasApart(p, m))
      BY <1>2, <2>1
    <3>2. (v < p => u.node[p].left # NoNode) /\ (p < v => u.node[p].right # NoNode)
      BY <1>2, <1>9
    <3>. QED
      BY <1>2, <1>3, <1>4, <1>7, <1>8, <2>2, <2>4, <3>1, <3>2
  <2>5. ASSUME NEW k \in N, v < k PROVE Apart(v, k)
    <3>1. (k < p => WasApart(k, p)) /\ (p < k => WasApart(p, k))
      BY <1>2, <2>1
    <3>2. (v < p => u.node[p].left # NoNode) /\ (p < v => u.node[p].right # NoNode)
      BY <1>2, <1>9
    <3>. QED
      BY <1>2, <1>3, <1>4, <1>7, <1>8, <2>2, <2>5, <3>1, <3>2
  <2>6. \A m, k \in N \cup {v} : m < k => Apart(m, k)
    BY <2>3, <2>4, <2>5
  <2>. QED
    BY <2>6 DEF Nested
<1>. QED
  BY <1>11, <1>12, <1>13 DEF IsSearchTree

\* After add() it is a search tree of the values and the new one.
LEMMA AddKeeps ==
  ASSUME NEW t, NEW N, NEW lo, NEW hi, NEW low, NEW high, IsSearchTree(t, N, lo, hi, low, high),
         NEW v \in Int, low < v, v < high, v # NoNode
  PROVE  \E l, h : IsSearchTree(add(t, v), N \cup {v}, l, h, low, high)
<1>1. IsLinked(t, N) /\ Spans(t, N, lo, hi, low, high) /\ t \in Links(N) /\ N \subseteq Int /\ NoNode \notin N
  BY DEF IsSearchTree, IsLinked, Links
<1>2. low \in Int /\ high \in Int
  BY <1>1 DEF Spans
<1>3. CASE t.root = NoNode
  <2>1. N = {}
    BY <1>1, <1>3 DEF IsLinked
  <2>2. IsGrown(t, {}, add(t, v), v, NoNode)
    BY <1>1, <1>3, <2>1, AddGrows
  <2>3. \E l, h : IsSearchTree(add(t, v), {v}, l, h, low, high)
    BY <1>1, <1>2, <2>1, <2>2, FirstGrows
  <2>4. N \cup {v} = {v}
    BY <2>1
  <2>. QED
    BY <2>3, <2>4
<1>4. CASE t.root # NoNode
  <2>1. PICK p : p = Place(t, t.root, v) /\ IsPlace(t, N, lo, hi, v, p)
    BY <1>1, <1>4, PlaceEnds
  <2>2. p \in N /\ p # NoNode
    BY <1>1, <2>1 DEF IsPlace
  <2>3. CASE v \in N
    <3>1. v = p
      <4>1. /\ t.node[p].left = NoNode => \A m \in N : m < p => m <= lo[p]
            /\ t.node[p].right = NoNode => \A m \in N : p < m => hi[p] <= m
        BY <2>2, Neighbours
      <4>2. p \in Int /\ lo[p] \in Int /\ hi[p] \in Int
        BY <1>1, <2>2, BoundsAreInt
      <4>. QED
        BY <2>1, <2>3, <4>1, <4>2 DEF IsPlace
    <3>2. add(t, v) = t
      BY <1>4, <2>1, <3>1 DEF add
    <3>3. N \cup {v} = N
      BY <2>3
    <3>. QED
      BY <3>2, <3>3
  <2>4. CASE v \notin N
    <3>1. IsGrown(t, N, add(t, v), v, p)
      BY <1>1, <1>4, <2>1, <2>2, <2>4, AddGrows
    <3>. QED
      BY <1>4, <2>1, <2>4, <3>1, GrownKeeps
  <2>. QED
    BY <2>3, <2>4
<1>. QED
  BY <1>3, <1>4

-----------------------------------------------------------------------------
(***************************************************************************)
(* tree_t: removing                                                        *)
(***************************************************************************)

\* What is left of the links without the leaf n.
IsCut(t, N, u, n) ==
  /\ u \in Links(N \ {n})
  /\ u.root = IF t.root = n THEN NoNode ELSE t.root
  /\ \A x \in N \ {n} : /\ u.node[x].parent = t.node[x].parent
                        /\ u.node[x].left = IF t.node[x].left = n THEN NoNode ELSE t.node[x].left
                        /\ u.node[x].right = IF t.node[x].right = n THEN NoNode ELSE t.node[x].right

\* What remove() does to the links of a leaf.
LEMMA LeafCuts ==
  ASSUME NEW t, NEW N, NEW lo, NEW hi, NEW low, NEW high, IsLinked(t, N), Spans(t, N, lo, hi, low, high), NEW n \in N,
         t.node[n].left = NoNode, t.node[n].right = NoNode
  PROVE  IsCut(t, N, CutOff(Hang(t, n, NoNode), {n}), n)
<1>1. PICK h : h = Hang(t, n, NoNode) /\ IsHung(t, N, h, n, NoNode)
  BY HangHangs
<1>2. PICK u : u = CutOff(h, {n})
  OBVIOUS
<1>3. \A x \in N : t.node[x].parent # n
  <2>1. \A x \in N : x # NoNode
    BY DEF IsLinked
  <2>. QED
    BY <2>1 DEF IsLinked
<1>4. \A x \in N \ {n} : h.node[x] \in [parent : (N \ {n}) \cup {NoNode}, left : (N \ {n}) \cup {NoNode},
                                        right : (N \ {n}) \cup {NoNode}]
  <2>1. ASSUME NEW x \in N \ {n}
        PROVE  /\ h.node[x].parent \in (N \ {n}) \cup {NoNode} /\ h.node[x].left \in (N \ {n}) \cup {NoNode}
               /\ h.node[x].right \in (N \ {n}) \cup {NoNode}
    BY <1>1, <1>3 DEF IsHung, Links, IsLinked
  <2>2. \A x \in N : h.node[x] \in [parent : N \cup {NoNode}, left : N \cup {NoNode}, right : N \cup {NoNode}]
    BY <1>1 DEF IsHung, Links
  <2>. QED
    BY <2>1, <2>2
<1>5. /\ u.root = h.root /\ u.root \in (N \ {n}) \cup {NoNode}
      /\ u = [root |-> h.root, node |-> [x \in N \ {n} |-> h.node[x]]]
  <2>1. h \in Links(N)
    BY <1>1 DEF IsHung
  <2>2. u = [h EXCEPT !.node = [x \in N \ {n} |-> h.node[x]]]
    BY <1>2, <2>1 DEF CutOff, Links
  <2>3. h.root \in (N \ {n}) \cup {NoNode}
    BY <1>1 DEF IsHung, Links, IsLinked
  <2>. QED
    BY <2>1, <2>2, <2>3 DEF Links
<1>6. u \in Links(N \ {n})
  BY <1>4, <1>5 DEF Links
<1>7. \A x \in N \ {n} : u.node[x] = h.node[x]
  BY <1>5
<1>8. /\ u.root = IF t.root = n THEN NoNode ELSE t.root
      /\ \A x \in N \ {n} : /\ u.node[x].parent = t.node[x].parent
                            /\ u.node[x].left = IF t.node[x].left = n THEN NoNode ELSE t.node[x].left
                            /\ u.node[x].right = IF t.node[x].right = n THEN NoNode ELSE t.node[x].right
  BY <1>1, <1>5, <1>7 DEF IsHung
<1>. QED
  BY <1>1, <1>2, <1>6, <1>8 DEF IsCut

\* Without a leaf it is a search tree of the other values.
LEMMA CutKeeps ==
  ASSUME NEW t, NEW N, NEW lo, NEW hi, NEW low, NEW high, IsSearchTree(t, N, lo, hi, low, high), NEW n \in N,
         t.node[n].left = NoNode, t.node[n].right = NoNode, NEW u, IsCut(t, N, u, n)
  PROVE  \E l, h : IsSearchTree(u, N \ {n}, l, h, low, high)
<1>1. IsLinked(t, N) /\ Spans(t, N, lo, hi, low, high) /\ Nested(t, N, lo, hi)
  BY DEF IsSearchTree
<1>2. \A m \in N : m \in Int /\ lo[m] \in Int /\ hi[m] \in Int
  BY <1>1, BoundsAreInt
<1>3. \A m \in N : m # NoNode /\ low <= lo[m] /\ lo[m] < m /\ m < hi[m] /\ hi[m] <= high
  BY <1>1 DEF Spans, IsLinked
<1>4. PICK l : l = [x \in N \ {n} |-> lo[x]]
  OBVIOUS
<1>5. PICK h : h = [x \in N \ {n} |-> hi[x]]
  OBVIOUS
<1>6. /\ \A m \in N : m < n => m <= lo[n]
      /\ \A m \in N : n < m => hi[n] <= m
      /\ \A m \in N : low < m /\ m < high
  BY Neighbours
<1>7. /\ u \in Links(N \ {n})
      /\ u.root = IF t.root = n THEN NoNode ELSE t.root
      /\ \A x \in N \ {n} : /\ u.node[x].parent = t.node[x].parent
                            /\ u.node[x].left = IF t.node[x].left = n THEN NoNode ELSE t.node[x].left
                            /\ u.node[x].right = IF t.node[x].right = n THEN NoNode ELSE t.node[x].right
  BY DEF IsCut
<1>8. IsLinked(u, N \ {n})
  <2>1. N \ {n} \subseteq Int /\ NoNode \notin N \ {n}
    BY <1>1 DEF IsLinked
  <2>2. u.root = NoNode => N \ {n} = {}
    <3>1. CASE t.root = n
      <4>1. lo[n] = low /\ hi[n] = high
        BY <1>1, <1>3, <3>1 DEF Spans
      <4>2. ASSUME NEW m \in N \ {n} PROVE FALSE
        <5>1. low \in Int /\ high \in Int /\ m \in Int /\ n \in Int
          BY <1>1, <1>2 DEF Spans
        <5>. QED
          BY <1>6, <4>1, <5>1
      <4>. QED
        BY <4>2
    <3>2. CASE t.root # n
      BY <1>1, <1>7, <3>2 DEF IsLinked
    <3>. QED
      BY <3>1, <3>2
  <2>3. u.root # NoNode => u.node[u.root].parent = NoNode
    BY <1>1, <1>7 DEF IsLinked
  <2>4. ASSUME NEW x \in N \ {n}, u.node[x].parent = NoNode PROVE x = u.root
    BY <1>1, <1>7, <2>4 DEF IsLinked
  <2>5. ASSUME NEW x \in N \ {n}, u.node[x].parent # NoNode
        PROVE  x = u.node[u.node[x].parent].left \/ x = u.node[u.node[x].parent].right
    <3>1. PICK q \in N \ {n} : q = u.node[x].parent /\ q = t.node[x].parent
      BY <1>7, <2>5 DEF Links
    <3>2. x = t.node[q].left \/ x = t.node[q].right
      BY <1>1, <2>5, <3>1 DEF IsLinked
    <3>. QED
      BY <1>7, <3>1, <3>2
  <2>6. ASSUME NEW x \in N \ {n}
        PROVE  /\ u.node[x].left # NoNode => u.node[u.node[x].left].parent = x
               /\ u.node[x].right # NoNode => u.node[u.node[x].right].parent = x
    <3>1. /\ t.node[x].left # NoNode => t.node[t.node[x].left].parent = x
          /\ t.node[x].right # NoNode => t.node[t.node[x].right].parent = x
          /\ t.node[x].left \in N \cup {NoNode} /\ t.node[x].right \in N \cup {NoNode}
      BY <1>1 DEF IsLinked
    <3>. QED
      BY <1>7, <3>1
  <2>. QED
    BY <1>7, <2>1, <2>2, <2>3, <2>4, <2>5, <2>6 DEF IsLinked, Links
<1>9. Spans(u, N \ {n}, l, h, low, high)
  <2>1. ASSUME NEW m \in N \ {n} PROVE lo[m] # n /\ hi[m] # n
    <3>1. m < n \/ n < m
      BY <1>2
    <3>2. /\ m < n => (m <= lo[n] /\ hi[n] <= hi[m]) \/ hi[m] <= lo[n]
          /\ n < m => (lo[m] <= lo[n] /\ hi[n] <= m) \/ hi[n] <= lo[m]
      BY <1>1 DEF Nested
    <3>. QED
      BY <1>2, <1>3, <1>6, <3>1, <3>2
  <2>2. l \in [N \ {n} -> (N \ {n}) \cup {low}] /\ h \in [N \ {n} -> (N \ {n}) \cup {high}]
    <3>1. \A m \in N \ {n} : lo[m] \in (N \ {n}) \cup {low} /\ hi[m] \in (N \ {n}) \cup {high}
      BY <1>1, <2>1 DEF Spans
    <3>. QED
      BY <1>4, <1>5, <3>1
  <2>3. \A m \in N \ {n} : l[m] = lo[m] /\ h[m] = hi[m]
    BY <1>4, <1>5
  <2>4. u.root # NoNode => l[u.root] = low /\ h[u.root] = high
    BY <1>1, <1>7, <2>3 DEF Spans, Links
  <2>5. ASSUME NEW x \in N \ {n}
        PROVE  /\ u.node[x].left # NoNode => l[u.node[x].left] = l[x] /\ h[u.node[x].left] = x
               /\ u.node[x].right # NoNode => l[u.node[x].right] = x /\ h[u.node[x].right] = h[x]
    <3>1. u.node[x].left \in (N \ {n}) \cup {NoNode} /\ u.node[x].right \in (N \ {n}) \cup {NoNode}
      BY <1>7 DEF Links
    <3>. QED
      BY <1>1, <1>7, <2>3, <3>1 DEF Spans
  <2>. QED
    BY <1>1, <1>3, <2>2, <2>3, <2>4, <2>5 DEF Spans
<1>10. Nested(u, N \ {n}, l, h)
  <2>1. \A m \in N \ {n} : l[m] = lo[m] /\ h[m] = hi[m]
    BY <1>4, <1>5
  <2>2. ASSUME NEW m \in N \ {n}, NEW k \in N \ {n}, m < k
        PROVE  \/ u.node[k].left # NoNode /\ l[k] <= l[m] /\ h[m] <= k
               \/ u.node[m].right # NoNode /\ m <= l[k] /\ h[k] <= h[m]
               \/ h[m] <= l[k]
    <3>1. \/ t.node[k].left # NoNode /\ lo[k] <= lo[m] /\ hi[m] <= k
          \/ t.node[m].right # NoNode /\ m <= lo[k] /\ hi[k] <= hi[m]
          \/ hi[m] <= lo[k]
      BY <1>1, <2>2 DEF Nested
    <3>2. CASE t.node[k].left # NoNode /\ lo[k] <= lo[m] /\ hi[m] <= k
      <4>1. ASSUME t.node[k].left = n PROVE FALSE
        <5>1. lo[n] = lo[k] /\ hi[n] = k
          BY <1>1, <1>3, <4>1 DEF Spans
        <5>2. m < n \/ n < m
          BY <1>2
        <5>. QED
          BY <1>2, <1>3, <1>6, <2>2, <3>2, <5>1, <5>2
      <4>. QED
        BY <1>7, <2>1, <3>2, <4>1
    <3>3. CASE t.node[m].right # NoNode /\ m <= lo[k] /\ hi[k] <= hi[m]
      <4>1. ASSUME t.node[m].right = n PROVE FALSE
        <5>1. lo[n] = m /\ hi[n] = hi[m]
          BY <1>1, <1>3, <4>1 DEF Spans
        <5>2. k < n \/ n < k
          BY <1>2
        <5>. QED
          BY <1>2, <1>3, <1>6, <2>2, <3>3, <5>1, <5>2
      <4>. QED
        BY <1>7, <2>1, <3>3, <4>1
    <3>. QED
      BY <2>1, <3>1, <3>2, <3>3
  <2>. QED
    BY <2>2 DEF Nested
<1>. QED
  BY <1>8, <1>9, <1>10 DEF IsSearchTree

\* The value x for n.
For(x, n, m) == IF m = n THEN x ELSE m

\* The node x has the place of n.
IsRenamed(t, N, u, n, x) ==
  /\ u \in Links((N \ {n}) \cup {x})
  /\ u.root = For(x, n, t.root)
  /\ \A m \in N : /\ u.node[For(x, n, m)].parent = For(x, n, t.node[m].parent)
                  /\ u.node[For(x, n, m)].left = For(x, n, t.node[m].left)
                  /\ u.node[For(x, n, m)].right = For(x, n, t.node[m].right)

\* A value next to n in the place of n makes a search tree of the other values.
LEMMA RenamedKeeps ==
  ASSUME NEW t, NEW N, NEW lo, NEW hi, NEW low, NEW high, IsSearchTree(t, N, lo, hi, low, high), NEW n \in N,
         NEW x \in Int, x \notin N, x # NoNode, low < x, x < high, \A m \in N \ {n} : m < n <=> m < x,
         NEW u, IsRenamed(t, N, u, n, x)
  PROVE  \E l, h : IsSearchTree(u, (N \ {n}) \cup {x}, l, h, low, high)
<1>1. IsLinked(t, N) /\ Spans(t, N, lo, hi, low, high) /\ Nested(t, N, lo, hi)
  BY DEF IsSearchTree
<1>2. low \in Int /\ high \in Int /\ \A m \in N : m \in Int /\ lo[m] \in Int /\ hi[m] \in Int
  <2>1. \A m \in N : m \in Int /\ lo[m] \in Int /\ hi[m] \in Int
    BY <1>1, BoundsAreInt
  <2>. QED
    BY <1>1, <2>1 DEF Spans
<1>3. PICK M : M = (N \ {n}) \cup {x}
  OBVIOUS
<1>4. PICK old \in [M -> N] : \A y \in M : old[y] = IF y = x THEN n ELSE y
  <2>1. [y \in M |-> IF y = x THEN n ELSE y] \in [M -> N]
    BY <1>3
  <2>. QED
    BY <2>1
<1>5. /\ \A y \in M : old[y] \in N /\ For(x, n, old[y]) = y
      /\ \A m \in N : For(x, n, m) \in M /\ old[For(x, n, m)] = m
  BY <1>3, <1>4 DEF For
<1>6. PICK l : l = [y \in M |-> For(x, n, lo[old[y]])]
  OBVIOUS
<1>7. PICK h : h = [y \in M |-> For(x, n, hi[old[y]])]
  OBVIOUS
<1>8. \A m \in N : low < m /\ m < high /\ m # NoNode /\ low <= lo[m] /\ lo[m] < m /\ m < hi[m] /\ hi[m] <= high
  <2>1. \A m \in N : low <= lo[m] /\ lo[m] < m /\ m < hi[m] /\ hi[m] <= high
    BY <1>1 DEF Spans
  <2>2. \A m \in N : m # NoNode
    BY <1>1 DEF IsLinked
  <2>. QED
    BY <1>2, <2>1, <2>2
<1>9. \A m \in N : lo[m] \in N \cup {low} /\ hi[m] \in N \cup {high}
  BY <1>1 DEF Spans
<1>10. ASSUME NEW a \in N \cup {low, high}, NEW c \in N \cup {low, high}
       PROVE  /\ For(x, n, a) \in Int /\ For(x, n, c) \in Int
              /\ a < c <=> For(x, n, a) < For(x, n, c)
              /\ a <= c <=> For(x, n, a) <= For(x, n, c)
  <2>1. a \in Int /\ c \in Int /\ n \in Int
    BY <1>2
  <2>2. a # n => (a < n <=> a < x) /\ a # x
    BY <1>2, <1>8
  <2>3. c # n => (c < n <=> c < x) /\ c # x
    BY <1>2, <1>8
  <2>. QED
    BY <2>1, <2>2, <2>3 DEF For
<1>11. For(x, n, low) = low /\ For(x, n, high) = high /\ For(x, n, NoNode) = NoNode
  BY <1>2, <1>8 DEF For
<1>12. /\ u \in Links(M) /\ u.root = For(x, n, t.root)
       /\ \A m \in N : /\ u.node[For(x, n, m)].parent = For(x, n, t.node[m].parent)
                       /\ u.node[For(x, n, m)].left = For(x, n, t.node[m].left)
                       /\ u.node[For(x, n, m)].right = For(x, n, t.node[m].right)
  BY <1>3 DEF IsRenamed
<1>13. \A a \in N \cup {NoNode} : For(x, n, a) = NoNode <=> a = NoNode
  BY <1>8 DEF For
<1>14. /\ t.root \in N \cup {NoNode}
       /\ \A m \in N : /\ t.node[m].parent \in N \cup {NoNode} /\ t.node[m].left \in N \cup {NoNode}
                       /\ t.node[m].right \in N \cup {NoNode}
  BY <1>1 DEF IsLinked
<1>15. \A y \in M : \E m \in N : y = For(x, n, m) /\ m = old[y]
  BY <1>5
<1>16. \A m \in N : l[For(x, n, m)] = For(x, n, lo[m]) /\ h[For(x, n, m)] = For(x, n, hi[m])
  BY <1>5, <1>6, <1>7
<1>17. IsLinked(u, M)
  <2>1. M \subseteq Int /\ NoNode \notin M
    BY <1>3, <1>2, <1>8
  <2>2. u.root = NoNode => M = {}
    BY <1>12, <1>13, <1>14, <1>1 DEF IsLinked
  <2>3. u.root # NoNode => u.node[u.root].parent = NoNode
    BY <1>1, <1>11, <1>12, <1>13, <1>14 DEF IsLinked
  <2>4. ASSUME NEW m \in N, u.node[For(x, n, m)].parent = NoNode PROVE For(x, n, m) = u.root
    BY <1>1, <1>12, <1>13, <1>14, <2>4 DEF IsLinked
  <2>5. ASSUME NEW m \in N, u.node[For(x, n, m)].parent # NoNode
        PROVE  LET y == For(x, n, m) IN y = u.node[u.node[y].parent].left \/ y = u.node[u.node[y].parent].right
    <3>1. PICK q \in N : q = t.node[m].parent /\ u.node[For(x, n, m)].parent = For(x, n, q)
      BY <1>11, <1>12, <1>14, <2>5
    <3>2. m = t.node[q].left \/ m = t.node[q].right
      BY <1>1, <1>8, <3>1 DEF IsLinked
    <3>. QED
      BY <1>12, <3>1, <3>2
  <2>7. \A y \in M : u.node[y].parent = NoNode => y = u.root
    BY <1>15, <2>4
  <2>8. \A y \in M : u.node[y].parent # NoNode => y = u.node[u.node[y].parent].left \/ y = u.node[u.node[y].parent].right
    BY <1>15, <2>5
  <2>9. ASSUME NEW y \in M
        PROVE  /\ u.node[y].left # NoNode => u.node[u.node[y].left].parent = y
               /\ u.node[y].right # NoNode => u.node[u.node[y].right].parent = y
    <3>1. PICK m \in N : y = For(x, n, m)
      BY <1>15
    <3>2. /\ t.node[m].left # NoNode => t.node[t.node[m].left].parent = m
          /\ t.node[m].right # NoNode => t.node[t.node[m].right].parent = m
      BY <1>1 DEF IsLinked
    <3>. QED
      BY <1>12, <1>13, <1>14, <3>1, <3>2
  <2>10. u \in [root : M \cup {NoNode},
                node : [M -> [parent : M \cup {NoNode}, left : M \cup {NoNode}, right : M \cup {NoNode}]]]
    BY <1>12 DEF Links
  <2>. QED
    BY <2>1, <2>2, <2>3, <2>7, <2>8, <2>9, <2>10 DEF IsLinked
<1>18. Spans(u, M, l, h, low, high)
  <2>1. l \in [M -> M \cup {low}] /\ h \in [M -> M \cup {high}]
    <3>1. \A m \in N : For(x, n, lo[m]) \in M \cup {low} /\ For(x, n, hi[m]) \in M \cup {high}
      BY <1>5, <1>9, <1>11
    <3>. QED
      BY <1>5, <1>6, <1>7, <3>1
  <2>2. ASSUME NEW m \in N
        PROVE  LET y == For(x, n, m) IN low <= l[y] /\ l[y] < y /\ y < h[y] /\ h[y] <= high
    <3>1. m \in N \cup {low, high} /\ lo[m] \in N \cup {low, high} /\ hi[m] \in N \cup {low, high}
          /\ low \in N \cup {low, high} /\ high \in N \cup {low, high}
      BY <1>9
    <3>2. For(x, n, low) <= For(x, n, lo[m])
      BY <1>8, <1>10, <3>1
    <3>3. For(x, n, lo[m]) < For(x, n, m)
      BY <1>8, <1>10, <3>1
    <3>4. For(x, n, m) < For(x, n, hi[m])
      BY <1>8, <1>10, <3>1
    <3>5. For(x, n, hi[m]) <= For(x, n, high)
      BY <1>8, <1>10, <3>1
    <3>. QED
      BY <1>11, <1>16, <3>2, <3>3, <3>4, <3>5
  <2>3. u.root # NoNode => l[u.root] = low /\ h[u.root] = high
    BY <1>1, <1>11, <1>12, <1>13, <1>14, <1>16 DEF Spans
  <2>4. ASSUME NEW m \in N
        PROVE  LET y == For(x, n, m) IN
               /\ u.node[y].left # NoNode => l[u.node[y].left] = l[y] /\ h[u.node[y].left] = y
               /\ u.node[y].right # NoNode => l[u.node[y].right] = y /\ h[u.node[y].right] = h[y]
    <3>1. /\ t.node[m].left # NoNode => lo[t.node[m].left] = lo[m] /\ hi[t.node[m].left] = m
          /\ t.node[m].right # NoNode => lo[t.node[m].right] = m /\ hi[t.node[m].right] = hi[m]
      BY <1>1 DEF Spans
    <3>. QED
      BY <1>12, <1>13, <1>14, <1>16, <3>1
  <2>5. \A y \in M : low <= l[y] /\ l[y] < y /\ y < h[y] /\ h[y] <= high
    BY <1>15, <2>2
  <2>6. \A y \in M : /\ u.node[y].left # NoNode => l[u.node[y].left] = l[y] /\ h[u.node[y].left] = y
                     /\ u.node[y].right # NoNode => l[u.node[y].right] = y /\ h[u.node[y].right] = h[y]
    BY <1>15, <2>4
  <2>. QED
    BY <1>2, <2>1, <2>3, <2>5, <2>6 DEF Spans
<1>19. Nested(u, M, l, h)
  <2>1. ASSUME NEW m \in N, NEW k \in N, For(x, n, m) < For(x, n, k)
        PROVE  LET y == For(x, n, m)
                   z == For(x, n, k)
               IN  \/ u.node[z].left # NoNode /\ l[z] <= l[y] /\ h[y] <= z
                   \/ u.node[y].right # NoNode /\ y <= l[z] /\ h[z] <= h[y]
                   \/ h[y] <= l[z]
    <3>1. /\ m \in N \cup {low, high} /\ lo[m] \in N \cup {low, high} /\ hi[m] \in N \cup {low, high}
          /\ k \in N \cup {low, high} /\ lo[k] \in N \cup {low, high} /\ hi[k] \in N \cup {low, high}
      BY <1>9
    <3>2. m < k
      BY <1>10, <2>1, <3>1
    <3>3. \/ t.node[k].left # NoNode /\ lo[k] <= lo[m] /\ hi[m] <= k
          \/ t.node[m].right # NoNode /\ m <= lo[k] /\ hi[k] <= hi[m]
          \/ hi[m] <= lo[k]
      BY <1>1, <3>2 DEF Nested
    <3>4. CASE t.node[k].left # NoNode /\ lo[k] <= lo[m] /\ hi[m] <= k
      <4>1. For(x, n, lo[k]) <= For(x, n, lo[m]) /\ For(x, n, hi[m]) <= For(x, n, k)
        BY <1>10, <3>1, <3>4
      <4>. QED
        BY <1>12, <1>13, <1>14, <1>16, <3>4, <4>1
    <3>5. CASE t.node[m].right # NoNode /\ m <= lo[k] /\ hi[k] <= hi[m]
      <4>1. For(x, n, m) <= For(x, n, lo[k]) /\ For(x, n, hi[k]) <= For(x, n, hi[m])
        BY <1>10, <3>1, <3>5
      <4>. QED
        BY <1>12, <1>13, <1>14, <1>16, <3>5, <4>1
    <3>6. CASE hi[m] <= lo[k]
      <4>1. For(x, n, hi[m]) <= For(x, n, lo[k])
        BY <1>10, <3>1, <3>6
      <4>. QED
        BY <1>16, <4>1
    <3>. QED
      BY <3>3, <3>4, <3>5, <3>6
  <2>. QED
    BY <1>15, <2>1 DEF Nested
<1>. QED
  BY <1>3, <1>17, <1>18, <1>19 DEF IsSearchTree

\* What the exchange with a leaf does to the links.
LEMMA ExchangeRenames ==
  ASSUME NEW t, NEW N, NEW lo, NEW hi, NEW low, NEW high, IsSearchTree(t, N, lo, hi, low, high), NEW n \in N,
         NEW x \in N, x # n, t.node[x].left = NoNode, t.node[x].right = NoNode, NEW c, IsCut(t, N, c, x)
  PROVE  IsRenamed(c, N \ {x}, Exchange(t, n, x), n, x)
<1>1. IsLinked(t, N) /\ Spans(t, N, lo, hi, low, high) /\ t \in Links(N) /\ NoNode \notin N
  BY DEF IsSearchTree, IsLinked, Links
<1>2. HasOneLink(t, N, n) /\ HasOneLink(t, N, x)
  BY <1>1, OneLink
<1>3. PICK cut : cut = Hang(t, x, NoNode) /\ IsHung(t, N, cut, x, NoNode)
  BY <1>1, HangHangs
<1>4. Below(cut, x) = {x}
  <2>1. PICK top \in Nat : \E height \in [N -> 0 .. top] : Descends(t, N, height)
    BY <1>1, SearchTreeDescends
  <2>2. PICK height \in [N -> 0 .. top] : Descends(t, N, height)
    BY <2>1
  <2>3. Descends(cut, N, height)
    <3>1. Nodes(cut) = N
      BY <1>3 DEF IsHung, Links, Nodes
    <3>. QED
      BY <1>1, <1>3, <2>2, <3>1 DEF Descends, IsHung
  <2>4. cut.node[x].left = NoNode /\ cut.node[x].right = NoNode
    BY <1>3 DEF IsHung
  <2>. QED
    BY <2>3, <2>4, BelowLeaf
<1>5. IsHeld(cut, N, n)
  <2>1. /\ cut.root = IF t.root = x THEN NoNode ELSE t.root
        /\ \A y \in N : /\ cut.node[y].parent = t.node[y].parent
                        /\ cut.node[y].left = IF t.node[y].left = x THEN NoNode ELSE t.node[y].left
                        /\ cut.node[y].right = IF t.node[y].right = x THEN NoNode ELSE t.node[y].right
    BY <1>3 DEF IsHung
  <2>2. n # NoNode
    BY <1>1
  <2>3. cut.root = n <=> cut.node[n].parent = NoNode
    BY <1>2, <2>1, <2>2 DEF HasOneLink
  <2>4. ASSUME NEW y \in N
        PROVE  /\ cut.node[y].left = n => y = cut.node[n].parent
               /\ cut.node[y].right = n => y = cut.node[n].parent
               /\ ~(cut.node[y].left = n /\ cut.node[y].right = n)
    BY <1>2, <2>1, <2>2 DEF HasOneLink
  <2>5. ASSUME cut.node[n].parent # NoNode
        PROVE  cut.node[cut.node[n].parent].left = n \/ cut.node[cut.node[n].parent].right = n
    <3>1. PICK p \in N : p = t.node[n].parent /\ p = cut.node[n].parent
      BY <1>1, <2>1, <2>5 DEF Links
    <3>2. t.node[p].left = n \/ t.node[p].right = n
      BY <1>1, <3>1 DEF IsLinked
    <3>. QED
      BY <2>1, <3>1, <3>2
  <2>. QED
    BY <2>2, <2>3, <2>4, <2>5 DEF IsHeld
<1>6. PICK at : at = cut.node[n]
  OBVIOUS
<1>7. cut \in Links(N) /\ at \in [parent : N \cup {NoNode}, left : N \cup {NoNode}, right : N \cup {NoNode}]
  BY <1>3, <1>6 DEF IsHung, Links
<1>8. PICK e1 : e1 = Hang(cut, n, x) /\ IsHung(cut, N, e1, n, x)
  BY <1>1, <1>5, <1>7, HeldHangs
<1>9. PICK e2 : e2 = [e1 EXCEPT !.node[x] = at]
  OBVIOUS
<1>10. /\ e2 \in Links(N) /\ e2.root = e1.root /\ e2.node[x] = at
       /\ \A y \in N \ {x} : e2.node[y] = e1.node[y]
  BY <1>7, <1>8, <1>9 DEF IsHung, Links
<1>11. PICK e3 : e3 = SetParent(e2, at.left, x) /\ IsReparented(e2, N, e3, at.left, x)
  BY <1>1, <1>7, <1>10, SetParentSets
<1>12. PICK e4 : e4 = SetParent(e3, at.right, x) /\ IsReparented(e3, N, e4, at.right, x)
  <2>1. e3 \in Links(N) /\ at.right \in N \cup {NoNode} /\ x \in N \cup {NoNode}
    BY <1>7, <1>11 DEF IsReparented
  <2>. QED
    BY <1>1, <2>1, SetParentSets
<1>13. PICK u : u = CutOff(e4, {n})
  OBVIOUS
<1>14. Exchange(t, n, x) = u
  <2>1. (Below(cut, x) \cup {n}) \ {x} = {n}
    BY <1>4
  <2>. QED
    BY <1>3, <1>6, <1>8, <1>9, <1>11, <1>12, <1>13, <2>1 DEF Exchange
<1>15. /\ e4 \in Links(N) /\ e4.root = e1.root
       /\ \A y \in N : /\ e4.node[y].left = e2.node[y].left
                       /\ e4.node[y].right = e2.node[y].right
                       /\ e4.node[y].parent = IF y = at.left \/ y = at.right THEN x ELSE e2.node[y].parent
  BY <1>10, <1>11, <1>12 DEF IsReparented
<1>16. /\ c.root = cut.root
       /\ \A y \in N \ {x} : /\ c.node[y].parent = cut.node[y].parent
                             /\ c.node[y].left = cut.node[y].left
                             /\ c.node[y].right = cut.node[y].right
  BY <1>3 DEF IsCut, IsHung
<1>17. /\ at.parent = t.node[n].parent /\ at.parent # n
       /\ at.left # n /\ at.right # n /\ at.left # x /\ at.right # x
       /\ at.left = IF t.node[n].left = x THEN NoNode ELSE t.node[n].left
       /\ at.right = IF t.node[n].right = x THEN NoNode ELSE t.node[n].right
  BY <1>1, <1>2, <1>3, <1>6 DEF IsHung, HasOneLink
<1>18. /\ e4.root = For(x, n, c.root)
       /\ e4.node[x].parent = For(x, n, c.node[n].parent)
       /\ e4.node[x].left = For(x, n, c.node[n].left)
       /\ e4.node[x].right = For(x, n, c.node[n].right)
  BY <1>6, <1>8, <1>10, <1>15, <1>16, <1>17 DEF For, IsHung
<1>19. ASSUME NEW y \in N, y # n, y # x
       PROVE  /\ e4.node[y].parent = For(x, n, c.node[y].parent)
              /\ e4.node[y].left = For(x, n, c.node[y].left)
              /\ e4.node[y].right = For(x, n, c.node[y].right)
  <2>1. /\ e4.node[y].left = For(x, n, c.node[y].left)
        /\ e4.node[y].right = For(x, n, c.node[y].right)
    BY <1>8, <1>10, <1>15, <1>16, <1>19 DEF For, IsHung
  <2>2. e2.node[y].parent = t.node[y].parent /\ c.node[y].parent = t.node[y].parent
    BY <1>3, <1>8, <1>10, <1>16, <1>19 DEF IsHung
  <2>3. t.node[y].parent = n <=> y = at.left \/ y = at.right
    <3>1. t.node[y].parent = n => y = t.node[n].left \/ y = t.node[n].right
      BY <1>1 DEF IsLinked
    <3>2. y = t.node[n].left \/ y = t.node[n].right => t.node[y].parent = n
      BY <1>1 DEF IsLinked
    <3>. QED
      BY <1>1, <1>17, <1>19, <3>1, <3>2
  <2>. QED
    BY <1>15, <2>1, <2>2, <2>3 DEF For
<1>20. /\ u = [root |-> e4.root, node |-> [y \in N \ {n} |-> e4.node[y]]]
       /\ u.root = e4.root /\ \A y \in N \ {n} : u.node[y] = e4.node[y]
  <2>1. u = [e4 EXCEPT !.node = [y \in N \ {n} |-> e4.node[y]]]
    BY <1>13, <1>15 DEF CutOff, Links
  <2>. QED
    BY <1>15, <2>1 DEF Links
<1>21. u \in Links(N \ {n})
  <2>1. \A m : For(x, n, m) # n
    BY DEF For
  <2>2. e4.root \in (N \ {n}) \cup {NoNode}
    BY <1>15, <1>18, <2>1 DEF Links
  <2>3. ASSUME NEW y \in N \ {n}
        PROVE  e4.node[y] \in [parent : (N \ {n}) \cup {NoNode}, left : (N \ {n}) \cup {NoNode},
                               right : (N \ {n}) \cup {NoNode}]
    <3>1. e4.node[y].parent # n /\ e4.node[y].left # n /\ e4.node[y].right # n
      BY <1>18, <1>19, <2>1
    <3>2. e4.node[y] \in [parent : N \cup {NoNode}, left : N \cup {NoNode}, right : N \cup {NoNode}]
      BY <1>15 DEF Links
    <3>. QED
      BY <3>1, <3>2
  <2>. QED
    BY <1>20, <2>2, <2>3 DEF Links
<1>22. ((N \ {x}) \ {n}) \cup {x} = N \ {n}
  OBVIOUS
<1>23. ASSUME NEW m \in N \ {x}
       PROVE  /\ u.node[For(x, n, m)].parent = For(x, n, c.node[m].parent)
              /\ u.node[For(x, n, m)].left = For(x, n, c.node[m].left)
              /\ u.node[For(x, n, m)].right = For(x, n, c.node[m].right)
  <2>1. CASE m = n
    BY <1>18, <1>20, <2>1 DEF For
  <2>2. CASE m # n
    <3>1. For(x, n, m) = m
      BY <2>2 DEF For
    <3>. QED
      BY <1>19, <1>20, <2>2, <3>1
  <2>. QED
    BY <2>1, <2>2
<1>. QED
  BY <1>14, <1>18, <1>20, <1>21, <1>22, <1>23 DEF IsRenamed

\* x is the node next to n in one of the branches of n, at the end of which it
\* has no branch on the inner side.
IsNextTo(t, N, n, x, side) ==
  /\ x \in N /\ x # n /\ side \in Sides /\ t.node[x][other(side)] = NoNode
  /\ \A m \in N \ {n, x} : m < n <=> m < x

\* The partner that remove() looks for is next to the node.
LEMMA PartnerIsNext ==
  ASSUME NEW t, NEW N, NEW lo, NEW hi, NEW low, NEW high, IsSearchTree(t, N, lo, hi, low, high), NEW n \in N
  PROVE  Partner(t, n) = <<>> \/ \E x, side : Partner(t, n) = <<x, side>> /\ IsNextTo(t, N, n, x, side)
<1>1. IsLinked(t, N) /\ Spans(t, N, lo, hi, low, high)
  BY DEF IsSearchTree
<1>2. PICK l \in N \cup {NoNode} : l = t.node[n].left
  BY <1>1 DEF IsLinked
<1>3. PICK r \in N \cup {NoNode} : r = t.node[n].right
  BY <1>1 DEF IsLinked
<1>4. /\ weight(t, l) \in Nat /\ (weight(t, l) = 0 <=> l = NoNode)
      /\ deep(t, l) \in Nat /\ (deep(t, l) = 0 <=> l = NoNode)
  BY <1>1, WeightAndDepth
<1>5. /\ weight(t, r) \in Nat /\ (weight(t, r) = 0 <=> r = NoNode)
      /\ deep(t, r) \in Nat /\ (deep(t, r) = 0 <=> r = NoNode)
  BY <1>1, WeightAndDepth
<1>6. \A m \in N : m \in Int /\ lo[m] \in Int /\ hi[m] \in Int /\ lo[m] < m /\ m < hi[m]
  <2>1. \A m \in N : m \in Int /\ lo[m] \in Int /\ hi[m] \in Int
    BY <1>1, BoundsAreInt
  <2>. QED
    BY <1>1, <2>1 DEF Spans
<1>7. CASE deep(t, l) < deep(t, r) \/ (deep(t, l) = deep(t, r) /\ weight(t, l) < weight(t, r))
  <2>1. r \in N
    BY <1>4, <1>5, <1>7
  <2>2. PICK x : x = most(t, r, "left") /\ IsMost(t, N, lo, hi, r, "left", x)
    BY <1>1, <2>1, MostEnds DEF Sides
  <2>3. lo[r] = n
    BY <1>1, <1>3, <2>1 DEF Spans, IsLinked
  <2>4. x \in N /\ t.node[x].left = NoNode /\ lo[x] = n
    BY <2>2, <2>3 DEF IsMost
  <2>5. \A m \in N : m < x => m <= n
    BY <2>4, Neighbours
  <2>6. \A m \in N \ {n, x} : m < n <=> m < x
    BY <1>6, <2>4, <2>5
  <2>7. IsNextTo(t, N, n, x, "right")
    BY <1>6, <2>4, <2>6 DEF IsNextTo, Sides, other
  <2>8. Partner(t, n) = <<x, "right">>
    BY <1>2, <1>3, <1>7, <2>2 DEF Partner
  <2>. QED
    BY <2>7, <2>8
<1>8. CASE ~(deep(t, l) < deep(t, r) \/ (deep(t, l) = deep(t, r) /\ weight(t, l) < weight(t, r)))
  <2>1. CASE weight(t, r) = 0
    BY <1>2, <1>3, <1>8, <2>1 DEF Partner
  <2>2. CASE weight(t, r) # 0
    <3>1. l \in N
      BY <1>4, <1>5, <1>8, <2>2
    <3>2. PICK x : x = most(t, l, "right") /\ IsMost(t, N, lo, hi, l, "right", x)
      BY <1>1, <3>1, MostEnds DEF Sides
    <3>3. hi[l] = n
      BY <1>1, <1>2, <3>1 DEF Spans, IsLinked
    <3>4. x \in N /\ t.node[x].right = NoNode /\ hi[x] = n
      BY <3>2, <3>3 DEF IsMost
    <3>5. \A m \in N : x < m => n <= m
      BY <3>4, Neighbours
    <3>6. \A m \in N \ {n, x} : m < n <=> m < x
      BY <1>6, <3>4, <3>5
    <3>7. IsNextTo(t, N, n, x, "left")
      BY <1>6, <3>4, <3>6 DEF IsNextTo, Sides, other
    <3>8. Partner(t, n) = <<x, "left">>
      BY <1>2, <1>3, <1>8, <2>2, <3>2 DEF Partner
    <3>. QED
      BY <3>7, <3>8
  <2>. QED
    BY <2>1, <2>2
<1>. QED
  BY <1>7, <1>8

\* A leaf next to n takes over the place of n.
LEMMA ExchangeKeeps ==
  ASSUME NEW t, NEW N, NEW lo, NEW hi, NEW low, NEW high, IsSearchTree(t, N, lo, hi, low, high), NEW n \in N,
         NEW x \in N, x # n, t.node[x].left = NoNode, t.node[x].right = NoNode,
         \A m \in N \ {n, x} : m < n <=> m < x
  PROVE  \E l, h : IsSearchTree(Exchange(t, n, x), N \ {n}, l, h, low, high)
<1>1. IsLinked(t, N) /\ Spans(t, N, lo, hi, low, high)
  BY DEF IsSearchTree
<1>2. PICK c : IsCut(t, N, c, x)
  BY <1>1, LeafCuts
<1>3. PICK l, h : IsSearchTree(c, N \ {x}, l, h, low, high)
  BY <1>2, CutKeeps
<1>4. IsRenamed(c, N \ {x}, Exchange(t, n, x), n, x)
  BY <1>2, ExchangeRenames
<1>5. x \in Int /\ x # NoNode /\ low < x /\ x < high
  <2>1. \A m \in N : low < m /\ m < high
    BY Neighbours
  <2>. QED
    BY <1>1, <2>1 DEF IsLinked
<1>6. \A m \in (N \ {x}) \ {n} : m < n <=> m < x
  OBVIOUS
<1>7. n \in N \ {x} /\ x \notin N \ {x} /\ ((N \ {x}) \ {n}) \cup {x} = N \ {n}
  OBVIOUS
<1>8. PICK K : K = N \ {x}
  OBVIOUS
<1>9. \E l2, h2 : IsSearchTree(Exchange(t, n, x), (K \ {n}) \cup {x}, l2, h2, low, high)
  BY <1>3, <1>4, <1>5, <1>6, <1>7, <1>8, RenamedKeeps
<1>. QED
  BY <1>7, <1>8, <1>9

\* What remove() may answer: unless the ASSERT of the terminal fails, a search
\* tree without the value, or the tree as it was.
IsRemoval(t, N, r, n, low, high) ==
  /\ r.done \in BOOLEAN
  /\ r.done => /\ \E l, h : IsSearchTree(r.tree, N \ {n}, l, h, low, high)
               /\ r.node \in (N \ {n}) \cup {NoNode}
  /\ ~r.done => r.tree = t /\ r.node = NoNode

\* What remove() does to a search tree.
LEMMA RemoveKeeps ==
  ASSUME NEW t, NEW N, NEW lo, NEW hi, NEW low, NEW high, IsSearchTree(t, N, lo, hi, low, high), NEW n \in N,
         NEW r, r = remove(t, n), "terminal" \notin r.failed
  PROVE  IsRemoval(t, N, r, n, low, high)
<1>1. IsLinked(t, N) /\ Spans(t, N, lo, hi, low, high)
  BY DEF IsSearchTree
<1>2. ASSUME NEW x, NEW side, Partner(t, n) = <<x, side>>, IsNextTo(t, N, n, x, side)
      PROVE  IsRemoval(t, N, r, n, low, high)
  <2>1. /\ x \in N /\ x # n /\ side \in Sides /\ t.node[x][other(side)] = NoNode
        /\ \A m \in N \ {n, x} : m < n <=> m < x
    BY <1>2 DEF IsNextTo
  <2>2. PICK turned : turned = IF t.node[x][side] = NoNode THEN t ELSE rotate(t, x, side)
    OBVIOUS
  <2>3. PICK l, h : IsSearchTree(turned, N, l, h, low, high)
    BY <2>1, <2>2, RotateKeeps
  <2>4. IsLinked(turned, N) /\ Spans(turned, N, l, h, low, high)
    BY <2>3 DEF IsSearchTree
  <2>5. PICK held : held = turned.node[x]
    OBVIOUS
  <2>6. r = [tree |-> Exchange(turned, n, x), node |-> IF held.parent = n THEN x ELSE held.parent,
             failed |-> IF held.left = NoNode /\ held.right = NoNode THEN {} ELSE {"terminal"}, done |-> TRUE]
    <3>1. <<x, side>>[1] = x /\ <<x, side>>[2] = side /\ <<x, side>> # <<>>
      OBVIOUS
    <3>. QED
      BY <1>2, <2>2, <2>5, <3>1 DEF remove
  <2>7. held.left = NoNode /\ held.right = NoNode
    BY <2>6
  <2>8. \E l2, h2 : IsSearchTree(Exchange(turned, n, x), N \ {n}, l2, h2, low, high)
    BY <2>1, <2>3, <2>5, <2>7, ExchangeKeeps
  <2>9. held.parent \in N \cup {NoNode} /\ n # NoNode
    BY <2>1, <2>4, <2>5 DEF IsLinked
  <2>. QED
    BY <2>1, <2>6, <2>8, <2>9 DEF IsRemoval
<1>3. CASE Partner(t, n) = <<>> /\ t.node[n].left = NoNode /\ t.node[n].right = NoNode
  <2>1. r = [tree |-> CutOff(Hang(t, n, NoNode), {n}), node |-> t.node[n].parent, failed |-> {}, done |-> TRUE]
    BY <1>3 DEF remove
  <2>2. IsCut(t, N, CutOff(Hang(t, n, NoNode), {n}), n)
    BY <1>1, <1>3, LeafCuts
  <2>3. \E l, h : IsSearchTree(CutOff(Hang(t, n, NoNode), {n}), N \ {n}, l, h, low, high)
    BY <1>3, <2>2, CutKeeps
  <2>4. t.node[n].parent \in (N \ {n}) \cup {NoNode}
    <3>1. HasOneLink(t, N, n)
      BY <1>1, OneLink
    <3>. QED
      BY <1>1, <3>1 DEF HasOneLink, IsLinked
  <2>. QED
    BY <2>1, <2>3, <2>4 DEF IsRemoval
<1>4. CASE Partner(t, n) = <<>> /\ ~(t.node[n].left = NoNode /\ t.node[n].right = NoNode)
  <2>1. r = [tree |-> t, node |-> NoNode, failed |-> {"no branch"}, done |-> FALSE]
    BY <1>4 DEF remove
  <2>2. PICK f : r = [tree |-> t, node |-> NoNode, failed |-> f, done |-> FALSE]
    BY <2>1, Zenon
  <2>. QED
    BY <2>2 DEF IsRemoval
<1>. QED
  BY <1>2, <1>3, <1>4, PartnerIsNext

-----------------------------------------------------------------------------
(***************************************************************************)
(* tree_t: the specification                                               *)
(***************************************************************************)

\* Finitely many integers are all between two others.
LEMMA IntegersAreBounded ==
  ASSUME NEW S, S \subseteq Int, IsFiniteSet(S)
  PROVE  \E low, high \in Int : \A k \in S : low < k /\ k < high
<1> DEFINE Between(T) == \E low, high \in Int : \A k \in T : low < k /\ k < high
           Counted == {m \in Nat : \E T \in SUBSET S : Cardinality(T) = m /\ ~Between(T)}
<1>1. SUFFICES ASSUME ~Between(S) PROVE FALSE
  OBVIOUS
<1>2. Counted \in SUBSET Nat /\ Counted # {}
  <2>1. Cardinality(S) \in Nat
    BY FS_CardinalityType
  <2>. HIDE DEF Between
  <2>. QED
    BY <1>1, <2>1
<1>3. PICK m \in Counted : \A k \in Counted : m <= k
  <2>. HIDE DEF Counted
  <2>. QED
    BY <1>2, FirstKey
<1>4. PICK T \in SUBSET S : Cardinality(T) = m /\ ~Between(T)
  <2>. HIDE DEF Between
  <2>. QED
    BY <1>3
<1>5. IsFiniteSet(T) /\ m \in Nat
  BY <1>3, FS_Subset
<1>6. PICK x \in T : TRUE
  <2>1. Between({})
    <3>1. 0 \in Int /\ \A k \in {} : 0 < k /\ k < 0
      OBVIOUS
    <3>. QED
      BY <3>1
  <2>. HIDE DEF Between
  <2>. QED
    BY <1>4, <2>1
<1>7. Cardinality(T \ {x}) = m - 1
  BY <1>4, <1>5, <1>6, FS_RemoveElement
<1>8. Between(T \ {x})
  <2>1. m - 1 \notin Counted
    <3>. HIDE DEF Counted
    <3>1. m \in Int /\ (m - 1 \in Counted => m <= m - 1)
      BY <1>3, <1>5
    <3>. QED
      BY <3>1
  <2>2. m - 1 \in Nat /\ T \ {x} \in SUBSET S
    <3>1. Cardinality(T \ {x}) \in Nat
      BY <1>5, FS_Subset, FS_CardinalityType
    <3>. QED
      BY <1>7, <3>1
  <2>. HIDE DEF Between
  <2>. QED
    BY <1>7, <2>1, <2>2
<1>9. PICK low \in Int, high \in Int : \A k \in T \ {x} : low < k /\ k < high
  BY <1>8
<1>10. PICK a \in Int, b \in Int : a <= low /\ a < x /\ high <= b /\ x < b
  <2>1. x \in Int
    OBVIOUS
  <2>2. (IF low < x THEN low ELSE x - 1) \in Int /\ (IF x < high THEN high ELSE x + 1) \in Int
    BY <2>1
  <2>. QED
    BY <2>1, <2>2
<1>11. \A k \in T : a < k /\ k < b
  BY <1>9, <1>10
<1>12. Between(T)
  BY <1>11
<1>. QED
  BY <1>4, <1>12

\* The invariant: as long as the ASSERT of remove() has not failed the tree is a
\* search tree of what is stored.
TreeInvariant(low, high) ==
  /\ stored \subseteq TreeKeys
  /\ TerminalIsLeaf => /\ \E lo, hi : IsSearchTree(tree, stored, lo, hi, low, high)
                       /\ balancing \in stored \cup {NoNode}

\* The invariant holds in the beginning.
LEMMA TreeInitially ==
  ASSUME NEW low \in Int, NEW high \in Int, TreeInit
  PROVE  TreeInvariant(low, high)
<1>1. tree.root = NoNode /\ tree.node = <<>> /\ tree = [root |-> NoNode, node |-> <<>>] /\ stored = {} /\ balancing = NoNode
  BY DEF TreeInit, NoTree
<1>2. tree.node \in [{} -> [parent : {} \cup {NoNode}, left : {} \cup {NoNode}, right : {} \cup {NoNode}]]
  BY <1>1
<1>3. IsLinked(tree, {})
  BY <1>1, <1>2 DEF IsLinked
<1>4. PICK lo : lo = [x \in {} |-> low]
  OBVIOUS
<1>5. Spans(tree, {}, lo, lo, low, high) /\ Nested(tree, {}, lo, lo)
  BY <1>1, <1>4 DEF Spans, Nested
<1>. QED
  BY <1>1, <1>3, <1>5 DEF TreeInvariant, IsSearchTree

\* add() keeps the invariant.
LEMMA AddKeepsTree ==
  ASSUME TreeAssumption, NEW low \in Int, NEW high \in Int, \A k \in TreeKeys : low < k /\ k < high, TreeInvariant(low, high),
         NEW v \in TreeKeys, Add(v)
  PROVE  TreeInvariant(low, high)'
<1>1. v \in Int /\ low < v /\ v < high /\ v # NoNode
  BY DEF TreeAssumption
<1>2. tree' = add(tree, v) /\ balancing' = v /\ stored' = stored \cup {v} /\ failed' = failed
  BY DEF Add
<1>3. ASSUME TerminalIsLeaf PROVE \E l, h : IsSearchTree(add(tree, v), stored \cup {v}, l, h, low, high)
  <2>1. PICK lo, hi : IsSearchTree(tree, stored, lo, hi, low, high)
    BY <1>3 DEF TreeInvariant
  <2>. QED
    BY <1>1, <2>1, AddKeeps
<1>. QED
  BY <1>2, <1>3 DEF TreeInvariant, TerminalIsLeaf

\* A turn of the loop of balance() keeps the invariant.
LEMMA BalanceKeepsTree ==
  ASSUME NEW low, NEW high, TreeInvariant(low, high), Balance
  PROVE  TreeInvariant(low, high)'
<1>1. /\ balancing # NoNode /\ tree' = Balanced(tree, balancing).tree /\ balancing' = Balanced(tree, balancing).node
      /\ stored' = stored /\ failed' = failed
  BY DEF Balance
<1>2. ASSUME TerminalIsLeaf
      PROVE  /\ \E l, h : IsSearchTree(Balanced(tree, balancing).tree, stored, l, h, low, high)
             /\ Balanced(tree, balancing).node \in stored \cup {NoNode}
  <2>1. PICK lo, hi : IsSearchTree(tree, stored, lo, hi, low, high)
    BY <1>2 DEF TreeInvariant
  <2>2. balancing \in stored
    BY <1>1, <1>2 DEF TreeInvariant
  <2>. QED
    BY <2>1, <2>2, BalancedKeeps
<1>. QED
  BY <1>1, <1>2 DEF TreeInvariant, TerminalIsLeaf

\* remove() keeps the invariant.
LEMMA RemoveKeepsTree ==
  ASSUME TreeAssumption, NEW low, NEW high, TreeInvariant(low, high), NEW v \in TreeKeys, RemoveNode(v)
  PROVE  TreeInvariant(low, high)'
<1>1. PICK r : r = remove(tree, v)
  OBVIOUS
<1>2. /\ balancing = NoNode /\ tree.root # NoNode /\ find(tree, tree.root, v) = v
      /\ tree' = r.tree /\ balancing' = r.node
      /\ stored' = IF r.done THEN stored \ {v} ELSE stored
      /\ failed' = failed \cup r.failed
  BY <1>1 DEF RemoveNode
<1>3. stored' \subseteq TreeKeys
  BY <1>2 DEF TreeInvariant
<1>4. ASSUME TerminalIsLeaf'
      PROVE  /\ \E l, h : IsSearchTree(tree', stored', l, h, low, high)
             /\ balancing' \in stored' \cup {NoNode}
  <2>1. TerminalIsLeaf /\ "terminal" \notin r.failed
    BY <1>2, <1>4 DEF TerminalIsLeaf
  <2>2. PICK lo, hi : IsSearchTree(tree, stored, lo, hi, low, high)
    BY <2>1 DEF TreeInvariant
  <2>3. v \in stored
    <3>1. find(tree, tree.root, v) \in stored \cup {NoNode}
      BY <1>2, <2>2, FindEnds DEF IsSearchTree
    <3>. QED
      BY <1>2, <3>1 DEF TreeAssumption
  <2>4. IsRemoval(tree, stored, r, v, low, high)
    BY <1>1, <2>1, <2>2, <2>3, RemoveKeeps
  <2>5. CASE r.done
    <3>1. stored' = stored \ {v}
      BY <1>2, <2>5
    <3>. QED
      BY <1>2, <2>4, <2>5, <3>1 DEF IsRemoval
  <2>6. CASE ~r.done
    <3>1. stored' = stored /\ tree' = tree /\ balancing' = NoNode
      BY <1>2, <2>4, <2>6 DEF IsRemoval
    <3>. QED
      BY <2>2, <3>1
  <2>. QED
    BY <2>5, <2>6
<1>. QED
  BY <1>3, <1>4 DEF TreeInvariant

\* In every order of add(), remove() and the turns of balance() the tree is a
\* search tree of the values that were added and not removed: its links agree in
\* both directions, and the iterators meet these values in order from both ends
\* (tree.h), as long as the ASSERT of remove() on its terminal has not failed.
THEOREM TreeStaysItsSet == TreeSpec => []TreeIsItsSet
<1>1. TreeAssumption
  BY TreeAssumption
<1>2. PICK low \in Int, high \in Int : \A k \in TreeKeys : low < k /\ k < high
  BY <1>1, IntegersAreBounded DEF TreeAssumption
<1>3. TreeInit => TreeInvariant(low, high)
  BY TreeInitially
<1>4. TreeInvariant(low, high) /\ [TreeNext]_treeVars => TreeInvariant(low, high)'
  <2>. SUFFICES ASSUME TreeInvariant(low, high), [TreeNext]_treeVars PROVE TreeInvariant(low, high)'
    OBVIOUS
  <2>1. CASE Balance
    BY <2>1, BalanceKeepsTree
  <2>2. ASSUME NEW v \in TreeKeys, Add(v) PROVE TreeInvariant(low, high)'
    BY <1>1, <1>2, <2>2, AddKeepsTree
  <2>3. ASSUME NEW v \in TreeKeys, RemoveNode(v) PROVE TreeInvariant(low, high)'
    BY <1>1, <2>3, RemoveKeepsTree
  <2>4. CASE UNCHANGED treeVars
    BY <2>4 DEF treeVars, TreeInvariant, TerminalIsLeaf
  <2>. QED
    BY <2>1, <2>2, <2>3, <2>4 DEF TreeNext
<1>5. TreeInvariant(low, high) => TreeIsItsSet
  BY SearchTreeIsTreeOf DEF TreeInvariant, TreeIsItsSet
<1>. QED
  BY <1>3, <1>4, <1>5, PTL DEF TreeSpec

-----------------------------------------------------------------------------
(*****************************************************************************)
(* Quotients and products                                                    *)
(*****************************************************************************)

\* A quotient is the greatest number of parts that fit.
LEMMA Quotient ==
  ASSUME NEW b \in Int, NEW s \in Nat \ {0}
  PROVE  b \div s \in Int /\ s * (b \div s) <= b /\ b < s * (b \div s) + s
OBVIOUS

\* Of a number that is not negative it is none either.
LEMMA QuotientNat ==
  ASSUME NEW b \in Nat, NEW s \in Nat \ {0}
  PROVE  b \div s \in Nat
OBVIOUS

\* Numbers are ordered as their multiples are.
LEMMA Factor ==
  ASSUME NEW a \in Int, NEW b \in Int, NEW s \in Nat \ {0}
  PROVE  a < b <=> a * s < b * s
OBVIOUS

\* The multiple of a difference.
LEMMA Distributes ==
  ASSUME NEW a \in Int, NEW b \in Int, NEW s \in Int
  PROVE  (a - b) * s = a * s - b * s /\ (0 - a) * s = 0 - a * s
OBVIOUS

\* The quotient of a multiple.
LEMMA QuotientOf ==
  ASSUME NEW c \in Int, NEW s \in Nat \ {0}
  PROVE  (c * s) \div s = c
OBVIOUS

\* One part more or less.
LEMMA QuotientAdd ==
  ASSUME NEW b \in Int, NEW s \in Nat \ {0}
  PROVE  (b + s) \div s = b \div s + 1 /\ (b - s) \div s = b \div s - 1
OBVIOUS

-----------------------------------------------------------------------------
(*****************************************************************************)
(* ptr_array                                                                 *)
(*****************************************************************************)

\* An array has the elements that its bytes make.
Whole(a) == a.elementcount = IF a.void THEN 0 ELSE a.bytelen \div a.size

\* The arrays on a block that begins at 0.
Windows == [void : BOOLEAN, const : BOOLEAN, size : Nat \ {0}, membegin : {0}, pointer : Nat, elementcount : Nat, bytelen : Nat]

\* The bytes of the array end in the block.
IsWindow(a) ==
  /\ a \in Windows
  /\ a.pointer + a.bytelen <= BlockLen
  /\ a.void => a.size = 1
  /\ Whole(a)

\* A TRef exists on an array of bytes.
PtrArrayInv ==
  /\ IsWindow(array)
  /\ tref \in Sizes \cup {0}
  /\ tref # 0 => array.void

\* Elements of the window's size and number fit in its bytes.
LEMMA AheadFits ==
  ASSUME NEW a, IsWindow(a)
  PROVE  Ahead(a) \in Nat /\ Ahead(a) * a.size <= a.bytelen
<1>1. CASE a.void
  BY <1>1 DEF IsWindow, Windows, Ahead
<1>2. CASE ~a.void
  <2>1. a.bytelen \in Nat /\ a.size \in Nat \ {0} /\ Ahead(a) = a.bytelen \div a.size
    BY <1>2 DEF IsWindow, Windows, Whole, Ahead
  <2>. QED
    BY <2>1, Quotient, QuotientNat
<1>. QED
  BY <1>1, <1>2

\* A window with another pointer and other lengths.
LEMMA WindowPlaced ==
  ASSUME NEW a, IsWindow(a), NEW p \in Nat, NEW len \in Nat, p + len <= BlockLen,
         NEW count, count = IF a.void THEN 0 ELSE len \div a.size
  PROVE  IsWindow([a EXCEPT !.pointer = p, !.elementcount = count, !.bytelen = len])
<1>1. PICK m : m = [a EXCEPT !.pointer = p, !.elementcount = count, !.bytelen = len]
  OBVIOUS
<1>2. a \in Windows /\ (a.void => a.size = 1)
  BY DEF IsWindow
<1>3. count \in Nat
  <2>1. a.size \in Nat \ {0}
    BY <1>2 DEF Windows
  <2>2. len \div a.size \in Nat
    BY <2>1, QuotientNat
  <2>. QED
    BY <2>2
<1>4. m \in Windows
  BY <1>1, <1>2, <1>3 DEF Windows
<1>5. m.pointer = p /\ m.elementcount = count /\ m.bytelen = len /\ m.size = a.size /\ m.void = a.void
  BY <1>1, <1>2 DEF Windows
<1>. QED
  BY <1>1, <1>2, <1>4, <1>5 DEF IsWindow, Whole

\* n elements of s bytes, of those between the start of the block and its end.
LEMMA Places ==
  ASSUME NEW s \in Nat \ {0}, NEW pointer \in Nat, NEW ahead \in Nat, NEW n \in Int, n <= ahead,
         n < 0 => 0 - n <= pointer \div s
  PROVE  /\ pointer + n * s \in Nat /\ (ahead - n) * s \in Nat
         /\ pointer + n * s + (ahead - n) * s = pointer + ahead * s
         /\ ((ahead - n) * s) \div s = ahead - n
<1>1. PICK q \in Int : q = pointer \div s /\ s * q <= pointer
  BY Quotient
<1>2. PICK d \in Int, e \in Int : d = n * s /\ e = (ahead - n) * s
  OBVIOUS
<1>3. pointer + d >= 0
  <2>1. CASE n >= 0
    BY <1>2, <2>1
  <2>2. CASE n < 0
    <3>1. ~(q < 0 - n)
      BY <1>1, <2>2
    <3>2. ~(q * s < (0 - n) * s)
      BY <3>1, Factor
    <3>3. (0 - n) * s = 0 - d
      BY <1>2, Distributes
    <3>. QED
      BY <1>1, <1>2, <3>2, <3>3
  <2>. QED
    BY <2>1, <2>2
<1>4. e >= 0
  BY <1>2
<1>5. e = ahead * s - d
  BY <1>2, Distributes
<1>6. ((ahead - n) * s) \div s = ahead - n
  BY QuotientOf
<1>. QED
  BY <1>2, <1>3, <1>4, <1>5, <1>6

\* Where a move is not refused it is a window again.
LEMMA MovedIsWindow ==
  ASSUME NEW a, IsWindow(a), NEW n \in Int, MayMove(a, n)
  PROVE  IsWindow(Moved(a, n))
<1>1. /\ a.pointer \in Nat /\ a.bytelen \in Nat /\ a.size \in Nat \ {0} /\ a.membegin = 0
      /\ a.pointer + a.bytelen <= BlockLen
  BY DEF IsWindow, Windows
<1>2. PICK s \in Nat \ {0}, pointer \in Nat, ahead \in Nat : s = a.size /\ pointer = a.pointer /\ ahead = Ahead(a) /\ ahead * s <= a.bytelen
  BY <1>1, AheadFits
<1>3. n <= ahead /\ (n < 0 => 0 - n <= pointer \div s)
  <2>1. CASE n >= 0
    BY <1>2, <2>1 DEF MayMove
  <2>2. CASE n < 0
    <3>1. UsedByteLen(a) = pointer
      BY <1>1, <1>2 DEF UsedByteLen
    <3>. QED
      BY <1>2, <2>2, <3>1 DEF MayMove, Behind
  <2>. QED
    BY <2>1, <2>2
<1>4. PICK p \in Nat, len \in Nat : p = pointer + n * s /\ len = (ahead - n) * s /\ p + len = pointer + ahead * s /\ len \div s = ahead - n
  BY <1>3, Places
<1>5. p + len <= BlockLen
  <2>1. ahead * s \in Nat
    BY <1>2
  <2>2. BlockLen \in Nat
    BY PtrArrayAssumption DEF PtrArrayAssumption
  <2>. QED
    BY <1>1, <1>2, <1>4, <2>1, <2>2
<1>6. PICK count : count = IF a.void THEN 0 ELSE len \div a.size
  OBVIOUS
<1>7. Moved(a, n) = [a EXCEPT !.pointer = p, !.elementcount = count, !.bytelen = len]
  BY <1>2, <1>4, <1>6 DEF Moved, Placed
<1>8. IsWindow([a EXCEPT !.pointer = p, !.elementcount = count, !.bytelen = len])
  BY <1>5, <1>6, WindowPlaced
<1>. QED
  BY <1>7, <1>8

\* The pointer goes to the next element.
LEMMA IncrementedIsWindow ==
  ASSUME NEW a, IsWindow(a), ~a.void, MayIncrement(a)
  PROVE  IsWindow(Incremented(a))
<1>1. PICK s \in Nat \ {0}, pointer \in Nat, b \in Nat, c \in Nat :
        s = a.size /\ pointer = a.pointer /\ b = a.bytelen /\ c = a.elementcount /\ pointer + b <= BlockLen /\ c = b \div s /\ c # 0
  BY DEF IsWindow, Windows, Whole, MayIncrement
<1>2. b - s \in Nat
  <2>1. s * c <= b
    BY <1>1, Quotient
  <2>2. s <= s * c
    BY <1>1
  <2>. QED
    BY <1>1, <2>1, <2>2
<1>3. c - 1 = (b - s) \div s
  <2>1. b \in Int
    OBVIOUS
  <2>2. (b - s) \div s = b \div s - 1
    BY <2>1, QuotientAdd
  <2>. QED
    BY <1>1, <2>2
<1>4. PICK p \in Nat, len \in Nat : p = pointer + s /\ len = b - s /\ p + len <= BlockLen
  <2>. BlockLen \in Nat
    BY PtrArrayAssumption DEF PtrArrayAssumption
  <2>. QED
    BY <1>1, <1>2
<1>5. PICK count : count = IF a.void THEN 0 ELSE len \div a.size
  OBVIOUS
<1>6. count = c - 1
  BY <1>1, <1>3, <1>4, <1>5
<1>7. Incremented(a) = [a EXCEPT !.pointer = p, !.elementcount = count, !.bytelen = len]
  BY <1>1, <1>4, <1>6 DEF Incremented
<1>8. IsWindow([a EXCEPT !.pointer = p, !.elementcount = count, !.bytelen = len])
  BY <1>4, <1>5, WindowPlaced
<1>. QED
  BY <1>7, <1>8

\* The pointer goes back to the element before.
LEMMA DecrementedIsWindow ==
  ASSUME NEW a, IsWindow(a), ~a.void, MayDecrement(a)
  PROVE  IsWindow(Decremented(a))
<1>1. PICK s \in Nat \ {0}, pointer \in Nat, b \in Nat, c \in Nat :
        s = a.size /\ pointer = a.pointer /\ b = a.bytelen /\ c = a.elementcount /\ pointer + b <= BlockLen /\ c = b \div s /\ pointer >= s
  BY DEF IsWindow, Windows, Whole, MayDecrement
<1>2. c + 1 = (b + s) \div s
  <2>1. b \in Int
    OBVIOUS
  <2>2. (b + s) \div s = b \div s + 1
    BY <2>1, QuotientAdd
  <2>. QED
    BY <1>1, <2>2
<1>3. PICK p \in Nat, len \in Nat : p = pointer - s /\ len = b + s /\ p + len <= BlockLen
  <2>. BlockLen \in Nat
    BY PtrArrayAssumption DEF PtrArrayAssumption
  <2>. QED
    BY <1>1
<1>4. PICK count : count = IF a.void THEN 0 ELSE len \div a.size
  OBVIOUS
<1>5. count = c + 1
  BY <1>1, <1>2, <1>3, <1>4
<1>6. Decremented(a) = [a EXCEPT !.pointer = p, !.elementcount = count, !.bytelen = len]
  BY <1>1, <1>3, <1>5 DEF Decremented
<1>7. IsWindow([a EXCEPT !.pointer = p, !.elementcount = count, !.bytelen = len])
  BY <1>3, <1>4, WindowPlaced
<1>. QED
  BY <1>6, <1>7

\* The same bytes as elements of another size.
LEMMA ElementsAreWindow ==
  ASSUME NEW a, IsWindow(a), NEW size \in Sizes, NEW const \in BOOLEAN
  PROVE  IsWindow(AsElements(a, size, const))
<1>1. size \in Nat \ {0}
  BY PtrArrayAssumption DEF PtrArrayAssumption
<1>2. PICK m : m = AsElements(a, size, const)
  OBVIOUS
<1>3. a \in Windows /\ a.bytelen \in Nat /\ a.pointer + a.bytelen <= BlockLen
  BY DEF IsWindow, Windows
<1>4. a.bytelen \div size \in Nat
  BY <1>1, <1>3, QuotientNat
<1>5. PICK count \in Nat : count = a.bytelen \div size
  BY <1>4
<1>6. m = [a EXCEPT !.void = FALSE, !.const = const, !.size = size, !.elementcount = count]
  BY <1>2, <1>5 DEF AsElements
<1>7. m \in Windows /\ m.pointer = a.pointer /\ m.bytelen = a.bytelen /\ m.size = size /\ m.elementcount = count
  BY <1>1, <1>3, <1>6 DEF Windows
<1>8. ~m.void
  BY <1>3, <1>6 DEF Windows
<1>. QED
  BY <1>2, <1>3, <1>5, <1>7, <1>8 DEF IsWindow, Whole

\* The same bytes as bytes.
LEMMA BytesAreWindow ==
  ASSUME NEW a, IsWindow(a), NEW const \in BOOLEAN
  PROVE  IsWindow(AsVoid(a, const)) /\ AsVoid(a, const).void
<1>1. PICK m : m = AsVoid(a, const)
  OBVIOUS
<1>2. a \in Windows /\ a.pointer + a.bytelen <= BlockLen
  BY DEF IsWindow
<1>3. m = [a EXCEPT !.void = TRUE, !.const = const, !.size = 1, !.elementcount = 0]
  BY <1>1 DEF AsVoid
<1>4. m \in Windows /\ m.pointer = a.pointer /\ m.bytelen = a.bytelen /\ m.size = 1 /\ m.elementcount = 0
  <2>1. m \in Windows
    <3>1. PICK size \in Nat \ {0}, count \in Nat : size = 1 /\ count = 0
      OBVIOUS
    <3>2. m = [a EXCEPT !.void = TRUE, !.const = const, !.size = size, !.elementcount = count]
      BY <1>3, <3>1
    <3>. QED
      BY <1>2, <3>2 DEF Windows
  <2>2. m.pointer = a.pointer /\ m.bytelen = a.bytelen
    BY <1>2, <1>3 DEF Windows
  <2>3. m.size = 1 /\ m.elementcount = 0
    BY <1>2, <1>3 DEF Windows
  <2>. QED
    BY <2>1, <2>2, <2>3
<1>5. m.void
  BY <1>2, <1>3 DEF Windows
<1>. QED
  BY <1>1, <1>2, <1>4, <1>5 DEF IsWindow, Whole

\* A window on bytes with another pointer and length.
LEMMA BytesPlaced ==
  ASSUME NEW a, IsWindow(a), a.void, NEW p \in Nat, NEW len \in Nat, p + len <= BlockLen
  PROVE  IsWindow([a EXCEPT !.pointer = p, !.bytelen = len])
<1>1. PICK m : m = [a EXCEPT !.pointer = p, !.bytelen = len]
  OBVIOUS
<1>2. a \in Windows /\ a.size = 1 /\ a.elementcount = 0
  BY DEF IsWindow, Whole
<1>3. m \in Windows /\ m.pointer = p /\ m.bytelen = len /\ m.size = 1 /\ m.elementcount = 0 /\ m.void = a.void
  BY <1>1, <1>2 DEF Windows
<1>. QED
  BY <1>1, <1>3 DEF IsWindow, Whole

\* The whole of the block up to the end of the window.
LEMMA ResetIsWindow ==
  ASSUME NEW a, IsWindow(a), a.void
  PROVE  IsWindow(reset(a))
<1>1. PICK p \in Nat, len \in Nat : p = a.membegin /\ len = UsedByteLen(a) + a.bytelen /\ p + len <= BlockLen
  BY DEF IsWindow, Windows, UsedByteLen
<1>2. reset(a) = [a EXCEPT !.pointer = p, !.bytelen = len]
  BY <1>1 DEF reset
<1>3. IsWindow([a EXCEPT !.pointer = p, !.bytelen = len])
  BY <1>1, BytesPlaced
<1>. QED
  BY <1>2, <1>3

\* Steps of a TRef on bytes.
LEMMA SteppedIsWindow ==
  ASSUME NEW a, IsWindow(a), a.void, NEW size \in Nat, NEW n \in Int, MayStep(a, size, n)
  PROVE  IsWindow(Stepped(a, size, n))
<1>1. PICK d \in Int : d = n * size
  OBVIOUS
<1>2. a.pointer \in Nat /\ a.bytelen \in Nat /\ a.membegin = 0 /\ a.pointer + a.bytelen <= BlockLen /\ BlockLen \in Nat
  BY PtrArrayAssumption DEF IsWindow, Windows, PtrArrayAssumption
<1>3. a.pointer + d >= 0 /\ a.bytelen - d >= 0
  <2>1. CASE n >= 0
    <3>1. d >= 0
      BY <1>1, <2>1
    <3>. QED
      BY <1>1, <1>2, <2>1, <3>1 DEF MayStep
  <2>2. CASE n < 0
    <3>1. d <= 0
      BY <1>1, <2>2
    <3>. QED
      BY <1>1, <1>2, <2>2, <3>1 DEF MayStep
  <2>. QED
    BY <2>1, <2>2
<1>4. PICK p \in Nat, len \in Nat : p = a.pointer + d /\ len = a.bytelen - d /\ p + len <= BlockLen
  BY <1>2, <1>3
<1>5. Stepped(a, size, n) = [a EXCEPT !.pointer = p, !.bytelen = len]
  BY <1>1, <1>4 DEF Stepped
<1>6. IsWindow([a EXCEPT !.pointer = p, !.bytelen = len])
  BY <1>4, BytesPlaced
<1>. QED
  BY <1>5, <1>6

\* A window at the start of the block or behind it.
LEMMA MadeIsWindow ==
  ASSUME NEW size \in Sizes, NEW pointer \in Nat, NEW count \in Nat, pointer + count * size <= BlockLen
  PROVE  IsWindow(ptr_array(pointer, count, size, 0))
<1>1. size \in Nat \ {0}
  BY PtrArrayAssumption DEF PtrArrayAssumption
<1>2. PICK len \in Nat : len = count * size /\ len \div size = count
  BY <1>1, QuotientOf
<1>3. PICK m : m = ptr_array(pointer, count, size, 0)
  OBVIOUS
<1>4. m = [void |-> FALSE, const |-> FALSE, size |-> size, membegin |-> 0, pointer |-> pointer, elementcount |-> count, bytelen |-> len]
  BY <1>2, <1>3 DEF ptr_array
<1>5. m \in Windows /\ m.pointer = pointer /\ m.bytelen = len /\ m.size = size /\ m.elementcount = count
  BY <1>1, <1>4 DEF Windows
<1>6. ~m.void
  BY <1>4, SMT
<1>. QED
  BY <1>2, <1>3, <1>5, <1>6 DEF IsWindow, Whole

\* What indices, iterators and TRefs reach of a window.
LEMMA WindowReaches ==
  ASSUME PtrArrayInv
  PROVE  WindowInBlock
<1>1. PICK s \in Nat \ {0}, pointer \in Nat, b \in Nat, c \in Nat :
        /\ s = array.size /\ pointer = array.pointer /\ b = array.bytelen /\ c = array.elementcount
        /\ pointer + b <= BlockLen /\ c = IF array.void THEN 0 ELSE b \div s
  BY DEF PtrArrayInv, IsWindow, Windows, Whole
<1>2. array.membegin = 0
  BY DEF PtrArrayInv, IsWindow, Windows
<1>3. ASSUME ~array.void, NEW i \in 0 - BlockLen .. BlockLen
      PROVE  /\ MayIndexConst(array, i) => MayIndex(array, i)
             /\ MayIndex(array, i) => Within(Address(array, i), array.size)
             /\ MayTouch(Iterator(array, i)) <=> i >= 0 /\ MayIndex(array, i)
  <2>1. i \in Int
    OBVIOUS
  <2>2. PICK q \in Int : q = pointer \div s /\ s * q <= pointer
    BY Quotient
  <2>3. PICK d \in Int, e \in Int : d = i * s /\ e = c * s
    BY <2>1
  <2>4. Behind(array) = q
    BY <1>1, <1>2, <2>2 DEF Behind, UsedByteLen
  <2>5. MayIndex(array, i) <=> (i < c /\ (i < 0 => 0 - i <= q))
    BY <1>1, <2>4 DEF MayIndex
  <2>6. MayIndexConst(array, i) <=> (i < c /\ (i < 0 => 0 - i < q))
    BY <1>1, <2>4 DEF MayIndexConst
  <2>7. Address(array, i) = pointer + d
    BY <1>1, <2>3 DEF Address
  <2>8. (i < c => d + s <= e) /\ (i < c <=> d < e) /\ (i < 0 <=> d < 0) /\ e <= b
    <3>1. (i < c <=> d < e) /\ (i < 0 <=> d < 0)
      <4>1. i < c <=> i * s < c * s
        BY <2>1, Factor
      <4>2. i < 0 <=> i * s < 0 * s
        BY <2>1, Factor
      <4>3. 0 * s = 0
        OBVIOUS
      <4>. QED
        BY <2>3, <4>1, <4>2, <4>3
    <3>2. i < c => d + s <= e
      <4>1. i + 1 > c \/ ~(c * s < (i + 1) * s)
        BY <2>1, Factor
      <4>2. (i + 1) * s = d + s
        BY <2>1, <2>3
      <4>. QED
        BY <2>1, <2>3, <4>1, <4>2
    <3>3. e <= b
      <4>1. c = b \div s
        BY <1>1, <1>3
      <4>2. s * (b \div s) <= b
        BY Quotient
      <4>. QED
        BY <2>3, <4>1, <4>2
    <3>. QED
      BY <3>1, <3>2, <3>3
  <2>9. (i < 0 /\ 0 - i <= q) => pointer + d >= 0
    <3>1. q < 0 - i <=> q * s < (0 - i) * s
      BY <2>1, Factor
    <3>2. (0 - i) * s = 0 - d
      BY <2>1, <2>3, Distributes
    <3>. QED
      BY <2>1, <2>2, <2>3, <3>1, <3>2
  <2>10. MayIndex(array, i) => Within(Address(array, i), array.size)
    BY <1>1, <1>2, <2>1, <2>3, <2>5, <2>7, <2>8, <2>9 DEF Within
  <2>11. MayTouch(Iterator(array, i)) <=> (pointer <= pointer + d /\ pointer + d < pointer + e)
    <3>1. Address(array, array.elementcount) = pointer + e
      BY <1>1, <2>3 DEF Address
    <3>. QED
      BY <1>1, <2>7, <3>1 DEF MayTouch, Iterator
  <2>12. MayTouch(Iterator(array, i)) <=> i >= 0 /\ MayIndex(array, i)
    BY <2>1, <2>3, <2>5, <2>8, <2>11
  <2>. QED
    BY <2>1, <2>2, <2>5, <2>6, <2>10, <2>12
<1>4. ASSUME MayRefer(array, tref) PROVE Within(array.pointer, tref)
  <2>1. tref \in Nat
    BY PtrArrayAssumption DEF PtrArrayAssumption, PtrArrayInv
  <2>. QED
    BY <1>1, <1>2, <1>4, <2>1 DEF MayRefer, Within
<1>. QED
  BY <1>1, <1>2, <1>3, <1>4 DEF WindowInBlock

\* An array that is made is a window.
LEMMA PtrArrayInitially ==
  ASSUME PtrArrayInit
  PROVE  PtrArrayInv
<1>1. PICK size \in Sizes, pointer \in 0 .. BlockLen, count \in 0 .. BlockLen :
        pointer + count * size <= BlockLen /\ array = ptr_array(pointer, count, size, 0)
  BY DEF PtrArrayInit
<1>2. tref = 0
  BY DEF PtrArrayInit
<1>3. BlockLen \in Nat
  BY PtrArrayAssumption DEF PtrArrayAssumption
<1>4. IsWindow(array)
  BY <1>1, <1>3, MadeIsWindow
<1>. QED
  BY <1>2, <1>4 DEF PtrArrayInv

\* So is what each operation makes of it.
LEMMA PtrArrayStep ==
  ASSUME PtrArrayInv, PtrArrayNext
  PROVE  PtrArrayInv'
<1>1. BlockLen \in Nat /\ Sizes \subseteq Nat
  BY PtrArrayAssumption DEF PtrArrayAssumption
<1>2. IsWindow(array) /\ tref \in Sizes \cup {0} /\ (tref # 0 => array.void)
  BY DEF PtrArrayInv
<1>3. ASSUME NEW n \in Int, MayMove(array, n), Becomes(Moved(array, n)) PROVE PtrArrayInv'
  <2>1. IsWindow(array') /\ tref' = tref
    BY <1>2, <1>3, MovedIsWindow DEF Becomes
  <2>2. array'.void = array.void
    BY <1>2, <1>3 DEF Becomes, Moved, Placed, IsWindow, Windows
  <2>. QED
    BY <1>2, <2>1, <2>2 DEF PtrArrayInv, IsWindow, Windows, Whole
<1>4. ASSUME NEW a, IsWindow(a), ConvertTo(a) PROVE PtrArrayInv'
  BY <1>4 DEF ConvertTo, PtrArrayInv, IsWindow, Windows, Whole
<1>5. ASSUME NEW a, IsWindow(a), Becomes(a), ~array.void PROVE PtrArrayInv'
  BY <1>2, <1>5 DEF Becomes, PtrArrayInv, IsWindow, Windows, Whole
<1>6. ASSUME NEW n \in Int, tref # 0, MayStep(array, tref, n), Becomes(Stepped(array, tref, n)) PROVE PtrArrayInv'
  <2>1. IsWindow(array') /\ tref' = tref
    BY <1>1, <1>2, <1>6, SteppedIsWindow DEF Becomes
  <2>2. array'.void = array.void
    BY <1>2, <1>6 DEF Becomes, Stepped, IsWindow, Windows
  <2>. QED
    BY <1>2, <2>1, <2>2 DEF PtrArrayInv, IsWindow, Windows, Whole
<1>7. ASSUME NEW n \in 0 - BlockLen .. BlockLen, Plus(n) \/ Minus(n) \/ MinusAssign(n) PROVE PtrArrayInv'
  <2>1. n \in Int /\ 0 - n \in Int
    BY <1>1
  <2>. QED
    BY <1>3, <1>7, <2>1 DEF Plus, Minus, MinusAssign
<1>8. CASE Increment
  BY <1>2, <1>5, <1>8, IncrementedIsWindow DEF Increment
<1>9. CASE Decrement
  BY <1>2, <1>5, <1>9, DecrementedIsWindow DEF Decrement
<1>10. CASE Reset
  <2>1. IsWindow(array') /\ tref' = tref
    BY <1>2, <1>10, ResetIsWindow DEF Reset, Becomes
  <2>2. array'.void = array.void
    BY <1>2, <1>10 DEF Reset, Becomes, reset, IsWindow, Windows
  <2>. QED
    BY <1>2, <2>1, <2>2 DEF PtrArrayInv, IsWindow, Windows, Whole
<1>11. CASE RefIncrement \/ RefDecrement
  BY <1>6, <1>11 DEF RefIncrement, RefDecrement
<1>12. ASSUME NEW n \in 0 .. BlockLen, AppendElements(n) \/ AppendBytes(n) PROVE PtrArrayInv'
  <2>1. n \in Int /\ n >= 0
    BY <1>1
  <2>2. MayMove(array, n)
    BY <1>12, <2>1 DEF AppendElements, AppendBytes, MayMove, Ahead
  <2>. QED
    BY <1>3, <1>12, <2>1, <2>2 DEF AppendElements, AppendBytes
<1>13. ASSUME NEW n \in 0 .. BlockLen, RefPlus(n) \/ RefMinus(n) PROVE PtrArrayInv'
  <2>1. n \in Int /\ 0 - n \in Int
    BY <1>1
  <2>. QED
    BY <1>6, <1>13, <2>1 DEF RefPlus, RefMinus
<1>14. ASSUME NEW const \in BOOLEAN, ConvertToVoid(const) PROVE PtrArrayInv'
  <2>1. IsWindow(AsVoid(array, const))
    BY <1>2, BytesAreWindow
  <2>. QED
    BY <1>4, <1>14, <2>1 DEF ConvertToVoid
<1>15. ASSUME NEW const \in BOOLEAN, NEW size \in Sizes, Convert(size, const) PROVE PtrArrayInv'
  <2>1. IsWindow(AsElements(array, size, const))
    BY <1>2, ElementsAreWindow
  <2>. QED
    BY <1>4, <1>15, <2>1 DEF Convert
<1>16. ASSUME NEW size \in Sizes, UseAs(size) PROVE PtrArrayInv'
  BY <1>2, <1>16 DEF UseAs, PtrArrayInv, IsWindow, Windows, Whole
<1>. QED
  BY <1>7, <1>8, <1>9, <1>10, <1>11, <1>12, <1>13, <1>14, <1>15, <1>16 DEF PtrArrayNext

\* A ptr_array never leaves the block it was made for: for any block, any sizes
\* of elements and any sequence of moves, conversions, resets and steps through
\* a TRef, nothing that is not refused reaches outside of its window, and its
\* elements are whole (Ptr_Array.h:176).
THEOREM WindowStaysInBlock == PtrArraySpec => []WindowInBlock
<1>1. PtrArrayInit => PtrArrayInv
  BY PtrArrayInitially
<1>2. PtrArrayInv /\ [PtrArrayNext]_ptrArrayVars => PtrArrayInv'
  <2>. SUFFICES ASSUME PtrArrayInv, [PtrArrayNext]_ptrArrayVars PROVE PtrArrayInv'
    OBVIOUS
  <2>1. CASE PtrArrayNext
    BY <2>1, PtrArrayStep
  <2>2. CASE UNCHANGED ptrArrayVars
    BY <2>2 DEF ptrArrayVars, PtrArrayInv, IsWindow, Windows, Whole
  <2>. QED
    BY <2>1, <2>2
<1>3. PtrArrayInv => WindowInBlock
  BY WindowReaches
<1>. QED
  BY <1>1, <1>2, <1>3, PTL DEF PtrArraySpec

-----------------------------------------------------------------------------
(*****************************************************************************)
(* Remainders                                                                *)
(*****************************************************************************)

\* m is a number of whole turns of w.
IsMultiple(m, w) == \E q \in Int : m = w * q

\* Multiples add up.
LEMMA Multiples ==
  ASSUME NEW w \in Nat \ {0}, NEW m \in Int, IsMultiple(m, w), NEW o \in Int, IsMultiple(o, w)
  PROVE  IsMultiple(m + o, w) /\ IsMultiple(0 - m, w)
<1>1. PICK q \in Int, p \in Int : m = w * q /\ o = w * p
  BY DEF IsMultiple
<1>2. PICK s \in Int, d \in Int : s = q + p /\ d = 0 - q
  OBVIOUS
<1>3. w * s = w * q + w * p /\ w * d = 0 - w * q
  BY <1>2
<1>4. m + o = w * s /\ 0 - m = w * d
  BY <1>1, <1>3
<1>. QED
  BY <1>4 DEF IsMultiple

\* One turn, up or down.
LEMMA OneTurn ==
  ASSUME NEW w \in Nat \ {0}
  PROVE  IsMultiple(w, w) /\ IsMultiple(0 - w, w)
<1>1. w = w * 1 /\ 0 - w = w * (0 - 1)
  OBVIOUS
<1>. QED
  BY <1>1 DEF IsMultiple

\* The remainder by name, so that the provers need not calculate it.
HasRemainder(x, w, r) == x % w = r

\* What a remainder is.
LEMMA RemainderIs ==
  ASSUME NEW w \in Nat \ {0}, NEW m \in Int, IsMultiple(m, w), NEW r \in 0 .. w - 1, NEW x \in Int, x = m + r
  PROVE  HasRemainder(x, w, r)
BY DEF IsMultiple, HasRemainder

\* Every number is a multiple and a remainder.
LEMMA Remainder ==
  ASSUME NEW x \in Int, NEW w \in Nat \ {0}
  PROVE  \E m \in Int, r \in 0 .. w - 1 : IsMultiple(m, w) /\ x = m + r /\ HasRemainder(x, w, r)
<1>1. PICK q \in Int : w * q <= x /\ x < w * q + w
  BY Quotient
<1>2. PICK m \in Int : m = w * q
  OBVIOUS
<1>3. PICK r \in 0 .. w - 1 : r = x - m
  BY <1>1, <1>2
<1>4. x = m + r /\ IsMultiple(m, w)
  BY <1>2, <1>3 DEF IsMultiple
<1>. QED
  BY <1>4, RemainderIs

\* Remainders add up.
LEMMA RemainderAdds ==
  ASSUME NEW x \in Int, NEW y \in Int, NEW w \in Nat \ {0}
  PROVE  ((x % w) + y) % w = (x + y) % w
<1>1. PICK m \in Int, r \in 0 .. w - 1 : IsMultiple(m, w) /\ x = m + r /\ HasRemainder(x, w, r)
  BY Remainder
<1>2. PICK z \in Int : z = r + y
  OBVIOUS
<1>3. PICK o \in Int, s \in 0 .. w - 1 : IsMultiple(o, w) /\ z = o + s /\ HasRemainder(z, w, s)
  BY Remainder
<1>4. PICK u \in Int : u = x + y
  OBVIOUS
<1>5. PICK a \in Int : a = m + o
  OBVIOUS
<1>6. IsMultiple(a, w) /\ u = a + s
  <2>1. IsMultiple(m + o, w)
    BY <1>1, <1>3, Multiples
  <2>. QED
    BY <1>1, <1>2, <1>3, <1>4, <1>5, <2>1
<1>7. HasRemainder(u, w, s)
  BY <1>6, RemainderIs
<1>. QED
  BY <1>1, <1>2, <1>3, <1>4, <1>7 DEF HasRemainder

\* A number moved by n is within the numbers, or one turn away.
LEMMA RemainderUp ==
  ASSUME NEW w \in Nat \ {0}, NEW b \in 0 .. w - 1, NEW k \in 0 .. w - 1, NEW m \in Int, IsMultiple(m, w), NEW x \in Int, x = m + b + k
  PROVE  HasRemainder(x, w, IF b + k < w THEN b + k ELSE b + k - w)
<1>1. CASE b + k < w
  <2>1. b + k \in 0 .. w - 1 /\ x = m + (b + k)
    BY <1>1
  <2>2. HasRemainder(x, w, b + k)
    BY <2>1, RemainderIs
  <2>. QED
    BY <1>1, <2>2
<1>2. CASE ~(b + k < w)
  <2>1. PICK o \in Int, r \in 0 .. w - 1 : o = m + w /\ r = b + k - w
    BY <1>2
  <2>2. IsMultiple(o, w) /\ x = o + r
    BY <2>1, Multiples, OneTurn
  <2>3. HasRemainder(x, w, r)
    BY <2>2, RemainderIs
  <2>. QED
    BY <1>2, <2>1, <2>3
<1>. QED
  BY <1>1, <1>2

\* The same downwards.
LEMMA RemainderDown ==
  ASSUME NEW w \in Nat \ {0}, NEW b \in 0 .. w - 1, NEW k \in 0 .. w - 1, NEW m \in Int, IsMultiple(m, w), NEW x \in Int, x = m + b - k
  PROVE  HasRemainder(x, w, IF b - k >= 0 THEN b - k ELSE b - k + w)
<1>1. CASE b - k >= 0
  <2>1. b - k \in 0 .. w - 1 /\ x = m + (b - k)
    BY <1>1
  <2>2. HasRemainder(x, w, b - k)
    BY <2>1, RemainderIs
  <2>. QED
    BY <1>1, <2>2
<1>2. CASE ~(b - k >= 0)
  <2>1. PICK v \in Int, o \in Int, r \in 0 .. w - 1 : v = 0 - w /\ o = m + v /\ r = b - k + w
    BY <1>2
  <2>2. IsMultiple(o, w)
    <3>1. IsMultiple(v, w)
      BY <2>1, OneTurn
    <3>2. IsMultiple(m + v, w)
      BY <3>1, Multiples
    <3>. QED
      BY <2>1, <3>2
  <2>3. x = o + r
    BY <2>1
  <2>4. HasRemainder(x, w, r)
    BY <2>2, <2>3, RemainderIs
  <2>. QED
    BY <1>2, <2>1, <2>4
<1>. QED
  BY <1>1, <1>2

\* Where the number b goes when it moves by n, whose remainder is k.
IsMoved(b, n, k, w) ==
  /\ (b + n) % w = IF b + k < w THEN b + k ELSE b + k - w
  /\ (b + (0 - n)) % w = IF b - k >= 0 THEN b - k ELSE b - k + w

\* So moves every number.
LEMMA RemainderMoved ==
  ASSUME NEW w \in Nat \ {0}, NEW b \in 0 .. w - 1, NEW n \in Int
  PROVE  IsMoved(b, n, n % w, w)
<1>1. PICK m \in Int, r \in 0 .. w - 1 : IsMultiple(m, w) /\ n = m + r /\ HasRemainder(n, w, r)
  BY Remainder
<1>2. PICK x \in Int, y \in Int, o \in Int : x = b + n /\ y = b + (0 - n) /\ o = 0 - m
  OBVIOUS
<1>3. x = m + b + r /\ y = o + b - r
  BY <1>1, <1>2
<1>4. IsMultiple(o, w)
  BY <1>1, <1>2, Multiples
<1>5. HasRemainder(x, w, IF b + r < w THEN b + r ELSE b + r - w)
  BY <1>1, <1>3, RemainderUp
<1>6. HasRemainder(y, w, IF b - r >= 0 THEN b - r ELSE b - r + w)
  BY <1>3, <1>4, RemainderDown
<1>. QED
  BY <1>1, <1>2, <1>5, <1>6 DEF HasRemainder, IsMoved

\* A circle of w values is not closed before all of them are told.
LEMMA CircleCloses ==
  ASSUME NEW w \in Nat \ {0}, NEW s \in 0 .. w - 1, NEW e \in 0 .. w - 1, NEW d \in Int, HasRemainder(e - s, w, d),
         NEW n \in 0 .. w - 1, NEW x \in Int, x = s + n
  PROVE  d \in 0 .. w - 1 /\ (HasRemainder(x, w, e) <=> n = d)
<1>1. PICK m \in Int : IsMultiple(m, w) /\ e - s = m + d /\ d \in 0 .. w - 1
  <2>1. PICK m \in Int, r \in 0 .. w - 1 : IsMultiple(m, w) /\ e - s = m + r /\ HasRemainder(e - s, w, r)
    <3>1. e - s \in Int
      OBVIOUS
    <3>. QED
      BY <3>1, Remainder
  <2>2. d = r
    BY <2>1 DEF HasRemainder
  <2>. QED
    BY <2>1, <2>2
<1>2. ASSUME n = d PROVE HasRemainder(x, w, e)
  <2>1. PICK o \in Int : o = 0 - m
    OBVIOUS
  <2>2. IsMultiple(o, w)
    BY <1>1, <2>1, Multiples
  <2>3. x = o + e
    BY <1>1, <1>2, <2>1
  <2>. QED
    BY <2>2, <2>3, RemainderIs
<1>3. ASSUME HasRemainder(x, w, e) PROVE n = d
  <2>1. PICK o \in Int, r \in 0 .. w - 1 : IsMultiple(o, w) /\ x = o + r /\ HasRemainder(x, w, r)
    BY Remainder
  <2>2. r = e
    BY <1>3, <2>1 DEF HasRemainder
  <2>3. PICK a \in Int : a = o + m
    OBVIOUS
  <2>4. IsMultiple(a, w)
    <3>1. IsMultiple(o + m, w)
      BY <1>1, <2>1, Multiples
    <3>. QED
      BY <2>3, <3>1
  <2>5. n = a + d
    BY <1>1, <2>1, <2>2, <2>3
  <2>6. HasRemainder(n, w, d)
    BY <1>1, <2>4, <2>5, RemainderIs
  <2>7. HasRemainder(n, w, n)
    <3>1. IsMultiple(0, w)
      <4>1. 0 = w * 0
        OBVIOUS
      <4>. QED
        BY <4>1 DEF IsMultiple
    <3>2. n = 0 + n
      OBVIOUS
    <3>. QED
      BY <3>1, <3>2, RemainderIs
  <2>. QED
    BY <2>6, <2>7 DEF HasRemainder
<1>. QED
  BY <1>1, <1>2, <1>3

\* The same for a circle that goes down.
IsDown(s, e, w, d) == HasRemainder(s - e, w, d)
ClosesDown(s, n, w, e, d) == HasRemainder(s - n, w, e) <=> n = d

LEMMA CircleClosesDown ==
  ASSUME NEW w \in Nat \ {0}, NEW s \in 0 .. w - 1, NEW e \in 0 .. w - 1, NEW d \in 0 .. w - 1, IsDown(s, e, w, d),
         NEW n \in 0 .. w - 1
  PROVE  ClosesDown(s, n, w, e, d)
<1>0. PICK x \in Int, y \in Int : x = s - n /\ y = s - e /\ HasRemainder(y, w, d)
  BY DEF IsDown
<1>1. PICK m \in Int : IsMultiple(m, w) /\ y = m + d /\ d \in 0 .. w - 1
  <2>1. PICK m \in Int, r \in 0 .. w - 1 : IsMultiple(m, w) /\ y = m + r /\ HasRemainder(y, w, r)
    BY Remainder
  <2>2. d = r
    BY <1>0, <2>1 DEF HasRemainder
  <2>. QED
    BY <2>1, <2>2
<1>2. ASSUME n = d PROVE HasRemainder(x, w, e)
  <2>1. x = m + e
    BY <1>0, <1>1, <1>2
  <2>. QED
    BY <1>1, <2>1, RemainderIs
<1>3. ASSUME HasRemainder(x, w, e) PROVE n = d
  <2>1. PICK o \in Int, r \in 0 .. w - 1 : IsMultiple(o, w) /\ x = o + r /\ HasRemainder(x, w, r)
    BY Remainder
  <2>2. r = e
    BY <1>3, <2>1 DEF HasRemainder
  <2>3. y = o + n
    BY <1>0, <2>1, <2>2
  <2>4. HasRemainder(y, w, n)
    BY <2>1, <2>3, RemainderIs
  <2>. QED
    BY <1>0, <2>4 DEF HasRemainder
<1>4. HasRemainder(x, w, e) <=> n = d
  BY <1>2, <1>3
<1>. QED
  BY <1>0, <1>4 DEF ClosesDown

-----------------------------------------------------------------------------
(*****************************************************************************)
(* Bits of a word                                                            *)
(*****************************************************************************)

\* f is the first of the bits, and the others are behind it.
IsSplit(s, bits) ==
  \/ bits = {} /\ s = NoBits
  \/ \E f \in bits : (\A b \in bits : f <= b) /\ s = [first_bit |-> {f}, rest |-> bits \ {f}]

\* So bitfeld_split() splits what lies at the position and behind it.
LEMMA Splits ==
  ASSUME NEW bits \in SUBSET Nat, NEW position, \A b \in bits : b >= position
  PROVE  IsSplit(bitfeld_split(bits, position), bits)
<1>1. {b \in bits : b >= position} = bits
  OBVIOUS
<1>2. CASE bits = {}
  <2>1. bitfeld_split(bits, position) = NoBits
    BY <1>1, <1>2 DEF bitfeld_split
  <2>. QED
    BY <1>2, <2>1 DEF IsSplit
<1>3. CASE bits # {}
  <2>1. PICK f : f = Min(bits)
    OBVIOUS
  <2>2. f \in bits /\ \A b \in bits : f <= b
    <3>1. \E x \in bits : \A y \in bits : x <= y
      BY <1>3, FirstKey
    <3>. QED
      BY <2>1, <3>1 DEF Min
  <2>3. bitfeld_split(bits, position) = [first_bit |-> {f}, rest |-> bits \ {f}]
    BY <1>1, <1>3, <2>1 DEF bitfeld_split
  <2>. QED
    BY <2>2, <2>3 DEF IsSplit
<1>. QED
  BY <1>2, <1>3

\* The rest after the first bit.
LEMMA RestSplits ==
  ASSUME NEW bits \in SUBSET Nat, NEW f \in bits, \A b \in bits : f <= b, NEW s, s = [first_bit |-> {f}, rest |-> bits \ {f}]
  PROVE  IsSplit(getRest(s), bits \ {f})
<1>1. s.first_bit = {f} /\ s.rest = bits \ {f}
  OBVIOUS
<1>2. Max({f}) = f
  <2>1. f >= f
    OBVIOUS
  <2>. QED
    BY <2>1 DEF Max
<1>3. getRest(s) = bitfeld_split(bits \ {f}, f + 1)
  BY <1>1, <1>2 DEF getRest
<1>4. \A b \in bits \ {f} : b >= f + 1
  OBVIOUS
<1>. QED
  BY <1>3, <1>4, Splits

\* The bits that were told.
Gone == UNION {told[n] : n \in DOMAIN told}

\* The iterator holds the split of the bits that are left, and those that were
\* told lie before them.
BitsInv ==
  /\ told \in Seq(SUBSET Nat)
  /\ number.of \in SUBSET all_bits_mask(Width)
  /\ number = [of |-> number.of, at |-> number.at]
  /\ IsSplit(number.at, number.of \ Gone)
  /\ \A n \in DOMAIN told : \A b \in told[n], c \in number.of \ Gone : b < c

\* So each bit is told once, in order, and the last is recognized.
LEMMA BitsTold ==
  ASSUME NumbersAssumption, BitsInv
  PROVE  BitsOnceAscending
<1>1. PICK left : left = number.of \ Gone
  OBVIOUS
<1>2. IsFiniteSet(left) /\ left \in SUBSET Nat
  <2>1. IsFiniteSet(0 .. Width - 1)
    BY FS_Interval DEF NumbersAssumption
  <2>2. number.of \in SUBSET (0 .. Width - 1)
    BY DEF BitsInv, all_bits_mask
  <2>3. left \in SUBSET (0 .. Width - 1)
    BY <1>1, <2>2
  <2>4. IsFiniteSet(left)
    <3>1. left \subseteq 0 .. Width - 1
      BY <2>3
    <3>. QED
      BY <2>1, <3>1, FS_Subset, Zenon
  <2>5. left \in SUBSET Nat
    BY <2>3 DEF NumbersAssumption
  <2>. QED
    BY <2>4, <2>5
<1>3. PICK s : s = number.at
  OBVIOUS
<1>4. getValue(s) = left /\ (is_multibit(s) <=> Cardinality(left) > 1) /\ (s.first_bit = {} <=> left = {})
  <2>1. CASE left = {} /\ s = NoBits
    <3>1. s.first_bit = {} /\ s.rest = {}
      BY <2>1 DEF NoBits
    <3>2. Cardinality(left) = 0
      BY <2>1, FS_EmptySet
    <3>. QED
      BY <2>1, <3>1, <3>2 DEF getValue, is_multibit
  <2>2. ASSUME NEW f \in left, s = [first_bit |-> {f}, rest |-> left \ {f}]
        PROVE  getValue(s) = left /\ (is_multibit(s) <=> Cardinality(left) > 1) /\ (s.first_bit = {} <=> left = {})
    <3>1. s.first_bit = {f} /\ s.rest = left \ {f}
      BY <2>2
    <3>2. Cardinality(left \ {f}) = Cardinality(left) - 1 /\ IsFiniteSet(left \ {f})
      BY <1>2, FS_RemoveElement
    <3>3. Cardinality(left) \in Nat /\ (Cardinality(left \ {f}) = 0 <=> left \ {f} = {}) /\ Cardinality(left \ {f}) \in Nat
      BY <1>2, <3>2, FS_CardinalityType, FS_EmptySet
    <3>4. left \ {f} # {} <=> Cardinality(left) > 1
      BY <3>2, <3>3
    <3>5. getValue(s) = left
      BY <3>1 DEF getValue
    <3>6. is_multibit(s) <=> left \ {f} # {}
      BY <3>1 DEF is_multibit
    <3>. QED
      BY <3>1, <3>4, <3>5, <3>6
  <2>. QED
    BY <1>1, <1>3, <2>1, <2>2 DEF BitsInv, IsSplit
<1>. QED
  BY <1>1, <1>3, <1>4 DEF BitsInv, BitsOnceAscending, Gone

\* Before the first bit.
LEMMA BitsInitially ==
  ASSUME NumbersAssumption, NEW w \in SUBSET all_bits_mask(Width), number = [of |-> w, at |-> split_bits(w)], told = <<>>
  PROVE  BitsInv
<1>1. w \in SUBSET Nat /\ \A b \in w : b >= 0
  BY DEF all_bits_mask, NumbersAssumption
<1>2. IsSplit(split_bits(w), w)
  BY <1>1, Splits DEF split_bits
<1>3. Gone = {}
  BY DEF Gone
<1>4. number.of = w /\ number.at = split_bits(w)
  OBVIOUS
<1>5. number.of \ Gone = w
  BY <1>3, <1>4
<1>6. told \in Seq(SUBSET Nat) /\ DOMAIN told = {}
  OBVIOUS
<1>7. number = [of |-> number.of, at |-> number.at]
  BY <1>4
<1>. QED
  BY <1>2, <1>4, <1>5, <1>6, <1>7 DEF BitsInv

\* The iterator goes on to the next bit.
LEMMA BitsStep ==
  ASSUME NumbersAssumption, BitsInv, NextBit
  PROVE  BitsInv'
<1>1. PICK left : left = number.of \ Gone
  OBVIOUS
<1>2. left \in SUBSET Nat
  BY <1>1 DEF BitsInv, all_bits_mask, NumbersAssumption
<1>3. PICK s : s = number.at
  OBVIOUS
<1>4. s.first_bit # {} /\ IsSplit(s, left)
  BY <1>1, <1>3 DEF NextBit, BitsInv
<1>5. PICK f \in left : (\A b \in left : f <= b) /\ s = [first_bit |-> {f}, rest |-> left \ {f}]
  <2>1. s # NoBits
    BY <1>4 DEF NoBits
  <2>. QED
    BY <1>4, <2>1 DEF IsSplit
<1>6. s.first_bit = {f}
  BY <1>5
<1>7. told' = Append(told, {f}) /\ number' = [number EXCEPT !.at = getRest(s)]
  BY <1>3, <1>6 DEF NextBit
<1>8. number'.of = number.of /\ number'.at = getRest(s) /\ number' = [of |-> number.of, at |-> getRest(s)]
  BY <1>7 DEF BitsInv
<1>9. IsSplit(getRest(s), left \ {f})
  BY <1>2, <1>5, RestSplits
<1>10. told \in Seq(SUBSET Nat) /\ {f} \in SUBSET Nat
  BY <1>2 DEF BitsInv
<1>11. /\ told' \in Seq(SUBSET Nat) /\ DOMAIN told' = DOMAIN told \cup {Len(told) + 1}
       /\ told'[Len(told) + 1] = {f} /\ \A n \in DOMAIN told : told'[n] = told[n] /\ n # Len(told) + 1
  BY <1>7, <1>10
<1>12. Gone' = Gone \cup {f}
  BY <1>11 DEF Gone
<1>13. number'.of \ Gone' = left \ {f}
  BY <1>1, <1>8, <1>12
<1>14. ASSUME NEW n \in DOMAIN told', NEW b \in told'[n], NEW c \in left \ {f} PROVE b < c
  <2>1. CASE n \in DOMAIN told
    BY <1>1, <1>11, <1>14, <2>1 DEF BitsInv
  <2>2. CASE n = Len(told) + 1
    <3>1. b = f
      BY <1>11, <1>14, <2>2
    <3>. QED
      BY <1>2, <1>5, <3>1
  <2>. QED
    BY <1>11, <2>1, <2>2
<1>. QED
  BY <1>8, <1>9, <1>11, <1>13, <1>14 DEF BitsInv

-----------------------------------------------------------------------------
(*****************************************************************************)
(* Turns of a word                                                           *)
(*****************************************************************************)

\* The bits of a word moved up or down in a circle.
Around(bits, n, width) == {(b + n) % width : b \in bits}

\* What is shifted out at one end and what comes in at the other.
ShiftsGoAround(bits, n, k, width) ==
  /\ Shifted(bits, k, width) \cup Shifted(bits, k - width, width) = Around(bits, n, width)
  /\ Shifted(bits, 0 - k, width) \cup Shifted(bits, width - k, width) = Around(bits, 0 - n, width)

\* Two shifts make a turn.
LEMMA ShiftedTogether ==
  ASSUME NEW width \in Nat \ {0}, NEW bits \in SUBSET all_bits_mask(width), NEW n \in Int
  PROVE  ShiftsGoAround(bits, n, n % width, width)
<1>0. PICK k : k = n % width
  OBVIOUS
<1>1. /\ \A b \in bits : b \in Int /\ b \in 0 .. width - 1
      /\ k \in Int /\ 0 <= k /\ k < width
  <2>1. PICK r \in 0 .. width - 1 : HasRemainder(n, width, r)
    BY Remainder
  <2>2. k = r
    BY <1>0, <2>1 DEF HasRemainder
  <2>. QED
    BY <2>2 DEF all_bits_mask
<1>2. ASSUME NEW b \in bits
      PROVE  /\ (b + n) % width = IF b + k < width THEN b + k ELSE b + k - width
             /\ (b + (0 - n)) % width = IF b - k >= 0 THEN b - k ELSE b - k + width
  <2>1. IsMoved(b, n, k, width)
    <3>1. IsMoved(b, n, n % width, width)
      BY <1>1, RemainderMoved
    <3>. QED
      BY <1>0, <3>1
  <2>. QED
    BY <2>1 DEF IsMoved
<1>3. PICK plus, minus : plus = [b \in bits |-> (b + n) % width] /\ minus = [b \in bits |-> (b + (0 - n)) % width]
  OBVIOUS
<1>4. Around(bits, n, width) = {plus[b] : b \in bits} /\ Around(bits, 0 - n, width) = {minus[b] : b \in bits}
  BY <1>3 DEF Around
<1>5. /\ \A b \in bits : plus[b] = IF b + k < width THEN b + k ELSE b + k - width
      /\ \A b \in bits : minus[b] = IF b - k >= 0 THEN b - k ELSE b - k + width
  BY <1>2, <1>3
<1>6. Shifted(bits, k, width) \cup Shifted(bits, k - width, width) = {plus[b] : b \in bits}
  BY <1>1, <1>5 DEF Shifted, all_bits_mask
<1>7. Shifted(bits, 0 - k, width) \cup Shifted(bits, width - k, width) = {minus[b] : b \in bits}
  BY <1>1, <1>5 DEF Shifted, all_bits_mask
<1>8. ShiftsGoAround(bits, n, k, width)
  BY <1>4, <1>6, <1>7 DEF ShiftsGoAround
<1>. QED
  BY <1>0, <1>8

\* A shift that is undefined changes nothing: what it would move is there
\* already, or leaves the word.
LEMMA TurnedAround ==
  ASSUME NEW width \in Nat \ {0}, NEW bits \in SUBSET all_bits_mask(width), NEW n \in Int
  PROVE  /\ \A w \in TurnedLeft(bits, n, width) : w = Around(bits, n, width)
         /\ \A w \in TurnedRight(bits, n, width) : w = Around(bits, 0 - n, width)
<1>1. PICK k : k = n % width
  OBVIOUS
<1>2. k \in 0 .. width - 1
  <2>1. PICK r \in 0 .. width - 1 : HasRemainder(n, width, r)
    BY Remainder
  <2>. QED
    BY <1>1, <2>1 DEF HasRemainder
<1>3. /\ Shifted(bits, k, width) \cup Shifted(bits, k - width, width) = Around(bits, n, width)
      /\ Shifted(bits, 0 - k, width) \cup Shifted(bits, width - k, width) = Around(bits, 0 - n, width)
  <2>1. ShiftsGoAround(bits, n, k, width)
    <3>1. ShiftsGoAround(bits, n, n % width, width)
      BY ShiftedTogether
    <3>. QED
      BY <1>1, <3>1
  <2>. QED
    BY <2>1 DEF ShiftsGoAround
<1>4. CASE bits = {}
  BY <1>4 DEF TurnedLeft, TurnedRight, Around
<1>5. CASE bits # {} /\ k = 0
  <2>1. Shifted(bits, 0, width) = bits /\ Shifted(bits, 0 - width, width) = {} /\ Shifted(bits, width, width) = {}
    <3>1. \A b \in bits : b \in Int /\ 0 <= b /\ b < width
      BY DEF all_bits_mask
    <3>2. {b + 0 : b \in bits} = bits /\ bits \subseteq 0 .. width - 1
      BY <3>1
    <3>3. {b + (0 - width) : b \in bits} \cap (0 .. width - 1) = {}
      BY <3>1
    <3>4. {b + width : b \in bits} \cap (0 .. width - 1) = {}
      BY <3>1
    <3>. QED
      BY <3>2, <3>3, <3>4 DEF Shifted, all_bits_mask
  <2>2. k - width = 0 - width /\ width - k = width /\ 0 - k = 0
    BY <1>5
  <2>3. Around(bits, n, width) = bits /\ Around(bits, 0 - n, width) = bits
    BY <1>3, <1>5, <2>1, <2>2
  <2>4. ShiftsBy(bits, k - width, width) = {bits, {}} /\ ShiftsBy(bits, width - k, width) = {bits, {}}
    BY <2>2 DEF ShiftsBy
  <2>5. TurnedLeft(bits, n, width) = {Shifted(bits, k, width) \cup v : v \in {bits, {}}}
    BY <1>1, <1>5, <2>4 DEF TurnedLeft
  <2>6. TurnedRight(bits, n, width) = {Shifted(bits, 0 - k, width) \cup v : v \in {bits, {}}}
    BY <1>1, <1>5, <2>4 DEF TurnedRight
  <2>7. Shifted(bits, k, width) = bits /\ Shifted(bits, 0 - k, width) = bits
    BY <1>5, <2>1, <2>2
  <2>8. \A v \in {bits, {}} : bits \cup v = bits
    OBVIOUS
  <2>. QED
    BY <2>3, <2>5, <2>6, <2>7, <2>8
<1>6. CASE bits # {} /\ k # 0
  <2>1. k - width \notin {0 - width, width} /\ width - k \notin {0 - width, width}
    BY <1>2, <1>6
  <2>2. ShiftsBy(bits, k - width, width) = {Shifted(bits, k - width, width)} /\ ShiftsBy(bits, width - k, width) = {Shifted(bits, width - k, width)}
    BY <2>1 DEF ShiftsBy
  <2>3. TurnedLeft(bits, n, width) = {Shifted(bits, k, width) \cup v : v \in {Shifted(bits, k - width, width)}}
    BY <1>1, <1>6, <2>2 DEF TurnedLeft
  <2>4. TurnedRight(bits, n, width) = {Shifted(bits, 0 - k, width) \cup v : v \in {Shifted(bits, width - k, width)}}
    BY <1>1, <1>6, <2>2 DEF TurnedRight
  <2>. QED
    BY <1>3, <2>3, <2>4
<1>. QED
  BY <1>4, <1>5, <1>6

\* rotl and rotr turn the word, also by a negative number.
LEMMA TurnsGoAround ==
  ASSUME NEW width \in Nat \ {0}, NEW bits \in SUBSET all_bits_mask(width), NEW n \in Int
  PROVE  /\ \A w \in rotl(bits, n, width) : w = Around(bits, n, width)
         /\ \A w \in rotr(bits, n, width) : w = Around(bits, 0 - n, width)
<1>1. CASE n < 0
  <2>1. PICK m \in Int : m = 0 - n /\ n = 0 - m
    OBVIOUS
  <2>2. rotl(bits, n, width) = TurnedRight(bits, m, width) /\ rotr(bits, n, width) = TurnedLeft(bits, m, width)
    BY <1>1, <2>1 DEF rotl, rotr
  <2>. QED
    BY <2>1, <2>2, TurnedAround
<1>2. CASE ~(n < 0)
  <2>1. rotl(bits, n, width) = TurnedLeft(bits, n, width) /\ rotr(bits, n, width) = TurnedRight(bits, n, width)
    BY <1>2 DEF rotl, rotr
  <2>. QED
    BY <2>1, TurnedAround
<1>. QED
  BY <1>1, <1>2

\* Turning twice is turning by the sum.
LEMMA AroundAgain ==
  ASSUME NEW width \in Nat \ {0}, NEW bits \in SUBSET all_bits_mask(width), NEW m \in Int, NEW n \in Int
  PROVE  /\ Around(bits, m, width) \in SUBSET all_bits_mask(width)
         /\ Around(Around(bits, m, width), n, width) = Around(bits, m + n, width)
<1>1. \A b \in bits : b \in Int
  BY DEF all_bits_mask
<1>2. ASSUME NEW b \in bits
      PROVE  (b + m) % width \in 0 .. width - 1 /\ (((b + m) % width) + n) % width = (b + (m + n)) % width
  <2>1. PICK x \in Int : x = b + m
    BY <1>1
  <2>2. PICK r \in 0 .. width - 1 : HasRemainder(x, width, r)
    BY Remainder
  <2>3. ((x % width) + n) % width = (x + n) % width
    BY RemainderAdds
  <2>4. x + n = b + (m + n)
    BY <1>1, <2>1
  <2>5. (b + m) % width \in 0 .. width - 1
    BY <2>1, <2>2, Zenon DEF HasRemainder
  <2>. QED
    BY <2>1, <2>3, <2>4, <2>5, Zenon
<1>3. PICK f : f = [b \in bits |-> (b + m) % width]
  OBVIOUS
<1>4. PICK g : g = [b \in bits |-> (b + (m + n)) % width]
  OBVIOUS
<1>5. PICK h : h = [c \in 0 .. width - 1 |-> (c + n) % width]
  OBVIOUS
<1>6. \A b \in bits : f[b] \in 0 .. width - 1 /\ h[f[b]] = g[b]
  <2>. SUFFICES ASSUME NEW b \in bits PROVE f[b] \in 0 .. width - 1 /\ h[f[b]] = g[b]
    OBVIOUS
  <2>1. f[b] = (b + m) % width /\ g[b] = (b + (m + n)) % width
    BY <1>3, <1>4, Zenon
  <2>2. f[b] \in 0 .. width - 1
    BY <1>2, <2>1, Zenon
  <2>3. h[f[b]] = (f[b] + n) % width
    BY <1>5, <2>2, Zenon
  <2>. QED
    BY <1>2, <2>1, <2>2, <2>3, Zenon
<1>7. PICK B : B = Around(bits, m, width)
  OBVIOUS
<1>8. B = {f[b] : b \in bits}
  BY <1>3, <1>7, Zenon DEF Around
<1>9. Around(bits, m + n, width) = {g[b] : b \in bits}
  BY <1>4, Zenon DEF Around
<1>10. B \subseteq 0 .. width - 1
  BY <1>6, <1>8
<1>11. Around(B, n, width) = {h[c] : c \in B}
  BY <1>5, <1>10, Zenon DEF Around
<1>12. {h[c] : c \in B} = {g[b] : b \in bits}
  BY <1>6, <1>8
<1>. QED
  BY <1>7, <1>9, <1>10, <1>11, <1>12 DEF all_bits_mask

\* The word is the original one turned by the sum of the turns.
IsTurnedWord(t) ==
  /\ t.of \in SUBSET all_bits_mask(Width) /\ t.by \in Int
  /\ t.word = Around(t.of, t.by, Width)
  /\ t = [of |-> t.of, word |-> t.word, by |-> t.by]

TurnInv == IsTurnedWord(number)

\* A word that was not turned is turned by 0.
LEMMA NotTurned ==
  ASSUME NEW width \in Nat \ {0}, NEW bits \in SUBSET all_bits_mask(width)
  PROVE  Around(bits, 0, width) = bits
<1>1. ASSUME NEW b \in bits PROVE (b + 0) % width = b
  <2>1. b \in 0 .. width - 1
    BY DEF all_bits_mask
  <2>2. IsMultiple(0, width)
    <3>1. 0 = width * 0
      OBVIOUS
    <3>. QED
      BY <3>1 DEF IsMultiple
  <2>3. b + 0 \in Int /\ b + 0 = 0 + b
    BY <2>1
  <2>4. HasRemainder(b + 0, width, b)
    BY <2>1, <2>2, <2>3, RemainderIs
  <2>. QED
    BY <2>4 DEF HasRemainder
<1>2. PICK f : f = [b \in bits |-> (b + 0) % width]
  OBVIOUS
<1>3. Around(bits, 0, width) = {f[b] : b \in bits}
  BY <1>2, Zenon DEF Around
<1>4. \A b \in bits : f[b] = b
  BY <1>1, <1>2, Zenon
<1>. QED
  BY <1>3, <1>4

\* Before the first turn.
LEMMA TurnInitially ==
  ASSUME NumbersAssumption, NEW w \in SUBSET all_bits_mask(Width), number = [of |-> w, word |-> w, by |-> 0]
  PROVE  TurnInv
<1>1. Around(w, 0, Width) = w
  BY NotTurned DEF NumbersAssumption
<1>2. number.of = w /\ number.word = w /\ number.by = 0
  OBVIOUS
<1>. QED
  BY <1>1, <1>2 DEF TurnInv, IsTurnedWord

\* One more turn, to the left or to the right.
LEMMA TurnedOnce ==
  ASSUME NumbersAssumption, NEW t, IsTurnedWord(t), NEW n \in Int, NEW left \in BOOLEAN,
         NEW w \in IF left THEN rotl(t.word, n, Width) ELSE rotr(t.word, n, Width)
  PROVE  w = Around(t.of, IF left THEN t.by + n ELSE t.by - n, Width)
<1>0. PICK word : word = t.word
  OBVIOUS
<1>1. PICK of \in SUBSET all_bits_mask(Width), by \in Int :
         of = t.of /\ by = t.by /\ word = t.word /\ word = Around(of, by, Width)
  BY <1>0 DEF IsTurnedWord
<1>2. Width \in Nat \ {0}
  BY DEF NumbersAssumption
<1>3. word \in SUBSET all_bits_mask(Width)
  BY <1>1, <1>2, AroundAgain
<1>4. CASE left
  <2>1. w \in rotl(word, n, Width)
    BY <1>1, <1>4
  <2>2. w = Around(word, n, Width)
    BY <1>2, <1>3, <2>1, TurnsGoAround
  <2>3. Around(Around(of, by, Width), n, Width) = Around(of, by + n, Width)
    BY <1>2, AroundAgain
  <2>. QED
    BY <1>1, <1>4, <2>2, <2>3
<1>5. CASE ~left
  <2>1. w \in rotr(word, n, Width)
    BY <1>1, <1>5
  <2>2. w = Around(word, 0 - n, Width)
    BY <1>2, <1>3, <2>1, TurnsGoAround
  <2>3. PICK m \in Int : m = 0 - n
    OBVIOUS
  <2>4. Around(Around(of, by, Width), m, Width) = Around(of, by + m, Width)
    BY <1>2, AroundAgain
  <2>5. by + m = by - n
    BY <2>3
  <2>. QED
    BY <1>1, <1>5, <2>2, <2>3, <2>4, <2>5
<1>. QED
  BY <1>4, <1>5

\* A turn adds to the sum.
LEMMA TurnStep ==
  ASSUME NumbersAssumption, TurnInv, NEW n \in 0 - MaxTurn .. MaxTurn, NEW left \in BOOLEAN, Turn(n, left)
  PROVE  TurnInv'
<1>1. PICK t : t = number
  OBVIOUS
<1>2. IsTurnedWord(t)
  BY <1>1 DEF TurnInv
<1>3. n \in Int
  BY DEF NumbersAssumption
<1>4. PICK by : by = IF left THEN t.by + n ELSE t.by - n
  OBVIOUS
<1>5. PICK w \in IF left THEN rotl(t.word, n, Width) ELSE rotr(t.word, n, Width) :
         number' = [t EXCEPT !.word = w, !.by = by]
  BY <1>1, <1>4 DEF Turn
<1>6. w = Around(t.of, by, Width)
  BY <1>2, <1>3, <1>4, TurnedOnce
<1>7. by \in Int
  BY <1>2, <1>3, <1>4 DEF IsTurnedWord
<1>8. t = [of |-> t.of, word |-> t.word, by |-> t.by]
  BY <1>2 DEF IsTurnedWord
<1>9. number' = [of |-> t.of, word |-> w, by |-> by]
  BY <1>5, <1>8
<1>10. number'.of = t.of /\ number'.word = w /\ number'.by = by
  BY <1>9
<1>11. IsTurnedWord(number')
  BY <1>2, <1>6, <1>7, <1>9, <1>10 DEF IsTurnedWord
<1>. QED
  BY <1>11 DEF TurnInv

\* That is what TurnsAddUp says.
LEMMA TurnTold ==
  ASSUME TurnInv
  PROVE  TurnsAddUp
BY DEF TurnInv, IsTurnedWord, Around, TurnsAddUp

-----------------------------------------------------------------------------
(*****************************************************************************)
(* Loop values                                                               *)
(*****************************************************************************)

\* Where the n-th step leads without an overflow, and how far the end is.
WayPoint(l, n) == IF l.inc THEN l.start_wert + n ELSE l.start_wert - n
Distance(l) == IF l.inc THEN l.ende_wert - l.start_wert ELSE l.start_wert - l.ende_wert

\* The loop values of a type with B values.
LoopValues(B) == [i : 0 .. B - 1, start_wert : 0 .. B - 1, ende_wert : 0 .. B - 1, valid : BOOLEAN, inc : BOOLEAN]

\* What was told lies on the way from the start.
IsToldUpTo(l, t, B) ==
  /\ t \in Seq(0 .. B - 1)
  /\ \A n \in DOMAIN t : HasRemainder(WayPoint(l, n - 1), B, t[n])

\* After len values: not beyond the distance d, or at the end behind it.
IsAt(l, len, d, B) ==
  IF l.valid THEN len <= d /\ HasRemainder(WayPoint(l, len), B, l.i) ELSE len = d + 1 /\ l.i = l.ende_wert

\* A loop value that has told t.
IsLoop(l, t, B) ==
  /\ l \in LoopValues(B)
  /\ IsToldUpTo(l, t, B)
  /\ \A d \in 0 .. B - 1 : HasRemainder(Distance(l), B, d) => IsAt(l, Len(t), d, B)

LoopInv == IsLoop(number, told, ByWidth)

\* It is at its end when it has gone the whole distance, and not before.
LEMMA LoopCloses ==
  ASSUME NEW B \in Nat \ {0}, NEW l \in LoopValues(B), NEW d \in 0 .. B - 1, HasRemainder(Distance(l), B, d),
         NEW n \in 0 .. B - 1, HasRemainder(WayPoint(l, n), B, l.i)
  PROVE  l.i = l.ende_wert <=> n = d
<1>0. PICK x : x = WayPoint(l, n)
  OBVIOUS
<1>1. PICK i \in 0 .. B - 1, s \in 0 .. B - 1, e \in 0 .. B - 1 :
         i = l.i /\ s = l.start_wert /\ e = l.ende_wert /\ x = WayPoint(l, n) /\ l.inc \in BOOLEAN
  BY <1>0 DEF LoopValues
<1>2. HasRemainder(x, B, e) <=> n = d
  <2>1. CASE l.inc
    <3>1. x = s + n /\ x \in Int /\ Distance(l) = e - s
      BY <1>1, <2>1 DEF WayPoint, Distance
    <3>. QED
      BY <3>1, CircleCloses
  <2>2. CASE ~l.inc
    <3>1. x = s - n /\ x \in Int /\ Distance(l) = s - e
      BY <1>1, <2>2 DEF WayPoint, Distance
    <3>2. IsDown(s, e, B, d)
      <4>1. PICK y : y = s - e
        OBVIOUS
      <4>2. HasRemainder(y, B, d)
        BY <3>1, <4>1
      <4>. QED
        BY <4>1, <4>2 DEF IsDown
    <3>3. ClosesDown(s, n, B, e, d)
      BY <3>2, CircleClosesDown
    <3>. QED
      BY <3>1, <3>3 DEF ClosesDown
  <2>. QED
    BY <1>1, <2>1, <2>2
<1>. QED
  BY <1>1, <1>2 DEF HasRemainder

\* The next value is one step further.
LEMMA NextIsPlaced ==
  ASSUME NEW B \in Nat \ {0}, NEW l \in LoopValues(B), NEW n \in Nat, HasRemainder(WayPoint(l, n), B, l.i),
         NEW i, i = (IF l.inc THEN l.i + 1 ELSE l.i - 1) % B
  PROVE  i \in 0 .. B - 1 /\ HasRemainder(WayPoint(l, n + 1), B, i)
<1>0. PICK y : y = l.i
  OBVIOUS
<1>1. PICK s \in 0 .. B - 1, x \in Int : s = l.start_wert /\ x = WayPoint(l, n) /\ y = l.i /\ l.inc \in BOOLEAN
  BY <1>0 DEF LoopValues, WayPoint
<1>2. x % B = y
  BY <1>1 DEF HasRemainder
<1>3. PICK z \in Int : z = IF l.inc THEN x + 1 ELSE x - 1
  BY <1>1
<1>4. i = z % B
  <2>1. CASE l.inc
    <3>1. PICK o \in Int : o = 1
      OBVIOUS
    <3>2. ((x % B) + o) % B = (x + o) % B
      BY RemainderAdds
    <3>. QED
      BY <1>1, <1>2, <1>3, <2>1, <3>1, <3>2
  <2>2. CASE ~l.inc
    <3>1. PICK o \in Int : o = 0 - 1
      OBVIOUS
    <3>2. ((x % B) + o) % B = (x + o) % B
      BY RemainderAdds
    <3>3. x + o = x - 1 /\ y \in Int
      BY <1>1, <3>1 DEF LoopValues
    <3>4. y + o = y - 1
      BY <3>1, <3>3
    <3>. QED
      BY <1>1, <1>2, <1>3, <2>2, <3>2, <3>3, <3>4
  <2>. QED
    BY <1>1, <2>1, <2>2
<1>5. z = WayPoint(l, n + 1)
  BY <1>1, <1>3 DEF WayPoint
<1>6. PICK r \in 0 .. B - 1 : HasRemainder(z, B, r)
  BY Remainder
<1>7. i = r
  BY <1>4, <1>6 DEF HasRemainder
<1>. QED
  BY <1>5, <1>6, <1>7

\* So each value is told once, from the start to the end.
LEMMA LoopTold ==
  ASSUME NumbersAssumption, LoopInv
  PROVE  EachValueOnce
<1>1. PICK B \in Nat \ {0} : B = ByWidth
  BY DEF NumbersAssumption, ByWidth
<1>2. PICK l \in LoopValues(B), t \in Seq(0 .. B - 1) : l = number /\ t = told
  BY <1>1 DEF LoopInv, IsLoop, IsToldUpTo
<1>3. IsLoop(l, t, B)
  BY <1>1, <1>2 DEF LoopInv
<1>4. PICK s \in 0 .. B - 1, e \in 0 .. B - 1, v \in BOOLEAN, i \in 0 .. B - 1 :
         s = l.start_wert /\ e = l.ende_wert /\ l.valid = v /\ l.i = i /\ l.inc \in BOOLEAN
  BY DEF LoopValues
<1>5. PICK x \in Int : x = Distance(l)
  BY <1>4 DEF Distance
<1>6. PICK d \in 0 .. B - 1 : HasRemainder(x, B, d)
  BY <1>5, Remainder
<1>7. IsAt(l, Len(t), d, B)
  BY <1>3, <1>5, <1>6 DEF IsLoop
<1>8. Len(t) = d + 1 <=> ~l.valid
  <2>1. Len(t) \in Nat
    OBVIOUS
  <2>. QED
    BY <1>7, <2>1 DEF IsAt
<1>9. Same(l, end(l)) <=> ~l.valid
  <2>1. end(l).i = l.ende_wert /\ end(l).valid = FALSE
    BY DEF end, LoopValues
  <2>2. ~l.valid => l.i = l.ende_wert
    BY <1>7 DEF IsAt
  <2>. QED
    BY <1>4, <2>1, <2>2 DEF Same
<1>10. ASSUME NEW n \in DOMAIN t
       PROVE  t[n] = (IF l.inc THEN l.start_wert + n - 1 ELSE l.start_wert + 1 - n) % B
  <2>1. HasRemainder(WayPoint(l, n - 1), B, t[n])
    BY <1>3 DEF IsLoop, IsToldUpTo
  <2>2. n \in Int
    OBVIOUS
  <2>3. WayPoint(l, n - 1) = IF l.inc THEN l.start_wert + n - 1 ELSE l.start_wert + 1 - n
    BY <1>4, <2>2 DEF WayPoint
  <2>. QED
    BY <2>1, <2>3 DEF HasRemainder
<1>11. (IF l.inc THEN l.ende_wert - l.start_wert ELSE l.start_wert - l.ende_wert) % B = d
  BY <1>5, <1>6 DEF Distance, HasRemainder
<1>. QED
  BY <1>1, <1>2, <1>8, <1>9, <1>10, <1>11, Zenon DEF EachValueOnce

\* Before the first value.
LEMMA LoopInitially ==
  ASSUME NumbersAssumption, NEW s \in 0 .. ByWidth - 1, NEW e \in 0 .. ByWidth - 1, NEW b \in BOOLEAN,
         number = loopvalue(s, e, b), told = <<>>
  PROVE  LoopInv
<1>1. PICK B \in Nat \ {0} : B = ByWidth
  BY DEF NumbersAssumption, ByWidth
<1>2. PICK inc \in BOOLEAN : inc = IF b THEN ~(e < s) ELSE e < s
  <2>1. CASE IF b THEN ~(e < s) ELSE e < s
    <3>1. TRUE = IF b THEN ~(e < s) ELSE e < s
      BY <2>1
    <3>. QED
      BY <3>1, Zenon
  <2>2. CASE ~IF b THEN ~(e < s) ELSE e < s
    <3>1. FALSE = IF b THEN ~(e < s) ELSE e < s
      BY <2>2
    <3>. QED
      BY <3>1, Zenon
  <2>. QED
    BY <2>1, <2>2
<1>3. PICK l : l = number
  OBVIOUS
<1>4. l = [i |-> s, start_wert |-> s, ende_wert |-> e, valid |-> TRUE, inc |-> inc]
  BY <1>2, <1>3 DEF loopvalue
<1>5. s \in 0 .. B - 1 /\ e \in 0 .. B - 1
  BY <1>1
<1>6. l \in LoopValues(B) /\ l.i = s /\ l.start_wert = s /\ l.valid
  BY <1>4, <1>5 DEF LoopValues
<1>7. told \in Seq(0 .. B - 1) /\ DOMAIN told = {} /\ Len(told) = 0
  OBVIOUS
<1>8. HasRemainder(WayPoint(l, 0), B, l.i)
  <2>1. IsMultiple(0, B)
    <3>1. 0 = B * 0
      BY <1>1
    <3>. QED
      BY <3>1 DEF IsMultiple
  <2>2. WayPoint(l, 0) = 0 + s /\ WayPoint(l, 0) \in Int
    BY <1>5, <1>6 DEF WayPoint
  <2>. QED
    BY <1>5, <1>6, <2>1, <2>2, RemainderIs
<1>9. IsLoop(l, told, B)
  BY <1>6, <1>7, <1>8 DEF IsLoop, IsToldUpTo, IsAt
<1>. QED
  BY <1>1, <1>3, <1>9 DEF LoopInv

\* ++ goes one step further, or ends the loop.
LEMMA LoopStep ==
  ASSUME NumbersAssumption, LoopInv, NextValue
  PROVE  LoopInv'
<1>1. PICK B \in Nat \ {0} : B = ByWidth
  BY DEF NumbersAssumption, ByWidth
<1>2. PICK l \in LoopValues(B), t \in Seq(0 .. B - 1) : l = number /\ t = told
  BY <1>1 DEF LoopInv, IsLoop, IsToldUpTo
<1>3. IsLoop(l, t, B)
  BY <1>1, <1>2 DEF LoopInv
<1>4. PICK m, u : m = number' /\ u = told'
  OBVIOUS
<1>5. l.valid /\ u = Append(t, l.i) /\ m = next(l, B)
  BY <1>1, <1>2, <1>4 DEF NextValue
<1>6. PICK i \in 0 .. B - 1 : i = l.i
  BY DEF LoopValues
<1>7. /\ u \in Seq(0 .. B - 1) /\ Len(u) = Len(t) + 1 /\ DOMAIN u = DOMAIN t \cup {Len(t) + 1}
      /\ u[Len(t) + 1] = i /\ \A n \in DOMAIN t : u[n] = t[n] /\ Len(t) \in Nat
  BY <1>5, <1>6
<1>8. PICK n \in Nat : n = Len(t)
  BY <1>2
<1>9. PICK x \in Int : x = Distance(l)
  BY DEF LoopValues, Distance
<1>10. PICK d \in 0 .. B - 1 : HasRemainder(x, B, d)
  BY Remainder
<1>11. n <= d /\ HasRemainder(WayPoint(l, n), B, i)
  BY <1>3, <1>5, <1>6, <1>8, <1>9, <1>10 DEF IsLoop, IsAt
<1>12. l.i = l.ende_wert <=> n = d
  <2>1. n \in 0 .. B - 1
    BY <1>11
  <2>. QED
    BY <1>6, <1>9, <1>10, <1>11, <2>1, LoopCloses
<1>13. IsToldUpTo(l, u, B)
  <2>1. ASSUME NEW k \in DOMAIN u PROVE HasRemainder(WayPoint(l, k - 1), B, u[k])
    <3>1. CASE k \in DOMAIN t
      <4>1. HasRemainder(WayPoint(l, k - 1), B, t[k])
        BY <1>3, <3>1 DEF IsLoop, IsToldUpTo
      <4>. QED
        BY <1>7, <3>1, <4>1
    <3>2. CASE k = n + 1
      <4>1. k - 1 = n /\ u[k] = i
        BY <1>7, <1>8, <3>2
      <4>. QED
        BY <1>11, <4>1
    <3>. QED
      BY <1>7, <1>8, <3>1, <3>2
  <2>. QED
    BY <1>7, <2>1 DEF IsToldUpTo
<1>14. /\ m \in LoopValues(B) /\ m.start_wert = l.start_wert /\ m.ende_wert = l.ende_wert /\ m.inc = l.inc
       /\ IsAt(m, n + 1, d, B)
  <2>1. CASE l.i = l.ende_wert
    <3>1. m = [l EXCEPT !.valid = FALSE]
      BY <1>5, <2>1 DEF next
    <3>2. m \in LoopValues(B) /\ m.start_wert = l.start_wert /\ m.ende_wert = l.ende_wert /\ m.inc = l.inc
      BY <3>1 DEF LoopValues
    <3>3. m.i = l.i /\ m.valid = FALSE
      BY <3>1 DEF LoopValues
    <3>. QED
      BY <1>12, <2>1, <3>2, <3>3 DEF IsAt
  <2>2. CASE l.i # l.ende_wert
    <3>1. PICK j : j = (IF l.inc THEN l.i + 1 ELSE l.i - 1) % B
      OBVIOUS
    <3>2. j \in 0 .. B - 1 /\ HasRemainder(WayPoint(l, n + 1), B, j)
      BY <1>6, <1>11, <3>1, NextIsPlaced
    <3>3. m = [l EXCEPT !.i = j]
      BY <1>5, <2>2, <3>1, Zenon DEF next
    <3>4. m \in LoopValues(B) /\ m.start_wert = l.start_wert /\ m.ende_wert = l.ende_wert /\ m.inc = l.inc
      BY <3>2, <3>3 DEF LoopValues
    <3>5. m.i = j /\ m.valid = l.valid
      BY <3>3 DEF LoopValues
    <3>6. n + 1 <= d
      BY <1>11, <1>12, <2>2
    <3>7. WayPoint(m, n + 1) = WayPoint(l, n + 1)
      BY <3>4 DEF WayPoint
    <3>. QED
      BY <1>5, <3>2, <3>4, <3>5, <3>6, <3>7 DEF IsAt
  <2>. QED
    BY <2>1, <2>2
<1>15. \A k : WayPoint(m, k) = WayPoint(l, k)
  BY <1>14 DEF WayPoint
<1>16. Distance(m) = Distance(l)
  BY <1>14 DEF Distance
<1>17. IsToldUpTo(m, u, B)
  BY <1>13, <1>15 DEF IsToldUpTo
<1>18. \A c \in 0 .. B - 1 : HasRemainder(Distance(m), B, c) => IsAt(m, Len(u), c, B)
  BY <1>7, <1>8, <1>9, <1>10, <1>14, <1>16 DEF HasRemainder
<1>19. IsLoop(m, u, B)
  BY <1>14, <1>17, <1>18 DEF IsLoop
<1>20. ByWidth' = B
  BY <1>1 DEF ByWidth
<1>. QED
  BY <1>4, <1>19, <1>20 DEF LoopInv

-----------------------------------------------------------------------------
(*****************************************************************************)
(* Numbers of each kind                                                      *)
(*****************************************************************************)

\* The invariant of each kind.
NumbersInv ==
  \/ numbering = "bits" /\ BitsInv
  \/ numbering = "loop" /\ LoopInv
  \/ numbering = "turn" /\ TurnInv

\* Each kind of number starts as its invariant says.
LEMMA NumbersInitially == NumbersAssumption /\ NumbersInit => NumbersInv
<1>. SUFFICES ASSUME NumbersAssumption, NumbersInit PROVE NumbersInv
  OBVIOUS
<1>1. ASSUME numbering = "bits", NEW w \in SUBSET all_bits_mask(Width), number = [of |-> w, at |-> split_bits(w)]
      PROVE  NumbersInv
  BY <1>1, BitsInitially DEF NumbersInit, NumbersInv
<1>2. ASSUME numbering = "loop", NEW s \in 0 .. ByWidth - 1, NEW e \in 0 .. ByWidth - 1, NEW d \in BOOLEAN, number = loopvalue(s, e, d)
      PROVE  NumbersInv
  BY <1>2, LoopInitially DEF NumbersInit, NumbersInv
<1>3. ASSUME numbering = "turn", NEW w \in SUBSET all_bits_mask(Width), number = [of |-> w, word |-> w, by |-> 0]
      PROVE  NumbersInv
  BY <1>3, TurnInitially DEF NumbersInit, NumbersInv
<1>. QED
  BY <1>1, <1>2, <1>3 DEF NumbersInit

\* A step is one of its kind.
LEMMA NumbersStep == NumbersAssumption /\ NumbersInv /\ [NumbersNext]_numbersVars => NumbersInv'
<1>. SUFFICES ASSUME NumbersAssumption, NumbersInv, [NumbersNext]_numbersVars PROVE NumbersInv'
  OBVIOUS
<1>1. CASE NextBit
  <2>1. numbering = "bits" /\ numbering' = numbering
    BY <1>1 DEF NextBit
  <2>2. BitsInv
    BY <2>1 DEF NumbersInv
  <2>. QED
    BY <1>1, <2>1, <2>2, BitsStep DEF NumbersInv
<1>2. CASE NextValue
  <2>1. numbering = "loop" /\ numbering' = numbering
    BY <1>2 DEF NextValue
  <2>2. LoopInv
    BY <2>1 DEF NumbersInv
  <2>. QED
    BY <1>2, <2>1, <2>2, LoopStep DEF NumbersInv
<1>3. ASSUME NEW n \in 0 - MaxTurn .. MaxTurn, NEW left \in BOOLEAN, Turn(n, left) PROVE NumbersInv'
  <2>1. numbering = "turn" /\ numbering' = numbering
    BY <1>3 DEF Turn
  <2>2. TurnInv
    BY <2>1 DEF NumbersInv
  <2>. QED
    BY <1>3, <2>1, <2>2, TurnStep DEF NumbersInv
<1>4. CASE UNCHANGED numbersVars
  BY <1>4 DEF numbersVars, NumbersInv, BitsInv, Gone, LoopInv, ByWidth, TurnInv
<1>. QED
  BY <1>1, <1>2, <1>3, <1>4 DEF NumbersNext

\* Bits, loop values and turned words, for words of any width, any start and end
\* and any number of turns: every bit and every value is told once and in order,
\* also where the type overflows, and turns add up (bitfeld.h:33, 55, 69,
\* loopvalue.h:47, 60, 80, rotate.h:50, 63).
THEOREM NumbersStayExact == NumbersSpec => []NumbersAreExact
<1>1. NumbersInit => NumbersInv
  BY NumbersAssumption, NumbersInitially
<1>2. NumbersInv /\ [NumbersNext]_numbersVars => NumbersInv'
  BY NumbersAssumption, NumbersStep
<1>3. NumbersInv => NumbersAreExact
  <2>1. ASSUME BitsInv PROVE BitsOnceAscending
    BY <2>1, NumbersAssumption, BitsTold
  <2>2. ASSUME LoopInv PROVE EachValueOnce
    BY <2>2, NumbersAssumption, LoopTold
  <2>. QED
    BY <2>1, <2>2, TurnTold DEF NumbersInv, NumbersAreExact
<1>. QED
  BY <1>1, <1>2, <1>3, PTL DEF NumbersSpec
=============================================================================
