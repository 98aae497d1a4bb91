----------------------------- MODULE Containers -----------------------------
(***************************************************************************)
(* The small stateful classes side by side.  They share no state: a        *)
(* behaviour is one of one class, chosen at the start, and the variables   *)
(* of the others keep their initial values.                                *)
(***************************************************************************)
EXTENDS Cache, CacheItems, DelayDelete, ContainerMitSuche, FifoWithPrio, SyncPipe, Handles

VARIABLE part

Parts == {"cache", "items", "delete", "find", "prio", "sync", "handles"}

vars == <<part, cacheVars, itemVars, deleteVars, findVars, prioVars, syncVars, handleVars>>

\* Classes that are not chosen start in one of their initial states.
Init ==
  /\ part \in Parts
  /\ CacheInit /\ ItemsInit /\ DeleteInit /\ FindInit /\ PrioInit /\ SyncInit /\ HandleInit
  /\ part # "cache" => kind = "pure"
  /\ part # "items" => check = "always"
  /\ part # "find" => asyncUnique = FALSE

OnlyCache == UNCHANGED <<part, itemVars, deleteVars, findVars, prioVars, syncVars, handleVars>>
OnlyItems == UNCHANGED <<part, cacheVars, deleteVars, findVars, prioVars, syncVars, handleVars>>
OnlyDelete == UNCHANGED <<part, cacheVars, itemVars, findVars, prioVars, syncVars, handleVars>>
OnlyFind == UNCHANGED <<part, cacheVars, itemVars, deleteVars, prioVars, syncVars, handleVars>>
OnlyPrio == UNCHANGED <<part, cacheVars, itemVars, deleteVars, findVars, syncVars, handleVars>>
OnlySync == UNCHANGED <<part, cacheVars, itemVars, deleteVars, findVars, prioVars, handleVars>>
OnlyHandles == UNCHANGED <<part, cacheVars, itemVars, deleteVars, findVars, prioVars, syncVars>>

Next ==
  \/ part = "cache" /\ CacheNext /\ OnlyCache
  \/ part = "items" /\ ItemsNext /\ OnlyItems
  \/ part = "delete" /\ DeleteNext /\ OnlyDelete
  \/ part = "find" /\ FindNext /\ OnlyFind
  \/ part = "prio" /\ PrioNext /\ OnlyPrio
  \/ part = "sync" /\ SyncNext /\ OnlySync
  \/ part = "handles" /\ HandleNext /\ OnlyHandles

Spec == Init /\ [][Next]_vars

ContainersTypeOK ==
  /\ CacheTypeOK /\ ItemsTypeOK /\ DeleteTypeOK /\ FindTypeOK /\ PrioTypeOK
  /\ SyncTypeOK /\ HandleTypeOK

\* What a container hands out, an item, an answer, an index, is what is stored
\* under its key at that time: cache.h, WP_Cache.h and containerFastFind.h.
NothingStale ==
  /\ ContainersTypeOK
  /\ HeldItemStays /\ AnswerIsFresh /\ IndexExact

\* What has a time is gone neither before nor long after it: the scans of
\* cache.h and DelayDelete.h against a clock that ticks while they run.
NothingTooEarly == ScanIsThorough /\ NotTooEarly
=============================================================================
