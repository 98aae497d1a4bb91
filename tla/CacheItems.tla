----------------------------- MODULE CacheItems -----------------------------
(***************************************************************************)
(* WS::CacheItems (headeronly/WP_Cache.h), the older cache of one thread:  *)
(* a map whose items carry their own check: AllwaysValid, ValidTill, or    *)
(* ValidDurationRefresh, which a successful check prolongs.                *)
(***************************************************************************)
EXTENDS Integers

CONSTANTS ItemKeys, ItemValues,
          ItemDuration,
          ItemEnd,     \* bound on the clock
          NoValue      \* a value that is default-constructed

ASSUME ItemAssumption == NoValue \notin ItemValues /\ ItemDuration \in Nat /\ ItemEnd \in Nat

VARIABLES check,   \* the type of the checks: "always", "till", "refresh"
          seconds, \* CTime::GetCurrentTime()
          items,   \* the map
          answer,  \* what the last getValue() said
          latest   \* what each key was given last, and when

itemVars == <<check, seconds, items, answer, latest>>

Answers == [key : ItemKeys, valid : BOOLEAN, value : ItemValues \cup {NoValue}, at : 0 .. ItemEnd]

ItemsTypeOK ==
  /\ check \in {"always", "till", "refresh"}
  /\ seconds \in 0 .. ItemEnd
  /\ DOMAIN items \subseteq ItemKeys
  /\ \A k \in DOMAIN items :
       items[k] \in [valueset : BOOLEAN, value : ItemValues \cup {NoValue}, validtill : 0 .. ItemEnd + ItemDuration]
  /\ answer = {} \/ \E a \in Answers : answer = {a}

Default == [valueset |-> FALSE, value |-> NoValue, validtill |-> 0]

ItemsInit ==
  /\ check \in {"always", "till", "refresh"}
  /\ seconds = 0 /\ items = <<>> /\ answer = {}
  /\ latest = [k \in ItemKeys |-> [value |-> NoValue, at |-> 0]]

With(k, item) == [x \in DOMAIN items \cup {k} |-> IF x = k THEN item ELSE items[x]]

Given(k, v) == latest' = [latest EXCEPT ![k] = [value |-> v, at |-> seconds]]

Second ==
  /\ seconds < ItemEnd
  /\ seconds' = seconds + 1
  /\ answer' = {}
  /\ UNCHANGED <<check, items, latest>>

ClearItems ==
  /\ items' = <<>> /\ answer' = {}
  /\ latest' = [k \in ItemKeys |-> [value |-> NoValue, at |-> 0]]
  /\ UNCHANGED <<check, seconds>>

invalidate(k) == items' = With(k, Default) /\ Given(k, NoValue) /\ answer' = {} /\ UNCHANGED <<check, seconds>>

\* The item is replaced with its check, unlike in Cache.
insert(k, v) ==
  /\ items' = With(k, [valueset |-> TRUE, value |-> v, validtill |-> seconds + ItemDuration])
  /\ Given(k, v) /\ answer' = {}
  /\ UNCHANGED <<check, seconds>>

\* getValue() inserts an item without a value for a key that is missing.
getItemValue(k) ==
  LET item == IF k \in DOMAIN items THEN items[k] ELSE Default
      valid == item.valueset /\ (check = "always" \/ seconds <= item.validtill)
  IN /\ items' = With(k, IF valid /\ check = "refresh" THEN [item EXCEPT !.validtill = seconds + ItemDuration] ELSE item)
     /\ answer' = {[key |-> k, valid |-> valid, value |-> item.value, at |-> seconds]}
     /\ UNCHANGED <<check, seconds, latest>>

ItemsNext ==
  \/ Second \/ ClearItems
  \/ \E k \in ItemKeys : invalidate(k) \/ getItemValue(k)
  \/ \E k \in ItemKeys, v \in ItemValues : insert(k, v)

\* A value is handed out as valid for the whole duration after the last insert
\* of its key, and never one that was replaced, invalidated or cleared.
AnswerIsFresh ==
  \A a \in answer :
    LET given == latest[a.key]
    IN /\ a.valid => a.value = given.value /\ given.value # NoValue
       /\ given.value # NoValue /\ a.at <= given.at + ItemDuration => a.valid
=============================================================================
