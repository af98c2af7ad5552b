------------------------------- MODULE KVMap -------------------------------
(***************************************************************************)
(* What the key-value library promises its callers (kv/kv.hpp, class KV):  *)
(* one value per key, reads that return the last write, a copy in the      *)
(* database that lags behind, and a saveAll after which nothing is         *)
(* unsaved.  No cache, no eviction, no tombstones, no batches.  Statements *)
(* that fail are part of the promise: what may be lost then, and no more.  *)
(***************************************************************************)
CONSTANTS
  Keys, Values,
  Faulty,    \* statements may fail
  NoValue,   \* "the key has no value": std::nullopt, or no row
  NoReply    \* the step answered no caller

VARIABLES
  value,      \* the value a get of each key would return
  persisted,  \* the value that survives a crash
  reply       \* what the step's call returned

vars == <<value, persisted, reply>>

Contents == [Keys -> Values \union {NoValue}]

Init ==
  /\ value \in Contents
  /\ persisted = value
  /\ reply = NoReply

\* Any call, and the background save, may bring rows of the database up to date.
Lag(k) == {persisted[k], value[k]}
MayPersist ==
  /\ persisted' \in Contents
  /\ \A k \in Keys : persisted'[k] \in Lag(k)

\* A call that gives k the value v.  When the statement that makes room for it
\* fails, one other key falls back to the copy that survived, unseen by any caller.
Gives(k, v) ==
  \/ value' = [value EXCEPT ![k] = v]
  \/ \E l \in Keys \ {k} :
       Faulty /\ value' = [value EXCEPT ![k] = v, ![l] = persisted[l]]

\* set, and remove when v is NoValue.
Set(k, v) ==
  /\ Gives(k, v)
  /\ reply' = [op |-> "set", key |-> k, value |-> v]
  /\ MayPersist

Get(k) ==
  /\ Gives(k, value[k])
  /\ reply' = [op |-> "get", key |-> k, value |-> value[k]]
  /\ MayPersist

\* A forced get answers from the database, and takes over what it found there
\* even when a newer value was not saved yet.
Reload(k) ==
  /\ Gives(k, IF persisted[k] = NoValue THEN value[k] ELSE persisted[k])
  /\ reply' = [op |-> "reload", key |-> k, value |-> persisted[k]]
  /\ MayPersist

\* A read whose statement failed finds no value; nothing else changes.
ReadFails(k) ==
  /\ Faulty
  /\ \E op \in {"get", "reload"} : reply' = [op |-> op, key |-> k, value |-> NoValue]
  /\ UNCHANGED <<value, persisted>>

\* keys() misses no key that has a value; when its statement failed, it may miss
\* those whose value was saved already.
ListKeys ==
  \E listed \in SUBSET Keys :
    /\ \A k \in Keys \ listed :
         value[k] = NoValue \/ (Faulty /\ value[k] = persisted[k])
    /\ reply' = [op |-> "keys", keys |-> listed]
    /\ UNCHANGED <<value, persisted>>

Save ==
  /\ MayPersist
  /\ reply' = NoReply
  /\ UNCHANGED value

\* saveAll returns true: nothing is left unsaved, or a statement failed.
Saved ==
  /\ persisted' = value \/ (Faulty /\ UNCHANGED persisted)
  /\ reply' = [op |-> "saveAll"]
  /\ UNCHANGED value

Crash ==
  /\ value' = persisted
  /\ reply' = NoReply
  /\ UNCHANGED persisted

Next ==
  \/ \E k \in Keys :
       \/ \E v \in Values \union {NoValue} : Set(k, v)
       \/ Get(k)
       \/ Reload(k)
       \/ ReadFails(k)
  \/ ListKeys
  \/ Save
  \/ Saved
  \/ Crash

Spec == Init /\ [][Next]_vars
=============================================================================
