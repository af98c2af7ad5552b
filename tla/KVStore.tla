------------------------------ MODULE KVStore ------------------------------
(***************************************************************************)
(* The key-value store (kv/kv.cpp, kv/kv_sql.cpp): an LRU cache in front   *)
(* of the table kv_store.  A removed key stays in the cache as a           *)
(* tombstone.  An entry reaches the database when it is evicted or when    *)
(* saveAll() writes a copy of the cache, row by row, without the cache's   *)
(* mutex: with toggleSaveAsync it does so on a pool thread, while the      *)
(* dispatcher goes on calling set() and get().                             *)
(***************************************************************************)
EXTENDS Integers, SequencesExt

CONSTANTS
  Keys, Values,
  MaxSize,    \* KVStore::MAX_SIZE
  Async,      \* saveAll() runs on a pool thread (toggleSaveAsync)
  DbFails,    \* a statement may fail
  Deleted,    \* ValueWrapper::deleted(), the tombstone of a removed key
  NoValue,    \* std::nullopt; the key has no row
  NoReply     \* the step answered no caller

ASSUME KVAssumption ==
  /\ IsFiniteSet(Keys)
  /\ MaxSize \in Nat \ {0}
  /\ Async \in BOOLEAN
  /\ DbFails \in BOOLEAN
  /\ {Deleted, NoValue, NoReply} \intersect Values = {}
  /\ Deleted # NoValue

VARIABLES
  store,     \* store_: the cached entry of each key, NoValue if there is none
  lru,       \* lruQueue_, the most recently used key first
  db,        \* the table kv_store: the value in each key's row
  saving,    \* saveAll() is running
  snapshot,  \* the copy of store_ it took
  todo,      \* keys of the copy not yet given to prepareSave
  rows,      \* keys whose rows wait in the DBInsert
  reply      \* what the step's call returned

cacheVars == <<store, lru>>
saveVars == <<saving, snapshot, todo, rows>>
vars == <<cacheVars, db, saveVars, reply>>

Entries == Values \union {Deleted}
Cached == {k \in Keys : store[k] # NoValue}

\* Mutant: the tombstone is upserted like a value.
TombstoneRow(entry) == entry

\* The row that stands for an entry: prepareSave deletes the row of a tombstone
\* and upserts the others.
RowOf(entry) == IF entry = Deleted THEN NoValue ELSE entry

\* What a get of k would return.
Visible(k) == IF k \in Cached THEN RowOf(store[k]) ELSE db[k]

-----------------------------------------------------------------------------
(* The cache.  Every operation holds mutex_ throughout.                    *)

\* Mutant: the splice copies the key instead of moving it.
CopiedNotMoved(k) == lru

Position(k) == CHOOSE i \in DOMAIN lru : lru[i] = k
Others(k) == RemoveAt(lru, Position(k))

\* The eviction writes the last entry of the queue; the result is ignored.
SaveEvicted(k) ==
  \/ db' = [db EXCEPT ![k] = RowOf(store[k])]
  \/ DbFails /\ UNCHANGED db

\* Mutant: the size is tested with > instead of >=.
PutOffByOne(k, entry) ==
  /\ store' = [store EXCEPT ![k] = entry]
  /\ UNCHANGED db
  /\ \/ k \in Cached /\ lru' = <<k>> \o Others(k)
     \/ k \notin Cached /\ Cardinality(Cached) <= MaxSize /\ lru' = <<k>> \o lru

\* setLocked
Put(k, entry) ==
  \/ /\ k \in Cached
     /\ store' = [store EXCEPT ![k] = entry]
     /\ lru' = <<k>> \o Others(k)
     /\ UNCHANGED db
  \/ /\ k \notin Cached
     /\ Cardinality(Cached) < MaxSize
     /\ store' = [store EXCEPT ![k] = entry]
     /\ lru' = <<k>> \o lru
     /\ UNCHANGED db
  \/ /\ k \notin Cached
     /\ Cardinality(Cached) >= MaxSize
     /\ SaveEvicted(Last(lru))
     /\ store' = [store EXCEPT ![Last(lru)] = NoValue, ![k] = entry]
     /\ lru' = <<k>> \o Front(lru)

\* Without toggleSaveAsync, saveAll() holds the thread its clients run on.
ClientRuns == Async \/ ~saving

\* set, and remove when the entry is the tombstone.
Set(k, entry) ==
  /\ ClientRuns
  /\ Put(k, entry)
  /\ reply' = [op |-> "set", key |-> k, value |-> RowOf(entry)]
  /\ UNCHANGED saveVars

\* Mutant: a key without a row is cached as removed.
LoadErases(k, op) ==
  /\ reply' = [op |-> op, key |-> k, value |-> db[k]]
  /\ Put(k, IF db[k] = NoValue THEN Deleted ELSE db[k])

\* get(key, force): load() when the key is not cached, or always if forced.
Load(k, op) ==
  /\ reply' = [op |-> op, key |-> k, value |-> db[k]]
  /\ IF db[k] = NoValue THEN UNCHANGED <<cacheVars, db>> ELSE Put(k, db[k])
LoadFails(k, op) ==
  /\ DbFails
  /\ reply' = [op |-> op, key |-> k, value |-> NoValue]
  /\ UNCHANGED <<cacheVars, db>>

\* A tombstone moves to the end of the queue, to be evicted first.
Hit(k) ==
  /\ reply' = [op |-> "get", key |-> k, value |-> RowOf(store[k])]
  /\ lru' = IF store[k] = Deleted THEN Append(Others(k), k) ELSE <<k>> \o Others(k)
  /\ UNCHANGED <<store, db>>

Get(k) ==
  /\ ClientRuns
  /\ \/ k \in Cached /\ Hit(k)
     \/ k \notin Cached /\ (Load(k, "get") \/ LoadFails(k, "get"))
  /\ UNCHANGED saveVars

ForcedGet(k) ==
  /\ ClientRuns
  /\ Load(k, "reload") \/ LoadFails(k, "reload")
  /\ UNCHANGED saveVars

\* loadPrefix: the keys that have a row, or none when the query failed.
LoadPrefix == {{k \in Keys : db[k] # NoValue}} \union (IF DbFails THEN {{}} ELSE {})

\* Mutant: only the database is asked.
ListRowsOnly ==
  /\ ClientRuns
  /\ \E found \in LoadPrefix : reply' = [op |-> "keys", keys |-> found]
  /\ UNCHANGED <<cacheVars, db, saveVars>>

\* keys(): what is cached, tombstones included, and what loadPrefix found.
ListKeys ==
  /\ ClientRuns
  /\ \E found \in LoadPrefix : reply' = [op |-> "keys", keys |-> Cached \union found]
  /\ UNCHANGED <<cacheVars, db, saveVars>>

-----------------------------------------------------------------------------
(* saveAll().                                                              *)

NoSnapshot == [k \in Keys |-> NoValue]

\* getStore copies the cache under mutex_.
BeginSave ==
  /\ ~saving
  /\ saving' = TRUE
  /\ snapshot' = store
  /\ todo' = Cached
  /\ rows' = {}
  /\ reply' = NoReply
  /\ UNCHANGED <<cacheVars, db>>

\* prepareSave deletes a tombstone's row at once and queues any other row.
PrepareRow(k) ==
  /\ todo' = todo \ {k}
  /\ IF snapshot[k] = Deleted
     THEN db' = [db EXCEPT ![k] = NoValue] /\ UNCHANGED rows
     ELSE rows' = rows \union {k} /\ UNCHANGED db
  /\ reply' = NoReply
  /\ UNCHANGED <<cacheVars, saving, snapshot>>

\* One statement of DBInsert::execute upserts a batch of the rows.  When addRow
\* executed early, the packet being full, the rows stay queued and are written
\* once more at the end.
ExecuteBatch(batch) ==
  /\ db' = [k \in Keys |-> IF k \in batch THEN snapshot[k] ELSE db[k]]
  /\ rows' = IF todo = {} THEN rows \ batch ELSE rows
  /\ reply' = NoReply
  /\ UNCHANGED <<cacheVars, saving, snapshot, todo>>

\* The end of executeWithinTransaction, whose BEGIN and COMMIT follow the
\* statements and so enclose none of them.  A body that failed counts as a
\* success: saveAll() returns true either way.
EndSave ==
  /\ (todo = {} /\ rows = {}) \/ DbFails
  /\ saving' = FALSE
  /\ snapshot' = NoSnapshot
  /\ todo' = {}
  /\ rows' = {}
  /\ reply' = [op |-> "saveAll"]
  /\ UNCHANGED <<cacheVars, db>>

SaveStep ==
  /\ saving
  /\ \/ \E k \in todo : PrepareRow(k)
     \/ \E batch \in SUBSET rows \ {{}} : ExecuteBatch(batch)
     \/ EndSave

\* The process dies: the cache and the running save are lost.
Crash ==
  /\ store' = NoSnapshot
  /\ lru' = << >>
  /\ saving' = FALSE
  /\ snapshot' = NoSnapshot
  /\ todo' = {}
  /\ rows' = {}
  /\ reply' = NoReply
  /\ UNCHANGED db

Init ==
  /\ db \in [Keys -> Values \union {NoValue}]
  /\ store = NoSnapshot
  /\ lru = << >>
  /\ saving = FALSE
  /\ snapshot = NoSnapshot
  /\ todo = {}
  /\ rows = {}
  /\ reply = NoReply

Client ==
  \/ \E k \in Keys :
       \/ \E entry \in Entries : Set(k, entry)
       \/ Get(k)
       \/ ForcedGet(k)
  \/ ListKeys

Next == Client \/ BeginSave \/ SaveStep \/ Crash

Spec == Init /\ [][Next]_vars

-----------------------------------------------------------------------------
(* Properties.                                                             *)

\* The type invariant, with the lists prepareSave works through.
TypeOK ==
  /\ store \in [Keys -> Entries \union {NoValue}]
  /\ lru \in Seq(Keys)
  /\ db \in [Keys -> Values \union {NoValue}]
  /\ saving \in BOOLEAN
  /\ snapshot \in [Keys -> Entries \union {NoValue}]
  /\ todo \subseteq {k \in Keys : snapshot[k] # NoValue}
  /\ rows \subseteq {k \in Keys : snapshot[k] \in Values}

\* The iterators store_ keeps stay valid: lruQueue_ holds every cached key
\* exactly once and nothing else.  A splice, an eviction or a push that slips
\* evicts the wrong entry or dereferences a dead iterator.
LruExact ==
  /\ ToSet(lru) = Cached
  /\ \A i, j \in DOMAIN lru : lru[i] = lru[j] => i = j

\* The cache never holds more than MAX_SIZE entries.
CacheBounded == Cardinality(Cached) <= MaxSize

\* The library as its callers see it.
Map == INSTANCE KVMap WITH value <- [k \in Keys |-> Visible(k)], persisted <- db,
                           Faulty <- DbFails

\* Through misses, evictions, batched saves and statements that fail, every
\* caller sees the plain map of KVMap: a get returns the last value set, a failed
\* eviction costs one key its unsaved value and no other, and a crash loses only
\* what was not yet written.
ImplementsMap == Map!Spec

\* Only a set, a forced get or a crash changes what a key reads as; the steps of
\* a running save, evictions and reads of other keys never do.
OnlyWritesChangeValues ==
  [][\A k \in Keys :
       Visible(k)' # Visible(k) =>
         \/ reply' # NoReply /\ reply'.op \in {"set", "reload"} /\ reply'.key = k
         \/ Crash]_vars
=============================================================================
