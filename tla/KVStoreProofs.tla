--------------------------- MODULE KVStoreProofs ---------------------------
(***************************************************************************)
(* Proofs about KVStore, for every set of keys and values and every size   *)
(* of the cache: its types, that the LRU list and the cache agree, that    *)
(* the cache is bounded, and, for saves that run on the dispatcher, that   *)
(* the store implements the map of KVMap.                                  *)
(***************************************************************************)
EXTENDS KVStore, FiniteSetTheorems, SequenceTheorems, TLAPS

-----------------------------------------------------------------------------
(* The list operations, on lists without duplicates.                       *)

Distinct(q) == \A i, j \in DOMAIN q : q[i] = q[j] => i = j

LEMMA Removed ==
  ASSUME NEW S, NEW q \in Seq(S), Distinct(q), NEW i \in DOMAIN q
  PROVE  /\ RemoveAt(q, i) \in Seq(S)
         /\ ToSet(RemoveAt(q, i)) = ToSet(q) \ {q[i]}
         /\ Distinct(RemoveAt(q, i))
  <1> DEFINE r == RemoveAt(q, i)
  <1>1. i \in 1 .. Len(q) /\ Len(q) \in Nat
    OBVIOUS
  <1>2. /\ r \in Seq(S) /\ Len(r) = Len(q) - 1
        /\ \A j \in 1 .. Len(r) : r[j] = IF j < i THEN q[j] ELSE q[j + 1]
    <2> DEFINE a == SubSeq(q, 1, i - 1)
               b == SubSeq(q, i + 1, Len(q))
    <2>1. /\ a \in Seq(S) /\ Len(a) = i - 1
          /\ \A j \in 1 .. i - 1 : a[j] = q[j]
      BY <1>1, SubSeqProperties
    <2>2. /\ b \in Seq(S) /\ Len(b) = Len(q) - i
          /\ \A j \in 1 .. Len(q) - i : b[j] = q[i + j]
      BY <1>1, SubSeqProperties
    <2>3. r = a \o b
      BY DEF RemoveAt
    <2> HIDE DEF a, b, r
    <2>4. /\ r \in Seq(S) /\ Len(r) = Len(q) - 1
          /\ \A j \in 1 .. Len(r) : r[j] = IF j <= i - 1 THEN a[j] ELSE b[j - (i - 1)]
      <3>1. /\ r \in Seq(S) /\ Len(r) = Len(a) + Len(b)
            /\ \A j \in 1 .. Len(a) + Len(b) :
                 r[j] = IF j <= Len(a) THEN a[j] ELSE b[j - Len(a)]
        BY <2>1, <2>2, <2>3, ConcatProperties
      <3>2. Len(a) + Len(b) = Len(q) - 1
        BY <1>1, <2>1, <2>2
      <3> QED
        BY <2>1, <3>1, <3>2
    <2>5. ASSUME NEW j \in 1 .. Len(r), ~(j < i) PROVE b[j - (i - 1)] = q[j + 1]
      <3>1. j - (i - 1) \in 1 .. Len(q) - i /\ i + (j - (i - 1)) = j + 1
        BY <1>1, <2>4, <2>5
      <3> QED
        BY <2>2, <3>1
    <2>6. ASSUME NEW j \in 1 .. Len(r) PROVE r[j] = IF j < i THEN q[j] ELSE q[j + 1]
      <3>1. CASE j < i
        BY <1>1, <2>1, <2>4, <3>1
      <3>2. CASE ~(j < i)
        BY <1>1, <2>4, <2>5, <3>2
      <3> QED
        BY <3>1, <3>2
    <2> QED
      BY <2>4, <2>6
  <1> HIDE DEF r
  <1>3. Distinct(r)
    BY <1>1, <1>2, SMTT(20) DEF Distinct
  <1>4. ASSUME NEW x \in ToSet(r) PROVE x \in ToSet(q) \ {q[i]}
    BY <1>1, <1>2, <1>4 DEF ToSet, Distinct
  <1>5. ASSUME NEW x \in ToSet(q), x # q[i] PROVE x \in ToSet(r)
    <2>1. PICK j \in 1 .. Len(q) : x = q[j]
      BY DEF ToSet
    <2>2. CASE j < i
      BY <1>1, <1>2, <2>1, <2>2 DEF ToSet
    <2>3. CASE j > i
      <3>1. j - 1 \in 1 .. Len(r) /\ r[j - 1] = q[j]
        BY <1>1, <1>2, <2>3
      <3> QED
        BY <1>2, <2>1, <3>1 DEF ToSet
    <2> QED
      BY <1>1, <1>5, <2>1, <2>2, <2>3
  <1> QED
    BY <1>2, <1>3, <1>4, <1>5 DEF r

LEMMA Pushed ==
  ASSUME NEW S, NEW q \in Seq(S), Distinct(q), NEW x \in S, x \notin ToSet(q)
  PROVE  /\ <<x>> \o q \in Seq(S)
         /\ ToSet(<<x>> \o q) = {x} \union ToSet(q)
         /\ Distinct(<<x>> \o q)
  <1> DEFINE r == <<x>> \o q
  <1>1. /\ r \in Seq(S) /\ Len(r) = Len(q) + 1 /\ Len(q) \in Nat
        /\ r[1] = x /\ \A j \in 2 .. Len(r) : r[j] = q[j - 1]
    <2>1. <<x>> \in Seq(S) /\ Len(<<x>>) = 1 /\ <<x>>[1] = x /\ Len(q) \in Nat
      OBVIOUS
    <2>2. /\ r \in Seq(S) /\ Len(r) = 1 + Len(q)
          /\ \A j \in 1 .. 1 + Len(q) : r[j] = IF j <= 1 THEN <<x>>[j] ELSE q[j - 1]
      BY <2>1, ConcatProperties
    <2> HIDE DEF r
    <2> QED
      BY <2>1, <2>2
  <1> HIDE DEF r
  <1>2. Distinct(r)
    <2>1. ASSUME NEW j \in 2 .. Len(r) PROVE r[j] \in ToSet(q) /\ j - 1 \in DOMAIN q
      BY <1>1 DEF ToSet
    <2>2. ASSUME NEW i \in 1 .. Len(r), NEW j \in 1 .. Len(r), r[i] = r[j] PROVE i = j
      <3>1. CASE i = 1 /\ j # 1
        BY <1>1, <2>1, <2>2, <3>1
      <3>2. CASE i # 1 /\ j = 1
        BY <1>1, <2>1, <2>2, <3>2
      <3>3. CASE i # 1 /\ j # 1
        <4>1. i \in 2 .. Len(r) /\ j \in 2 .. Len(r)
          BY <3>3
        <4>2. q[i - 1] = q[j - 1] /\ i - 1 \in DOMAIN q /\ j - 1 \in DOMAIN q
          BY <1>1, <2>1, <2>2, <4>1
        <4>3. i - 1 = j - 1
          BY <4>2 DEF Distinct
        <4> QED
          BY <4>3
      <3> QED
        BY <3>1, <3>2, <3>3
    <2> QED
      BY <1>1, <2>2 DEF Distinct
  <1>3. ASSUME NEW y \in ToSet(r) PROVE y \in {x} \union ToSet(q)
    <2>1. PICK j \in 1 .. Len(r) : y = r[j]
      BY <1>1, <1>3 DEF ToSet
    <2>2. ASSUME j # 1 PROVE j - 1 \in DOMAIN q /\ r[j] = q[j - 1]
      <3>1. j \in 2 .. Len(r)
        BY <1>1, <2>2
      <3> QED
        BY <1>1, <3>1
    <2> QED
      BY <1>1, <2>1, <2>2 DEF ToSet
  <1>4. ASSUME NEW y \in ToSet(q) PROVE y \in ToSet(r)
    <2>1. PICK j \in 1 .. Len(q) : y = q[j]
      BY DEF ToSet
    <2>2. j + 1 \in 2 .. Len(r) /\ (j + 1) - 1 = j
      BY <1>1
    <2>3. r[j + 1] = q[j] /\ j + 1 \in DOMAIN r
      BY <1>1, <2>2
    <2> QED
      BY <2>1, <2>3 DEF ToSet
  <1>5. x \in ToSet(r)
    BY <1>1 DEF ToSet
  <1> QED
    BY <1>1, <1>2, <1>3, <1>4, <1>5 DEF r

LEMMA Appended ==
  ASSUME NEW S, NEW q \in Seq(S), Distinct(q), NEW x \in S, x \notin ToSet(q)
  PROVE  /\ Append(q, x) \in Seq(S)
         /\ ToSet(Append(q, x)) = {x} \union ToSet(q)
         /\ Distinct(Append(q, x))
  <1> DEFINE r == Append(q, x)
  <1>1. /\ r \in Seq(S) /\ Len(r) = Len(q) + 1 /\ Len(q) \in Nat
        /\ r[Len(r)] = x /\ \A j \in 1 .. Len(q) : r[j] = q[j]
    OBVIOUS
  <1> HIDE DEF r
  <1>2. Distinct(r)
    BY <1>1 DEF Distinct, ToSet
  <1>3. ASSUME NEW y \in ToSet(r) PROVE y \in {x} \union ToSet(q)
    BY <1>1, <1>3 DEF ToSet
  <1>4. ToSet(q) \subseteq ToSet(r) /\ x \in ToSet(r)
    BY <1>1 DEF ToSet
  <1> QED
    BY <1>1, <1>2, <1>3, <1>4 DEF r

LEMMA FrontFacts ==
  ASSUME NEW S, NEW q \in Seq(S), Distinct(q), q # << >>
  PROVE  /\ Last(q) \in ToSet(q)
         /\ Front(q) \in Seq(S)
         /\ ToSet(Front(q)) = ToSet(q) \ {Last(q)}
         /\ Distinct(Front(q))
  <1> DEFINE r == Front(q)
  <1>1. Len(q) \in Nat \ {0} /\ Last(q) = q[Len(q)]
    BY DEF Last
  <1>2. /\ r \in Seq(S) /\ Len(r) = Len(q) - 1
        /\ \A j \in 1 .. Len(r) : r[j] = q[j]
    <2>1. \A j \in 1 .. Len(q) - 1 : q[j] \in S
      BY <1>1
    <2>2. /\ r \in Seq(S) /\ Len(r) = IF 1 <= Len(q) - 1 THEN Len(q) - 1 ELSE 0
          /\ \A j \in 1 .. Len(q) - 1 : r[j] = q[j]
      <3>1. r = SubSeq(q, 1, Len(q) - 1)
        BY DEF Front
      <3> HIDE DEF r
      <3>2. /\ SubSeq(q, 1, Len(q) - 1) \in Seq(S)
            /\ Len(SubSeq(q, 1, Len(q) - 1)) = IF 1 <= Len(q) - 1 THEN Len(q) - 1 - 1 + 1 ELSE 0
            /\ \A j \in 1 .. Len(q) - 1 - 1 + 1 : SubSeq(q, 1, Len(q) - 1)[j] = q[1 + j - 1]
        BY <1>1, <2>1, SubSeqProperties
      <3> QED
        BY <1>1, <3>1, <3>2
    <2> HIDE DEF r
    <2>3. (IF 1 <= Len(q) - 1 THEN Len(q) - 1 ELSE 0) = Len(q) - 1
      <3>1. \A n \in Nat \ {0} : (IF 1 <= n - 1 THEN n - 1 ELSE 0) = n - 1
        OBVIOUS
      <3> QED
        BY <1>1, <3>1
    <2> QED
      BY <2>2, <2>3
  <1> HIDE DEF r
  <1>3. Distinct(r)
    BY <1>1, <1>2 DEF Distinct
  <1>4. ToSet(r) = ToSet(q) \ {Last(q)}
    BY <1>1, <1>2 DEF ToSet, Distinct
  <1>5. Last(q) \in ToSet(q)
    BY <1>1 DEF ToSet
  <1> QED
    BY <1>2, <1>3, <1>4, <1>5 DEF r

-----------------------------------------------------------------------------
(* The cache.                                                              *)

\* TypeOK by the variables it is about.
CacheType ==
  /\ store \in [Keys -> Entries \union {NoValue}]
  /\ lru \in Seq(Keys)
RowsType == db \in [Keys -> Values \union {NoValue}]
SaveType ==
  /\ saving \in BOOLEAN
  /\ snapshot \in [Keys -> Entries \union {NoValue}]
  /\ todo \subseteq {k \in Keys : snapshot[k] # NoValue}
  /\ rows \subseteq {k \in Keys : snapshot[k] \in Values}

CacheInv == CacheType /\ RowsType /\ LruExact /\ CacheBounded

IInv == CacheInv /\ SaveType

LEMMA CachedFinite == IsFiniteSet(Cached) /\ Cardinality(Cached) \in Nat
  <1>1. Cached \in SUBSET Keys
    BY DEF Cached
  <1>2. IsFiniteSet(Cached)
    BY <1>1, FS_Subset, KVAssumption
  <1> QED
    BY <1>2, FS_CardinalityType

\* The row that stands for an entry is a value, or none.
LEMMA RowFacts ==
  ASSUME NEW entry \in Entries
  PROVE  RowOf(entry) \in Values \union {NoValue} /\ entry # NoValue
  <1> QED
    BY KVAssumption DEF Entries, RowOf

\* The place of a cached key in the list; the others are a list without it.
LEMMA OthersFacts ==
  ASSUME CacheInv, NEW k \in Cached
  PROVE  Others(k) \in Seq(Keys) /\ ToSet(Others(k)) = Cached \ {k} /\ Distinct(Others(k))
  <1>1. lru \in Seq(Keys) /\ ToSet(lru) = Cached /\ Distinct(lru)
    BY DEF CacheInv, CacheType, LruExact, Distinct
  <1>2. \E i \in DOMAIN lru : lru[i] = k
    BY <1>1 DEF ToSet
  <1>3. Position(k) \in DOMAIN lru /\ lru[Position(k)] = k
    BY <1>2 DEF Position
  <1> HIDE DEF Position
  <1> QED
    BY <1>1, <1>3, Removed DEF Others

\* A key that is cached moves in the list.
LEMMA Moved ==
  ASSUME CacheInv, NEW k \in Cached, NEW entry \in Entries,
         store' = [store EXCEPT ![k] = entry],
         lru' = <<k>> \o Others(k) \/ lru' = Append(Others(k), k),
         RowsType'
  PROVE  CacheInv'
  <1>1. k \in Keys
    BY DEF Cached
  <1>2. /\ Others(k) \in Seq(Keys) /\ ToSet(Others(k)) = Cached \ {k} /\ Distinct(Others(k))
        /\ k \notin ToSet(Others(k))
    BY OthersFacts
  <1>3. lru' \in Seq(Keys) /\ ToSet(lru') = {k} \union (Cached \ {k}) /\ Distinct(lru')
    <2>1. CASE lru' = <<k>> \o Others(k)
      BY <1>1, <1>2, <2>1, Pushed
    <2>2. CASE lru' = Append(Others(k), k)
      BY <1>1, <1>2, <2>2, Appended
    <2> QED
      BY <2>1, <2>2
  <1>4. Cached' = Cached
    BY <1>1, RowFacts DEF CacheInv, CacheType, Cached
  <1>5. CacheType'
    BY <1>3 DEF CacheInv, CacheType
  <1>6. LruExact'
    BY <1>3, <1>4 DEF LruExact, Distinct
  <1>7. CacheBounded'
    BY <1>4 DEF CacheInv, CacheBounded
  <1> QED
    BY <1>5, <1>6, <1>7 DEF CacheInv

\* A row that is written for an entry, or not.
LEMMA RowWritten ==
  ASSUME RowsType, CacheType, NEW k \in Keys, store[k] # NoValue, SaveEvicted(k) PROVE RowsType'
  <1>1. RowOf(store[k]) \in Values \union {NoValue}
    BY RowFacts DEF CacheType
  <1> QED
    BY <1>1 DEF RowsType, SaveEvicted

\* setLocked moves a cached key to the front, or puts a new one there, and evicts
\* the last key when the cache is full.
LEMMA PutInv ==
  ASSUME CacheInv, NEW k \in Keys, NEW entry \in Entries, Put(k, entry) PROVE CacheInv'
  <1> USE KVAssumption
  <1>1. lru \in Seq(Keys) /\ ToSet(lru) = Cached /\ Distinct(lru)
    BY DEF CacheInv, CacheType, LruExact, Distinct
  <1>2. CASE k \in Cached
    BY <1>2, Moved DEF Put, CacheInv, RowsType
  <1>3. CASE k \notin Cached /\ Cardinality(Cached) < MaxSize
    <2>1. /\ store' = [store EXCEPT ![k] = entry]
          /\ lru' = <<k>> \o lru
          /\ UNCHANGED db
      BY <1>3, CachedFinite DEF Put
    <2>2. lru' \in Seq(Keys) /\ ToSet(lru') = {k} \union Cached /\ Distinct(lru')
      BY <1>1, <1>3, <2>1, Pushed
    <2>3. Cached' = Cached \union {k}
      BY <2>1, RowFacts DEF CacheInv, CacheType, Cached
    <2>4. Cardinality(Cached \union {k}) = Cardinality(Cached) + 1
      BY <1>3, CachedFinite, FS_AddElement
    <2>5. CacheType' /\ RowsType'
      BY <2>1, <2>2 DEF CacheInv, CacheType, RowsType
    <2>6. LruExact'
      BY <2>2, <2>3 DEF LruExact, Distinct
    <2>7. CacheBounded'
      BY <1>3, <2>3, <2>4, CachedFinite DEF CacheBounded
    <2> QED
      BY <2>5, <2>6, <2>7 DEF CacheInv
  <1>4. CASE k \notin Cached /\ Cardinality(Cached) >= MaxSize
    <2> DEFINE l == Last(lru)
    <2>1. /\ SaveEvicted(l)
          /\ store' = [store EXCEPT ![l] = NoValue, ![k] = entry]
          /\ lru' = <<k>> \o Front(lru)
      BY <1>4, CachedFinite DEF Put
    <2>2. lru # << >>
      <3>1. Cached # {}
        BY <1>4, FS_EmptySet
      <3> QED
        BY <1>1, <3>1 DEF ToSet
    <2>3. /\ l \in Cached /\ Front(lru) \in Seq(Keys)
          /\ ToSet(Front(lru)) = Cached \ {l} /\ Distinct(Front(lru))
      BY <1>1, <2>2, FrontFacts
    <2> HIDE DEF l
    <2>4. l \in Keys /\ l # k /\ store[l] # NoValue
      BY <1>4, <2>3 DEF Cached
    <2>5. lru' \in Seq(Keys) /\ ToSet(lru') = {k} \union (Cached \ {l}) /\ Distinct(lru')
      BY <1>4, <2>1, <2>3, Pushed
    <2>6. Cached' = (Cached \ {l}) \union {k}
      BY <2>1, <2>4, RowFacts DEF CacheInv, CacheType, Cached
    <2>7. Cardinality((Cached \ {l}) \union {k}) = Cardinality(Cached)
      <3>1. IsFiniteSet(Cached \ {l}) /\ Cardinality(Cached \ {l}) = Cardinality(Cached) - 1
        BY <2>3, CachedFinite, FS_RemoveElement
      <3>2. Cardinality((Cached \ {l}) \union {k}) = Cardinality(Cached \ {l}) + 1
        BY <1>4, <3>1, FS_AddElement
      <3> QED
        BY <3>1, <3>2, CachedFinite
    <2>8. CacheType'
      BY <2>1, <2>5 DEF CacheInv, CacheType
    <2>9. RowsType'
      BY <2>1, <2>4, RowWritten DEF CacheInv
    <2>10. LruExact'
      BY <2>5, <2>6 DEF LruExact, Distinct
    <2>11. CacheBounded'
      BY <2>6, <2>7 DEF CacheInv, CacheBounded
    <2> QED
      BY <2>8, <2>9, <2>10, <2>11 DEF CacheInv
  <1> QED
    BY <1>2, <1>3, <1>4, CachedFinite

-----------------------------------------------------------------------------
(* The invariant.                                                          *)

LEMMA InitInv ==
  ASSUME Init PROVE IInv
  <1> USE KVAssumption
  <1>1. Cached = {} /\ ToSet(lru) = {} /\ DOMAIN lru = {}
    <2>1. lru = << >> /\ DOMAIN << >> = {}
      BY DEF Init
    <2>2. Cached = {}
      BY DEF Init, NoSnapshot, Cached
    <2> QED
      BY <2>1, <2>2 DEF ToSet
  <1>2. NoSnapshot \in [Keys -> Entries \union {NoValue}]
    BY DEF NoSnapshot
  <1>3. CacheType
    BY <1>2 DEF Init, CacheType
  <1>4. RowsType /\ SaveType
    BY <1>2 DEF Init, RowsType, SaveType
  <1>5. LruExact
    BY <1>1 DEF LruExact
  <1>6. CacheBounded
    BY <1>1, FS_EmptySet DEF CacheBounded
  <1> QED
    BY <1>3, <1>4, <1>5, <1>6 DEF IInv, CacheInv

\* Steps that leave the cache alone.
LEMMA SameCache ==
  ASSUME CacheInv, UNCHANGED cacheVars, RowsType' PROVE CacheInv'
  <1>1. UNCHANGED <<store, lru>> /\ Cached' = Cached
    BY DEF cacheVars, Cached
  <1> QED
    BY <1>1 DEF CacheInv, CacheType, LruExact, CacheBounded

LEMMA LoadInv ==
  ASSUME CacheInv, NEW k \in Keys, NEW op, Load(k, op) PROVE CacheInv'
  <1>1. CASE db[k] = NoValue
    BY <1>1, SameCache DEF Load, CacheInv, RowsType
  <1>2. CASE db[k] # NoValue
    <2>1. db[k] \in Entries /\ Put(k, db[k])
      BY <1>2 DEF Load, CacheInv, RowsType, Entries
    <2> QED
      BY <2>1, PutInv
  <1> QED
    BY <1>1, <1>2

\* The calls of clients change the cache, and a row at most by an eviction.
LEMMA ClientInv ==
  ASSUME IInv, Client PROVE IInv'
  <1>1. UNCHANGED saveVars
    BY DEF Client, Set, Get, ForcedGet, ListKeys
  <1>2. SaveType'
    BY <1>1 DEF saveVars, IInv, SaveType
  <1>3. ASSUME NEW k \in Keys, NEW entry \in Entries, Set(k, entry) PROVE CacheInv'
    BY <1>3, PutInv DEF Set, IInv
  <1>4. ASSUME NEW k \in Keys, Get(k) PROVE CacheInv'
    <2>1. CASE k \in Cached /\ Hit(k)
      <3>1. store[k] \in Entries /\ [store EXCEPT ![k] = store[k]] = store
        BY <2>1 DEF IInv, CacheInv, CacheType, Cached
      <3> QED
        BY <2>1, <3>1, Moved DEF Hit, IInv, CacheInv, RowsType
    <2>2. CASE Load(k, "get")
      BY <2>2, LoadInv DEF IInv
    <2>3. CASE LoadFails(k, "get")
      BY <2>3, SameCache DEF LoadFails, IInv, CacheInv, RowsType
    <2> QED
      BY <1>4, <2>1, <2>2, <2>3 DEF Get
  <1>5. ASSUME NEW k \in Keys, ForcedGet(k) PROVE CacheInv'
    <2>1. CASE Load(k, "reload")
      BY <2>1, LoadInv DEF IInv
    <2>2. CASE LoadFails(k, "reload")
      BY <2>2, SameCache DEF LoadFails, IInv, CacheInv, RowsType
    <2> QED
      BY <1>5, <2>1, <2>2 DEF ForcedGet
  <1>6. ASSUME ListKeys PROVE CacheInv'
    <2>1. UNCHANGED cacheVars /\ UNCHANGED db
      BY <1>6 DEF ListKeys
    <2>2. RowsType'
      BY <2>1 DEF IInv, CacheInv, RowsType
    <2> QED
      BY <2>1, <2>2, SameCache DEF IInv
  <1>7. CacheInv'
    BY <1>3, <1>4, <1>5, <1>6 DEF Client
  <1> QED
    BY <1>2, <1>7 DEF IInv

\* The steps of saveAll change rows, to values that the copy of the cache holds.
LEMMA SaveInv ==
  ASSUME IInv, BeginSave \/ SaveStep PROVE IInv'
  <1> USE KVAssumption
  <1>1. CASE BeginSave
    <2>1. UNCHANGED <<store, lru, db>>
      BY <1>1 DEF BeginSave, cacheVars
    <2>2. SaveType'
      BY <1>1 DEF BeginSave, IInv, CacheInv, CacheType, SaveType, Cached
    <2> QED
      BY <2>1, <2>2, SameCache DEF IInv, CacheInv, RowsType, cacheVars
  <1>2. ASSUME NEW k \in todo, PrepareRow(k) PROVE IInv'
    <2>1. k \in Keys /\ snapshot[k] \in Entries
      BY DEF IInv, SaveType
    <2>2. RowsType'
      BY <1>2, <2>1 DEF PrepareRow, IInv, CacheInv, RowsType
    <2>3. SaveType'
      BY <1>2, <2>1 DEF PrepareRow, IInv, SaveType, Entries
    <2>4. UNCHANGED cacheVars
      BY <1>2 DEF PrepareRow
    <2> QED
      BY <2>2, <2>3, <2>4, SameCache DEF IInv
  <1>3. ASSUME NEW batch \in SUBSET rows \ {{}}, ExecuteBatch(batch) PROVE IInv'
    <2>1. \A k \in batch : k \in Keys /\ snapshot[k] \in Values
      BY DEF IInv, SaveType
    <2>2. RowsType'
      BY <1>3, <2>1 DEF ExecuteBatch, IInv, CacheInv, RowsType
    <2>3. SaveType'
      BY <1>3 DEF ExecuteBatch, IInv, SaveType
    <2>4. UNCHANGED cacheVars
      BY <1>3 DEF ExecuteBatch
    <2> QED
      BY <2>2, <2>3, <2>4, SameCache DEF IInv
  <1>4. CASE EndSave
    <2>1. SaveType'
      BY <1>4 DEF EndSave, NoSnapshot, SaveType
    <2>2. UNCHANGED cacheVars /\ UNCHANGED db
      BY <1>4 DEF EndSave
    <2> QED
      BY <2>1, <2>2, SameCache DEF IInv, CacheInv, RowsType
  <1> QED
    BY <1>1, <1>2, <1>3, <1>4 DEF SaveStep

LEMMA CrashInv ==
  ASSUME IInv, Crash PROVE IInv'
  <1> USE KVAssumption
  <1>1. Cached' = {} /\ ToSet(lru') = {} /\ DOMAIN lru' = {}
    <2>1. lru' = << >> /\ DOMAIN << >> = {}
      BY DEF Crash
    <2>2. Cached' = {}
      BY DEF Crash, NoSnapshot, Cached
    <2> QED
      BY <2>1, <2>2 DEF ToSet
  <1>2. NoSnapshot \in [Keys -> Entries \union {NoValue}]
    BY DEF NoSnapshot
  <1>3. CacheType'
    BY <1>2 DEF Crash, CacheType
  <1>4. RowsType' /\ SaveType'
    BY <1>2 DEF Crash, RowsType, SaveType, IInv, CacheInv
  <1>5. LruExact'
    BY <1>1 DEF LruExact
  <1>6. CacheBounded'
    BY <1>1, FS_EmptySet DEF CacheBounded
  <1> QED
    BY <1>3, <1>4, <1>5, <1>6 DEF IInv, CacheInv

LEMMA StepInv == IInv /\ [Next]_vars => IInv'
  <1>1. ASSUME IInv, UNCHANGED vars PROVE IInv'
    <2>1. UNCHANGED cacheVars /\ UNCHANGED db /\ UNCHANGED <<saving, snapshot, todo, rows>>
      BY <1>1 DEF vars, saveVars
    <2> QED
      BY <1>1, <2>1, SameCache DEF IInv, CacheInv, RowsType, SaveType
  <1> QED
    BY <1>1, ClientInv, SaveInv, CrashInv DEF Next

LEMMA Invariance == Spec => []IInv
  <1>1. Init => IInv
    BY InitInv
  <1> QED
    BY <1>1, StepInv, PTL DEF Spec

\* Type correctness of the store and of the lists that prepareSave works through.
THEOREM TypeCorrect == Spec => []TypeOK
  <1>1. IInv => TypeOK
    BY DEF IInv, CacheInv, CacheType, RowsType, SaveType, TypeOK
  <1> QED
    BY <1>1, Invariance, PTL

\* lruQueue_ names each cached key once and nothing else (kv.cpp, setLocked and
\* getLocked), whatever is set, read, evicted or lost in a crash.
THEOREM LruExactHolds == Spec => []LruExact
  <1>1. IInv => LruExact
    BY DEF IInv, CacheInv
  <1> QED
    BY <1>1, Invariance, PTL

\* The cache stays within MAX_SIZE.
THEOREM CacheBoundedHolds == Spec => []CacheBounded
  <1>1. IInv => CacheBounded
    BY DEF IInv, CacheInv
  <1> QED
    BY <1>1, Invariance, PTL

-----------------------------------------------------------------------------
(* The refinement of KVMap, when saves run on the dispatcher.              *)

\* A running save works from a copy that is still the cache, since no client runs;
\* the rows it is done with are those of the cache.
SaveInStep ==
  saving => /\ snapshot = store
            /\ \A k \in Cached : k \in todo \union rows \/ db[k] = RowOf(store[k])

\* What the clients see, as the refinement maps it.
View == [k \in Keys |-> Visible(k)]

\* Every key reads as a value, or as none.
LEMMA ViewType == ASSUME CacheInv PROVE View \in [Keys -> Values \union {NoValue}]
  <1>1. ASSUME NEW k \in Keys PROVE Visible(k) \in Values \union {NoValue}
    <2>1. CASE k \in Cached
      <3>1. store[k] \in Entries
        BY <2>1 DEF Cached, CacheInv, CacheType
      <3> QED
        BY <2>1, <3>1, RowFacts DEF Visible
    <2>2. CASE k \notin Cached
      BY <2>2 DEF Visible, CacheInv, RowsType
    <2> QED
      BY <2>1, <2>2
  <1> QED
    BY <1>1 DEF View

LEMMA InitSaveInStep == Init => SaveInStep
  <1> QED
    BY DEF Init, SaveInStep

LEMMA StepSaveInStep ==
  ASSUME Async = FALSE, IInv, SaveInStep, [Next]_vars PROVE SaveInStep'
  <1> USE KVAssumption
  <1>1. ASSUME Client PROVE ~saving'
    BY <1>1 DEF Client, Set, Get, ForcedGet, ListKeys, ClientRuns, saveVars
  <1>2. CASE BeginSave
    <2>1. UNCHANGED store
      BY <1>2 DEF BeginSave, cacheVars
    <2> QED
      BY <1>2, <2>1 DEF BeginSave, SaveInStep, Cached
  <1>3. ASSUME saving, NEW k \in todo, PrepareRow(k) PROVE SaveInStep'
    <2>1. /\ snapshot' = snapshot /\ store' = store /\ Cached' = Cached /\ saving' = saving
          /\ todo' = todo \ {k}
      BY <1>3 DEF PrepareRow, cacheVars, Cached
    <2>2. snapshot = store /\ \A l \in Cached : l \in todo \union rows \/ db[l] = RowOf(store[l])
      BY <1>3 DEF SaveInStep
    <2>3. CASE snapshot[k] = Deleted
      BY <1>3, <2>1, <2>2, <2>3
         DEF PrepareRow, SaveInStep, RowOf, IInv, CacheInv, RowsType, Cached
    <2>4. CASE snapshot[k] # Deleted
      BY <1>3, <2>1, <2>2, <2>4 DEF PrepareRow, SaveInStep, RowOf
    <2> QED
      BY <2>3, <2>4
  <1>4. ASSUME saving, NEW batch \in SUBSET rows, ExecuteBatch(batch) PROVE SaveInStep'
    <2>1. /\ snapshot' = snapshot /\ store' = store /\ Cached' = Cached /\ saving' = saving
          /\ todo' = todo /\ rows \ batch \subseteq rows'
          /\ \A k \in Keys : db'[k] = IF k \in batch THEN snapshot[k] ELSE db[k]
      BY <1>4 DEF ExecuteBatch, cacheVars, Cached
    <2>2. snapshot = store /\ \A l \in Cached : l \in todo \union rows \/ db[l] = RowOf(store[l])
      BY <1>4 DEF SaveInStep
    <2>3. \A k \in batch : RowOf(snapshot[k]) = snapshot[k]
      BY DEF IInv, SaveType, RowOf
    <2>4. \A l \in Cached : l \in Keys
      BY DEF Cached
    <2> QED
      BY <2>1, <2>2, <2>3, <2>4 DEF SaveInStep, RowOf
  <1>5. CASE EndSave \/ Crash
    BY <1>5 DEF EndSave, Crash, SaveInStep
  <1>6. CASE UNCHANGED vars
    BY <1>6 DEF vars, cacheVars, saveVars, SaveInStep, Cached, RowOf
  <1> QED
    BY <1>1, <1>2, <1>3, <1>4, <1>5, <1>6 DEF Next, SaveStep, SaveInStep

\* What a put shows the clients: the key's new value, and at most one other key
\* that falls back to its row, whose eviction failed.
LEMMA PutGives ==
  ASSUME IInv, NEW k \in Keys, NEW entry \in Entries, Put(k, entry)
  PROVE  /\ Map!Gives(k, RowOf(entry))
         /\ Map!MayPersist
  <1> USE KVAssumption
  <1> DEFINE v == RowOf(entry)
  <1>1. CacheInv' /\ CacheInv
    BY PutInv DEF IInv
  <1>2. entry # NoValue
    BY RowFacts
  <1>3. CASE /\ store' = [store EXCEPT ![k] = entry]
             /\ UNCHANGED db
    <2>1. Cached' = Cached \union {k} /\ store'[k] = entry
      BY <1>1, <1>2, <1>3 DEF CacheInv, CacheType, Cached
    <2>2. \A j \in Keys \ {k} : store'[j] = store[j]
      BY <1>1, <1>3 DEF CacheInv, CacheType
    <2>3. View' = [View EXCEPT ![k] = v]
      <3>1. Visible(k)' = v /\ \A j \in Keys \ {k} : Visible(j)' = Visible(j)
        BY <1>3, <2>1, <2>2 DEF Visible, RowOf
      <3> QED
        BY <3>1 DEF View
    <2>4. Map!MayPersist
      BY <1>1, <1>3 DEF CacheInv, RowsType, Map!MayPersist, Map!Contents, Map!Lag
    <2> QED
      BY <2>3, <2>4 DEF Map!Gives, View
  <1>4. CASE /\ k \notin Cached /\ Cardinality(Cached) >= MaxSize
             /\ SaveEvicted(Last(lru))
             /\ store' = [store EXCEPT ![Last(lru)] = NoValue, ![k] = entry]
    <2> DEFINE l == Last(lru)
    <2>1. l \in Cached /\ l \in Keys /\ l # k /\ store[l] # NoValue
      <3>1. lru \in Seq(Keys) /\ ToSet(lru) = Cached /\ Distinct(lru)
        BY <1>1 DEF CacheInv, CacheType, LruExact, Distinct
      <3>2. Cached # {}
        BY <1>4, FS_EmptySet
      <3>3. lru # << >>
        BY <3>1, <3>2 DEF ToSet
      <3>4. l \in Cached
        BY <3>1, <3>3, FrontFacts
      <3> QED
        BY <1>4, <3>4 DEF Cached
    <2> HIDE DEF l
    <2>2. /\ store' = [store EXCEPT ![l] = NoValue, ![k] = entry]
          /\ \/ db' = [db EXCEPT ![l] = RowOf(store[l])]
             \/ DbFails /\ UNCHANGED db
      BY <1>4 DEF SaveEvicted, l
    <2>3. /\ store'[k] = entry /\ store'[l] = NoValue
          /\ \A j \in Keys \ {k, l} : store'[j] = store[j]
      BY <1>1, <2>1, <2>2 DEF CacheInv, CacheType
    <2>4. k \in Cached' /\ l \notin Cached' /\ \A j \in Keys \ {k, l} : j \in Cached' <=> j \in Cached
      BY <1>2, <2>1, <2>3 DEF Cached
    <2>5. \A j \in Keys \ {l} : db'[j] = db[j]
      BY <1>1, <2>2 DEF CacheInv, RowsType
    <2>6. \/ db'[l] = Visible(l)
          \/ DbFails /\ UNCHANGED db
      BY <1>1, <2>1, <2>2 DEF CacheInv, RowsType, Visible
    <2>7. \A j \in Keys : View'[j] = IF j = l THEN db'[l] ELSE IF j = k THEN v ELSE View[j]
      <3>1. View'[k] = RowOf(store'[k])
        BY <2>4 DEF View, Visible, RowOf
      <3>2. View'[l] = db'[l]
        BY <2>1, <2>4 DEF View, Visible
      <3>3. ASSUME NEW j \in Keys \ {k, l} PROVE View'[j] = View[j]
        BY <2>3, <2>4, <2>5, <3>3 DEF View, Visible, RowOf
      <3> QED
        BY <2>1, <2>3, <3>1, <3>2, <3>3
    <2>8. View = [j \in Keys |-> View[j]] /\ View' = [j \in Keys |-> View'[j]]
      BY DEF View
    <2>9. Map!Gives(k, v)
      <3>1. CASE db'[l] = Visible(l)
        <4>1. View[l] = db'[l]
          BY <2>1, <3>1 DEF View
        <4>2. View' = [View EXCEPT ![k] = v]
          BY <2>1, <2>7, <2>8, <4>1
        <4> QED
          BY <4>2 DEF Map!Gives, View
      <3>2. CASE DbFails /\ UNCHANGED db
        <4>1. View' = [View EXCEPT ![k] = v, ![l] = db[l]]
          BY <2>1, <2>7, <2>8, <3>2
        <4> QED
          BY <2>1, <3>2, <4>1 DEF Map!Gives, View
      <3> QED
        BY <2>6, <3>1, <3>2
    <2>10. Map!MayPersist
      <3>1. \A j \in Keys : db'[j] \in {db[j], Visible(j)}
        BY <2>5, <2>6
      <3> QED
        BY <1>1, <3>1 DEF CacheInv, RowsType, Map!MayPersist, Map!Contents, Map!Lag
    <2> QED
      BY <2>9, <2>10
  <1> QED
    BY <1>3, <1>4 DEF Put

\* A step that changes no cached entry and no row shows the clients nothing.
LEMMA SameView ==
  ASSUME UNCHANGED <<store, db>> PROVE View' = View
  <1> QED
    BY DEF View, Visible, Cached, RowOf

LEMMA LoadMaps ==
  ASSUME IInv, NEW k \in Keys, NEW op, Load(k, op)
  PROVE  /\ Map!Gives(k, IF db[k] = NoValue THEN View[k] ELSE db[k])
         /\ Map!MayPersist
         /\ reply' = [op |-> op, key |-> k, value |-> db[k]]
  <1> USE KVAssumption
  <1>1. CASE db[k] = NoValue
    <2>1. UNCHANGED <<store, db>>
      BY <1>1 DEF Load, cacheVars
    <2>2. View' = View /\ View = [View EXCEPT ![k] = View[k]]
      BY <2>1, SameView DEF View
    <2>3. Map!MayPersist
      BY <2>1 DEF IInv, CacheInv, RowsType, Map!MayPersist, Map!Contents, Map!Lag
    <2> QED
      BY <1>1, <2>2, <2>3 DEF Load, Map!Gives, View
  <1>2. CASE db[k] # NoValue
    <2>1. db[k] \in Entries /\ RowOf(db[k]) = db[k] /\ Put(k, db[k])
      BY <1>2 DEF Load, IInv, CacheInv, RowsType, Entries, RowOf
    <2> QED
      BY <1>2, <2>1, PutGives DEF Load
  <1> QED
    BY <1>1, <1>2

LEMMA ClientMaps ==
  ASSUME IInv, Client PROVE [Map!Next]_(Map!vars)
  <1> USE KVAssumption
  <1>1. ASSUME NEW k \in Keys, NEW entry \in Entries, Set(k, entry) PROVE Map!Next
    <2>1. Map!Set(k, RowOf(entry))
      BY <1>1, PutGives DEF Set, Map!Set
    <2> QED
      BY <2>1, RowFacts DEF Map!Next
  <1>2. ASSUME NEW k \in Keys, NEW op \in {"get", "reload"}, LoadFails(k, op) PROVE Map!Next
    <2>1. UNCHANGED <<store, db>>
      BY <1>2 DEF LoadFails, cacheVars
    <2>2. View' = View
      BY <2>1, SameView
    <2>3. Map!ReadFails(k)
      BY <1>2, <2>1, <2>2 DEF LoadFails, Map!ReadFails, View
    <2> QED
      BY <2>3 DEF Map!Next
  <1>3. ASSUME NEW k \in Keys, Get(k) PROVE Map!Next
    <2>1. CASE k \in Cached /\ Hit(k)
      <3>1. UNCHANGED <<store, db>> /\ reply' = [op |-> "get", key |-> k, value |-> RowOf(store[k])]
        BY <2>1 DEF Hit
      <3>2. View[k] = RowOf(store[k])
        BY <2>1 DEF View, Visible
      <3>3. View' = View /\ View = [View EXCEPT ![k] = View[k]]
        BY <3>1, SameView DEF View
      <3>4. Map!MayPersist
        BY <3>1 DEF IInv, CacheInv, RowsType, Map!MayPersist, Map!Contents, Map!Lag
      <3>5. Map!Get(k)
        BY <3>1, <3>2, <3>3, <3>4 DEF Map!Get, Map!Gives, View
      <3> QED
        BY <3>5 DEF Map!Next
    <2>2. CASE k \notin Cached /\ Load(k, "get")
      <3>1. View[k] = db[k]
        BY <2>2 DEF View, Visible
      <3>2. Map!Get(k)
        BY <2>2, <3>1, LoadMaps DEF Map!Get, View
      <3> QED
        BY <3>2 DEF Map!Next
    <2> QED
      BY <1>2, <1>3, <2>1, <2>2 DEF Get
  <1>4. ASSUME NEW k \in Keys, ForcedGet(k) PROVE Map!Next
    <2>1. CASE Load(k, "reload")
      <3>1. Map!Reload(k)
        BY <2>1, LoadMaps DEF Map!Reload, View
      <3> QED
        BY <3>1 DEF Map!Next
    <2> QED
      BY <1>2, <1>4, <2>1 DEF ForcedGet
  <1>5. ASSUME ListKeys PROVE Map!Next
    <2>1. UNCHANGED <<store, db>>
      BY <1>5 DEF ListKeys, cacheVars
    <2>2. PICK found \in LoadPrefix : reply' = [op |-> "keys", keys |-> Cached \union found]
      BY <1>5 DEF ListKeys
    <2> DEFINE listed == Cached \union found
    <2>3. listed \in SUBSET Keys
      BY <2>2 DEF Cached, LoadPrefix
    <2>4. ASSUME NEW k \in Keys \ listed
          PROVE  View[k] = NoValue \/ (DbFails /\ View[k] = db[k])
      <3>1. k \notin Cached /\ View[k] = db[k]
        BY DEF View, Visible
      <3>2. CASE found = {j \in Keys : db[j] # NoValue}
        BY <3>1, <3>2
      <3>3. CASE DbFails
        BY <3>1, <3>3
      <3> QED
        BY <2>2, <3>2, <3>3 DEF LoadPrefix
    <2>5. View' = View
      BY <2>1, SameView
    <2> HIDE DEF listed
    <2>6. reply' = [op |-> "keys", keys |-> listed]
      BY <2>2 DEF listed
    <2>7. Map!ListKeys
      BY <2>1, <2>3, <2>4, <2>5, <2>6 DEF Map!ListKeys, View
    <2> QED
      BY <2>7 DEF Map!Next
  <1> QED
    BY <1>1, <1>3, <1>4, <1>5 DEF Client

\* The steps of a save write rows that the clients read already.
LEMMA SaveMaps ==
  ASSUME IInv, SaveInStep, BeginSave \/ SaveStep PROVE [Map!Next]_(Map!vars)
  <1> USE KVAssumption
  <1>1. ASSUME UNCHANGED store, RowsType', reply' = NoReply,
               \A k \in Keys : db'[k] # db[k] => k \in Cached /\ db'[k] = RowOf(store[k])
        PROVE  Map!Next
    <2>1. ASSUME NEW k \in Keys PROVE View'[k] = View[k] /\ db'[k] \in {db[k], View[k]}
      BY <1>1 DEF View, Visible, Cached, RowOf
    <2>2. View = [k \in Keys |-> View[k]] /\ View' = [k \in Keys |-> View'[k]]
      BY DEF View
    <2>3. View' = View
      BY <2>1, <2>2
    <2>4. Map!Save
      BY <1>1, <2>1, <2>3 DEF RowsType, Map!Save, Map!MayPersist, Map!Contents, Map!Lag, View
    <2> QED
      BY <2>4 DEF Map!Next
  <1>2. CASE BeginSave
    BY <1>1, <1>2 DEF BeginSave, cacheVars, IInv, CacheInv, RowsType
  <1>3. ASSUME saving, NEW k \in todo, PrepareRow(k) PROVE Map!Next
    <2>1. UNCHANGED store /\ reply' = NoReply /\ snapshot = store /\ RowsType'
      BY <1>3, SaveInv DEF PrepareRow, cacheVars, SaveInStep, SaveStep, IInv, CacheInv
    <2>2. k \in Cached
      BY <2>1 DEF IInv, SaveType, Cached
    <2>3. \/ db' = [db EXCEPT ![k] = NoValue] /\ store[k] = Deleted
          \/ db' = db
      BY <1>3, <2>1 DEF PrepareRow
    <2> QED
      BY <1>1, <2>1, <2>2, <2>3 DEF IInv, CacheInv, RowsType, RowOf
  <1>4. ASSUME saving, NEW batch \in SUBSET rows \ {{}}, ExecuteBatch(batch) PROVE Map!Next
    <2>1. UNCHANGED store /\ reply' = NoReply /\ snapshot = store /\ RowsType'
      BY <1>4, SaveInv DEF ExecuteBatch, cacheVars, SaveInStep, SaveStep, IInv, CacheInv
    <2>2. \A k \in batch : k \in Cached /\ RowOf(store[k]) = store[k]
      BY <2>1 DEF IInv, SaveType, Cached, RowOf
    <2>3. \A k \in Keys : db'[k] = IF k \in batch THEN store[k] ELSE db[k]
      BY <1>4, <2>1 DEF ExecuteBatch
    <2> QED
      BY <1>1, <2>1, <2>2, <2>3
  <1>5. ASSUME saving, EndSave PROVE Map!Next
    <2>1. UNCHANGED <<store, db>> /\ reply' = [op |-> "saveAll"]
      BY <1>5 DEF EndSave, cacheVars
    <2>2. View' = View
      BY <2>1, SameView
    <2>3. DbFails \/ db = View
      <3>1. CASE todo = {} /\ rows = {}
        <4>1. \A k \in Keys : db[k] = View[k]
          BY <1>5, <3>1 DEF SaveInStep, View, Visible
        <4>2. db = [k \in Keys |-> db[k]] /\ View = [k \in Keys |-> View[k]]
          BY DEF IInv, CacheInv, RowsType, View
        <4> QED
          BY <4>1, <4>2
      <3> QED
        BY <1>5, <3>1 DEF EndSave
    <2>4. Map!Saved
      BY <2>1, <2>2, <2>3 DEF Map!Saved, View
    <2> QED
      BY <2>4 DEF Map!Next
  <1> QED
    BY <1>2, <1>3, <1>4, <1>5 DEF SaveStep

LEMMA CrashMaps ==
  ASSUME IInv, Crash PROVE [Map!Next]_(Map!vars)
  <1>1. UNCHANGED db /\ reply' = NoReply /\ Cached' = {}
    BY DEF Crash, Cached, NoSnapshot
  <1>2. View' = [k \in Keys |-> db[k]]
    BY <1>1 DEF View, Visible
  <1>3. View' = db
    BY <1>2 DEF IInv, CacheInv, RowsType
  <1>4. Map!Crash
    BY <1>1, <1>3 DEF Map!Crash, View
  <1> QED
    BY <1>4 DEF Map!Next

\* With saves on the dispatcher the store implements the map of KVMap: whatever is
\* cached, evicted, written in batches, lost in a crash or not written because a
\* statement failed, callers see a map whose rows lag behind.
THEOREM ImplementsMapHolds ==
  ASSUME Async = FALSE
  PROVE  Spec => ImplementsMap
  <1>1. Init => Map!Init
    <2> SUFFICES ASSUME Init PROVE Map!Init
      OBVIOUS
    <2>1. Cached = {}
      BY DEF Init, NoSnapshot, Cached
    <2>2. View = db
      <3>1. View = [k \in Keys |-> db[k]]
        BY <2>1 DEF View, Visible
      <3> QED
        BY <3>1 DEF Init
    <2> QED
      BY <2>2 DEF Init, Map!Init, Map!Contents, View
  <1>2. IInv /\ SaveInStep /\ [Next]_vars => [Map!Next]_(Map!vars)
    <2>1. ASSUME UNCHANGED vars PROVE UNCHANGED Map!vars
      BY <2>1, SameView DEF vars, cacheVars, Map!vars, View
    <2> QED
      BY <2>1, ClientMaps, SaveMaps, CrashMaps DEF Next
  <1>3. IInv /\ SaveInStep /\ [Next]_vars => SaveInStep'
    BY StepSaveInStep
  <1> QED
    BY <1>1, <1>2, <1>3, InitSaveInStep, Invariance, PTL DEF Spec, ImplementsMap, Map!Spec
=============================================================================
