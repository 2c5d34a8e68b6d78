-------------------------------- MODULE Cache --------------------------------
(***************************************************************************)
(* The cache of what is known about peers (CCache of cache.h, with         *)
(* CInfoBlock of cache.cpp): a list of items, the latest update first, and *)
(* for each hash value a list of iterators into it.  Iterators are item    *)
(* identities; one that is left behind when its item is deleted dangles.   *)
(* Whatever is put into a list is put at its front and is newer than all   *)
(* that is there, so a list is the set of its items, the newest first.     *)
(***************************************************************************)
EXTENDS Integers, FiniteSets

CONSTANTS
    Addrs,      \* addresses of peers (m_piIP)
    KeyOf,      \* getKey() of an address; an IPv4 address may be negative
    CacheMax,   \* m_iMaxSize
    HashSize,   \* m_iHashSize, three times m_iMaxSize
    MaxUpdates  \* bound on the updates of a behaviour

ASSUME CacheAssumption ==
    /\ KeyOf \in [Addrs -> Int]
    /\ {CacheMax, HashSize, MaxUpdates} \subseteq Nat \ {0}
    /\ CacheMax <= HashSize

VARIABLES
    cStore,    \* m_StorageList: items with identity, address and value
    cBucket,   \* m_vHashPtr: the identities listed for each hash value
    cUpdates,  \* how many updates there were; gives identities and values
    cLatest,   \* the last update of each address, 0 for none
    cCrossed   \* an item was evicted whose hash value is not that of the new one

cacheVars == <<cStore, cBucket, cUpdates, cLatest, cCrossed>>

Bucket(a) == IF KeyOf[a] >= CacheMax THEN KeyOf[a] % HashSize ELSE KeyOf[a]

\* The items that the iterators of a bucket refer to, and those of address a.
Referred(store, ids) == {x \in store : x.id \in ids}
Matching(store, ids, a) == {x \in Referred(store, ids) : x.addr = a}

Dangles(store, ids) == \E id \in ids : \A x \in store : x.id # id

\* The front and the back of a list.
Newest(items) == CHOOSE x \in items : \A y \in items : y.id <= x.id
Oldest(items) == CHOOSE x \in items : \A y \in items : x.id <= y.id

\* lookup: the value found, 0 if none.
CacheLookup(a) ==
    LET found == Matching(cStore, cBucket[Bucket(a)], a)
    IN IF KeyOf[a] < 0 \/ found = {} THEN 0 ELSE Newest(found).value

\* Mutant of CacheReplace: the old item stays.
CacheReplaceKeeps(a, item) ==
    /\ cStore' = cStore \cup {item}
    /\ cBucket' = [cBucket EXCEPT ![Bucket(a)] = @ \cup {item.id}]
    /\ UNCHANGED cCrossed

\* update of an address that is in the cache: its item moves to the front of
\* both lists (and so gets a new identity).
CacheReplace(a, item) ==
    LET old == Newest(Matching(cStore, cBucket[Bucket(a)], a)) IN
    /\ cStore' = (cStore \ {old}) \cup {item}
    /\ cBucket' = [cBucket EXCEPT ![Bucket(a)] = (@ \ {old.id}) \cup {item.id}]
    /\ UNCHANGED cCrossed

\* update of a new address.  When the cache is full its oldest item goes: the
\* reference item_list, which still names the new item's bucket, is assigned
\* the bucket of the oldest item, and the iterator is erased from that copy.
CacheInsert(a, item) ==
    LET store == cStore \cup {item}
        bucket == [cBucket EXCEPT ![Bucket(a)] = @ \cup {item.id}]
        last == Oldest(store)
        source == bucket[KeyOf[last.addr] % HashSize]
        found == Matching(store, source, last.addr)
        copy == IF found = {} THEN source ELSE source \ {Newest(found).id}
    IN IF Cardinality(store) >= CacheMax
       THEN /\ ~Dangles(store, source)
            /\ cStore' = store \ {last}
            /\ cBucket' = [bucket EXCEPT ![Bucket(a)] = copy]
            /\ cCrossed' = (cCrossed \/ Bucket(last.addr) # Bucket(a))
       ELSE cStore' = store /\ cBucket' = bucket /\ UNCHANGED cCrossed

\* A bucket with a dangling iterator is not searched here: the code would read
\* memory that was freed.
CacheUpdate(a) ==
    LET item == [id |-> cUpdates + 1, addr |-> a, value |-> cUpdates + 1] IN
    /\ cUpdates < MaxUpdates
    /\ cUpdates' = cUpdates + 1
    /\ IF KeyOf[a] < 0 THEN UNCHANGED <<cStore, cBucket, cLatest, cCrossed>>
       ELSE /\ ~Dangles(cStore, cBucket[Bucket(a)])
            /\ cLatest' = [cLatest EXCEPT ![a] = item.value]
            /\ IF Matching(cStore, cBucket[Bucket(a)], a) # {} THEN CacheReplace(a, item)
               ELSE CacheInsert(a, item)

CacheInit ==
    /\ cStore = {} /\ cBucket = [k \in 0..HashSize - 1 |-> {}]
    /\ cUpdates = 0 /\ cLatest = [a \in Addrs |-> 0] /\ cCrossed = FALSE

CacheNext == \E a \in Addrs : CacheUpdate(a)
CacheSpec == CacheInit /\ [][CacheNext]_cacheVars

-----------------------------------------------------------------------------
\* Until an eviction has crossed buckets, the hash lists lead to exactly the
\* items that are stored, an address has at most one item, with its latest
\* value, and what is stored is what was updated last (CCache::update).
CacheExact ==
    ~cCrossed =>
      /\ \A a \in Addrs :
           LET stored == {x \in cStore : x.addr = a} IN
           /\ \A x, y \in stored : x = y
           /\ CacheLookup(a) = IF stored = {} THEN 0 ELSE cLatest[a]
      /\ \A k \in DOMAIN cBucket : ~Dangles(cStore, cBucket[k])
      /\ LET stored == {x.addr : x \in cStore} IN
         \A a \in stored, b \in Addrs \ stored : cLatest[a] > cLatest[b]

\* The address that was updated last is found (cache.h:135, "update an item in
\* the cache, or insert one if it doesn't exist").
LatestIsFound ==
    \A a \in Addrs : cUpdates > 0 /\ cLatest[a] = cUpdates => CacheLookup(a) = cUpdates
=============================================================================
