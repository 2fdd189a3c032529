------------------------------ MODULE LruCache ------------------------------
(***************************************************************************)
(* The recency queue of crates/rgitui_workspace/src/cache.rs: the keys a   *)
(* cache holds, least recently used first.  The values are functions of    *)
(* their keys wherever the cache is used, so the queue is the cache.       *)
(***************************************************************************)
EXTENDS Naturals, Sequences, SequencesExt

Holds(cache, key) == \E i \in DOMAIN cache : cache[i] = key

\* The members of a queue that are in a set, in the order of the queue.
Kept(queue, keep) ==
    LET kept[n \in 0..Len(queue)] ==
            IF n = 0 THEN <<>>
            ELSE IF queue[n] \in keep THEN Append(kept[n - 1], queue[n]) ELSE kept[n - 1]
    IN  kept[Len(queue)]

Without(queue, key) == Kept(queue, ToSet(queue) \ {key})

Touch(cache, key) == Append(Without(cache, key), key)

\* A lookup marks the key most recently used; a miss leaves no trace.
Lookup(cache, key) == IF Holds(cache, key) THEN Touch(cache, key) ELSE cache

\* Mutant of Insert: nothing is evicted.
InsertAlways(cache, key, capacity) ==
    IF Holds(cache, key) THEN Touch(cache, key) ELSE Append(cache, key)

\* A new key evicts the least recently used one when the cache is full.
Insert(cache, key, capacity) ==
    IF Holds(cache, key) THEN Touch(cache, key)
    ELSE Append(IF Len(cache) >= capacity THEN Tail(cache) ELSE cache, key)

InsertAll(cache, keys, capacity) ==
    LET after[n \in 0..Len(keys)] ==
            IF n = 0 THEN cache ELSE Insert(after[n - 1], keys[n], capacity)
    IN  after[Len(keys)]
=============================================================================
