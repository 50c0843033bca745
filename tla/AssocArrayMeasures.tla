------------------------- MODULE AssocArrayMeasures --------------------------
(***************************************************************************)
(* The functions that only count: they walk every chain of the table and   *)
(* change nothing, so each is an operator on the state.                    *)
(***************************************************************************)
EXTENDS AssocArrayProps, FiniteSetsExt

\* hlist_for_each_entry over the chain of bucket b, counting.  A chain longer
\* than the heap is a cycle, and is given up.
ChainLength(b) ==
    LET n == Cardinality(Entry) + 1
        from[i \in 0 .. n] ==
            [s \in Bucket \cup Entry |->
                IF i = 0 \/ ht.link[s] = NULL THEN 0 ELSE 1 + from[i - 1][ht.link[s]]]
    IN  from[n][b]

COUNT_ENTRIES_IN_HASHTABLE == MapThenSumSet(ChainLength, Bucket)

\* A mutant of array_collision_percent: the first entry of a chain counts too.
percent_in_long_chains ==
    IF arr = NULL \/ size = 0 THEN 0
    ELSE LET collisions(b) == IF ChainLength(b) > 1 THEN ChainLength(b) ELSE 0
         IN  (MapThenSumSet(collisions, Bucket) * 100) \div size

\* Every entry of a chain but the first is a collision; the result is in percent
\* of arr->size, rounded down.
array_collision_percent ==
    IF arr = NULL \/ size = 0 THEN 0
    ELSE LET collisions(b) == IF ChainLength(b) > 1 THEN ChainLength(b) - 1 ELSE 0
         IN  (MapThenSumSet(collisions, Bucket) * 100) \div size

\* Between two calls the table holds as many entries as the array says it has,
\* and the collision percentage is that of the keys in it: all the entries but
\* one for each bucket some key hashes to.
MeasuresAgree ==
    arr # NULL /\ pc = "idle" =>
        LET n    == Cardinality(alive)
            used == Cardinality({BucketOf(key[e]) : e \in alive})
        IN  /\ COUNT_ENTRIES_IN_HASHTABLE = size
            /\ array_collision_percent = IF n = 0 THEN 0 ELSE ((n - used) * 100) \div n
==============================================================================
