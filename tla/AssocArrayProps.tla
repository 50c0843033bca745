--------------------------- MODULE AssocArrayProps ---------------------------
(***************************************************************************)
(* What assoc_array.c keeps true, between calls and in the middle of them. *)
(***************************************************************************)
EXTENDS AssocArray

Clearing == pc \in {"clear", "clear_entry"}

\* The entry the step in progress has allocated or taken out, in no structure.
InFlight == IF pc \in {"fill_entry", "link", "free_entry", "clear_entry"}
            THEN {cur} ELSE {}

\* The entries whose key and data are set.
Filled == IF pc \in {"link", "free_entry", "clear_entry"}
          THEN alive \cup {cur} ELSE alive

\* Type invariant.  A hash chain slot and a ring node can hold poison, and ret
\* is what the last call returned: a code, an entry, the array or NULL.
TypeOK ==
    /\ arr \in {NULL, Array}
    /\ blocks \subseteq Blocks
    /\ alive \subseteq mem /\ mem \subseteq Entry /\ held \subseteq Data
    /\ ht \in [link  : [Bucket \cup Entry -> Entry \cup {NULL} \cup Poison],
               pprev : [Entry -> Bucket \cup Entry \cup {NULL} \cup Poison]]
    /\ list \in [next : [Entry \cup {ListHead} -> Entry \cup {ListHead} \cup Poison],
                 prev : [Entry \cup {ListHead} -> Entry \cup {ListHead} \cup Poison]]
    /\ size \in Nat
    /\ key  \in [Entry -> Key \cup {NULL}]
    /\ data \in [Entry -> Data \cup {NULL}]
    /\ pc \in {"idle", "create_ht", "create_table", "search", "unlink",
               "free_entry", "shrink", "malloc_entry", "fill_entry", "link",
               "clear", "clear_entry"}
    /\ op \in {"none", "create", "add", "replace", "free", "del", "del_first",
               "del_last", "get", "get_first", "get_last"}
    /\ k \in Key \cup {NULL} /\ d \in Data \cup {NULL}
    /\ bkt \in Bucket
    /\ cur \in Entry \cup {NULL} /\ tmp \in Entry \cup {NULL}
    /\ ret \in {-1, 0, 1, EINVAL, NULL, Array} \cup Entry
    /\ older \in [Entry -> SUBSET Entry]

\* The entries of S that come after node x, in the order o: o[y] is the set of
\* the entries that were there before y.
After(S, o, x) == {y \in S : x = ListHead \/ x \in o[y]}

\* Ring l links exactly the entries of S, in the order o: next goes from the head
\* to the oldest entry and from each entry to the oldest of those after it, and
\* prev undoes next.
RingOf(l, S, o) ==
    \A x \in S \cup {ListHead} :
        /\ l.next[x] = ListHead => After(S, o, x) = {}
        /\ l.next[x] # ListHead => l.next[x] \in After(S, o, x)
        /\ \A y \in After(S, o, x) \ {l.next[x]} : l.next[x] \in o[y]
        /\ l.prev[l.next[x]] = x
        /\ l.prev[x] \in S \cup {ListHead}
        /\ l.next[l.prev[x]] = x

\* arr->list holds exactly the array's entries in the order they were added.
\* array_free alone leaves the ring behind (HT_FREE walks the table), so nothing
\* is claimed while it runs.
RingInOrder == arr # NULL /\ ~Clearing => RingOf(list, alive, older)

\* The entries of S that a chain holds behind slot s, in the order o, when entry
\* y has the key q[y]: all that hash to a bucket, and those of the same bucket
\* that are older than an entry.
Behind(S, o, q, s) ==
    IF s \in Bucket THEN {y \in S : BucketOf(q[y]) = s}
    ELSE {y \in o[s] : BucketOf(q[y]) = BucketOf(q[s])}

\* The chains of h hold exactly the entries of S, each in the bucket of its key,
\* newest first, and every pprev is the slot that points at the entry.
ChainsOf(h, S, o, q) ==
    /\ \A s \in Bucket \cup S :
          /\ h.link[s] = NULL => Behind(S, o, q, s) = {}
          /\ h.link[s] # NULL =>
                /\ h.link[s] \in Behind(S, o, q, s)
                /\ h.pprev[h.link[s]] = s
          /\ \A y \in Behind(S, o, q, s) \ {h.link[s]} : y \in o[h.link[s]]
    /\ \A e \in S :
          /\ h.pprev[e] \in Bucket \cup S
          /\ h.link[h.pprev[e]] = e

\* The table's chains hold exactly the array's entries, so that hlist_del can be
\* called on any of them.  It holds in the middle of array_free too.
ChainsNewestFirst == arr # NULL => ChainsOf(ht, alive, older, key)

\* arr->size counts the entries of the table and the ring.  array_del lowers it
\* only after the callback: in free_entry it is one too high.
SizeExact ==
    arr # NULL /\ ~Clearing =>
        size = Cardinality(alive) + (IF pc \in {"free_entry", "shrink"} THEN 1 ELSE 0)

\* No step uses an entry that is not allocated and in the structure the step
\* takes it for, and what is allocated is what the array contains plus the one
\* entry in flight: no use after free, no double free, no entry lost on an error
\* path of array_add or between Unlink and free_entry.
HeapExact ==
    /\ mem = alive \cup InFlight
    /\ alive \cap InFlight = {}
    /\ pc \in {"search", "clear"} => cur \in alive \cup {NULL}
    /\ pc = "unlink" => cur \in alive
    /\ pc = "clear_entry" => tmp \in alive \cup {NULL}
    /\ arr # NULL => blocks = Blocks

\* A data block given to the array belongs to exactly one entry until free_entry
\* releases it, and after a failed call it is the caller's again.
DataHeldOnce ==
    /\ held = {data[e] : e \in Filled}
    /\ \A x, y \in Filled : data[x] = data[y] => x = y

\* array_free, and an array_create that failed half way, leave nothing behind.
NothingLeft ==
    arr = NULL /\ pc = "idle" => mem = {} /\ held = {} /\ blocks = {}

\* The newest entry among those that have key q exactly, as a search sees it: e
\* is not older than any of them.
NotOlderThanAny(e, q) ==
    \A y \in alive : key[y] = q => y = e \/ y \in older[e]

\* Search never misses a key: array_get_by_key returns NULL, and array_del 1,
\* only if no entry has the key; and an entry that array_get_by_key returns is
\* one that memcmp accepts, with every entry of exactly that key behind it, so
\* that an entry added again shadows the older ones.
LookupMissesNothing ==
    pc = "idle" /\ k # NULL =>
        /\ (op = "get" /\ ret = NULL) \/ (op = "del" /\ ret = 1)
              => \A y \in alive : key[y] # k
        /\ op = "get" /\ ret # NULL
              => /\ ret \in alive
                 /\ TRUE \in KeyMatches(key[ret], k)
                 /\ NotOlderThanAny(ret, k)

\* An entry leaves the array only by a call that asks for it: array_del and
\* array_add_replace take one that memcmp accepts and that is not older than any
\* entry of the key, array_del_first the oldest entry, array_del_last the
\* newest, and array_free any.  So an entry pointer that a getter returned stays
\* valid through every other call.
RemovesOnlyTheOneAsked ==
    [][\A e \in alive \ alive' :
          \/ /\ op \in {"del", "replace"}
             /\ TRUE \in KeyMatches(key[e], k)
             /\ NotOlderThanAny(e, k)
          \/ op = "del_first" /\ older[e] = {}
          \/ op = "del_last" /\ older[e] = alive \ {e}
          \/ op = "free"]_vars

\* Every call returns: the walk of a chain and the loop of array_free end.
CallReturns == pc # "idle" ~> pc = "idle"

-----------------------------------------------------------------------------
(* The inductive invariant: what every step may rely on. *)

\* o orders S strictly and totally.
Ordered(S, o) ==
    /\ o \in [Entry -> SUBSET S]
    /\ \A x \in S : x \notin o[x]
    /\ \A x, y \in S : x # y => (x \in o[y] <=> y \notin o[x])
    /\ \A x, y, z \in S : x \in o[y] /\ y \in o[z] => x \in o[z]

\* Which call is in progress at a step, and what its arguments are.
CallOK ==
    /\ pc \in {"create_ht", "create_table"} => op = "create"
    /\ pc = "search" => op \in {"get", "del", "replace"}
    /\ pc \in {"unlink", "free_entry", "shrink"} =>
          op \in {"del", "replace", "del_first", "del_last"}
    /\ pc \in {"malloc_entry", "fill_entry", "link"} => op \in {"add", "replace"}
    /\ Clearing => op = "free"
    /\ pc # "idle" /\ op \in {"get", "del", "add", "replace"} => k \in Key
    /\ pc # "idle" /\ op \in {"add", "replace"} =>
          d \in Data /\ (pc # "link" => d \notin held)
    /\ pc = "link" => key[cur] = k /\ data[cur] = d

\* The array is there or half made, and what is allocated for it.
ArrayOK ==
    /\ arr = NULL => pc \in {"idle", "create_ht", "create_table"} /\ alive = {}
    /\ arr = NULL /\ pc = "idle" => blocks = {}
    /\ pc = "create_ht" => arr = NULL /\ blocks = {"arr"}
    /\ pc = "create_table" => arr = NULL /\ blocks = {"arr", "ht"}
    /\ IsFiniteSet(alive)
    /\ \A e \in alive : key[e] \in Key

\* A search is in the chain of its bucket, and has passed no entry of its key;
\* the entry about to be removed is the one that was asked for.
SearchOK ==
    /\ pc = "search" =>
          /\ bkt = BucketOf(k)
          /\ cur # NULL => cur \in alive /\ BucketOf(key[cur]) = bkt
          /\ \A y \in alive : key[y] = k => cur # NULL /\ (y = cur \/ y \in older[cur])
    /\ pc = "unlink" =>
          /\ op \in {"del", "replace"} =>
                TRUE \in KeyMatches(key[cur], k) /\ NotOlderThanAny(cur, k)
          /\ op = "del_first" => older[cur] = {}
          /\ op = "del_last" => older[cur] = alive \ {cur}

\* array_free has emptied the buckets below bkt and is at the head of bucket bkt.
ClearOK ==
    Clearing =>
        /\ \A e \in alive : BucketOf(key[e]) >= bkt
        /\ pc = "clear" => cur = ht.link[bkt]
        /\ pc = "clear_entry" => tmp = ht.link[bkt]

IndInv ==
    /\ TypeOK
    /\ Ordered(alive, older)
    /\ RingInOrder /\ ChainsNewestFirst
    /\ SizeExact /\ HeapExact /\ DataHeldOnce
    /\ CallOK /\ ArrayOK /\ SearchOK /\ ClearOK

-----------------------------------------------------------------------------
(* A client that never calls array_add: the array as a map. *)

MapNext == Next /\ op' # "add"
MapSpec == Init /\ [][MapNext]_vars

\* A program that adds with array_add_replace only never has two entries of one
\* key, whatever fails and whichever keys collide.
UniqueKeys == \A x, y \in alive : key[x] = key[y] => x = y

-----------------------------------------------------------------------------
\* array_del deletes an entry of the key it was given, so that deleting a deleted
\* key again fails: what test_assoc_array.c:260 expects.  Hits that come from
\* reading past a key copy, of a stored key shorter than k, are left aside.
DelTakesItsKey ==
    pc = "unlink" /\ op = "del" /\ <<key[cur], k>> \notin Prefix => key[cur] = k
==============================================================================
