----------------------------- MODULE AssocArray ------------------------------
(***************************************************************************)
(* The associative array of assoc_array.c: a chained hash table            *)
(* (hashtable.h, hashtable.c) and an insertion-ordered list (list.h) over  *)
(* the same entries, with a counter of them.                               *)
(*                                                                         *)
(* A call of the library is a sequence of steps from the caller's call to  *)
(* the return: one step per malloc, per callback of the user, per          *)
(* iteration of a loop over a chain, and one step for each run of pointer  *)
(* stores between them.  The caller is anything that obeys C's rules: it   *)
(* makes one call at a time, hands over only data the array does not hold, *)
(* and forgets the array when it has freed it.  malloc may fail at every   *)
(* call and may return any address that is not in use, the one just freed  *)
(* included.                                                               *)
(*                                                                         *)
(* alive and older are history variables: the entries the array contains,  *)
(* and for each of them those that were there before it.  No step reads    *)
(* them; the invariants say the pointers agree with them.                  *)
(***************************************************************************)
EXTENDS KList, HList, Integers, FiniteSets

CONSTANTS
    Array,       \* the address of the assoc_array_t
    ListHead,        \* the address of arr->list
    Entry,       \* the addresses malloc can return for an entry
    Key,         \* the byte strings used as keys
    Data,        \* the addresses of the caller's data blocks
    Hash,        \* Hash[q]: hash32_str of key q
    NumBuckets,  \* 1 << arr->ht->bits
    Prefix       \* <<p, q>> : key p is a proper prefix of key q

\* The buckets &arr->ht->table[b], by index.
Bucket == 0 .. NumBuckets - 1

ASSUME AddressAssumption ==
    /\ {NULL, LIST_POISON1, LIST_POISON2} \cap (Entry \cup Bucket) = {}
    /\ ListHead \notin Entry \cup Poison \cup {NULL}
    /\ Array # NULL
    /\ Entry \cap Bucket = {}
    /\ NULL \notin Key \cup Data

ASSUME TableAssumption ==
    /\ NumBuckets \in Nat \ {0}
    /\ \E bits \in 0 .. 30 : NumBuckets = 2^bits

ASSUME KeyAssumption ==
    /\ Hash \in [Key -> Nat]
    /\ Prefix \subseteq Key \X Key
    /\ \A q \in Key : <<q, q>> \notin Prefix
    /\ \A p, q, r \in Key : <<p, q>> \in Prefix /\ <<q, r>> \in Prefix
                                => <<p, r>> \in Prefix

\* The four allocations that array_create makes or owns, less the entries.
Blocks == {"arr", "ht", "table"}

VARIABLES
    \* the heap and the array in it
    arr,      \* the caller's pointer: NULL or Array
    blocks,   \* the blocks of the array that are allocated
    mem,      \* the entries that are allocated
    held,     \* the data blocks the array has to release
    ht,       \* the bucket chains: ht.link and ht.pprev
    list,     \* the insertion-ordered ring: list.next and list.prev
    size,     \* arr->size
    key,      \* key[e]: the key copy of entry e
    data,     \* data[e]: the data pointer of entry e
    \* the call in progress
    pc, op, k, d, bkt, cur, tmp, ret,
    \* history
    alive, older

heap    == <<arr, blocks, mem, held>>
fields  == <<key, data>>
links   == <<ht, list, size>>
call    == <<op, k, d>>
cursor  == <<bkt, cur, tmp>>
history == <<alive, older>>
vars    == <<heap, fields, links, call, cursor, history, pc, ret>>

EINVAL == 22

\* calc_bkt(num, divisor): num & (divisor - 1), divisor a power of two.
calc_bkt(num, divisor) == num % divisor

BucketOf(q) == calc_bkt(Hash[q], NumBuckets)

\* The outcomes of memcmp(stored, query, length of query) == 0: the length of
\* the stored key is not looked at.  A query longer than a stored key that it
\* extends reads past the copy, and the bytes there may be anything.
KeyMatches(stored, query) ==
    IF stored = query \/ <<query, stored>> \in Prefix THEN {TRUE}
    ELSE IF <<stored, query>> \in Prefix THEN BOOLEAN
    ELSE {FALSE}

-----------------------------------------------------------------------------
(* The state at the start: no array, nothing allocated. *)

Init ==
    /\ arr = NULL /\ blocks = {} /\ mem = {} /\ held = {}
    /\ ht = [link  |-> [s \in Bucket \cup Entry |-> NULL],
             pprev |-> [e \in Entry |-> LIST_POISON2]]
    /\ list = [next |-> [x \in Entry \cup {ListHead} |-> LIST_POISON1],
               prev |-> [x \in Entry \cup {ListHead} |-> LIST_POISON2]]
    /\ size = 0
    /\ key  = [e \in Entry |-> NULL]
    /\ data = [e \in Entry |-> NULL]
    /\ pc = "idle" /\ op = "none" /\ k = NULL /\ d = NULL
    /\ bkt = 0 /\ cur = NULL /\ tmp = NULL /\ ret = NULL
    /\ alive = {} /\ older = [e \in Entry |-> {}]

\* The caller calls function f with key q and data v.
Call(f, q, v) ==
    /\ pc = "idle"
    /\ op' = f /\ k' = q /\ d' = v

\* The call in progress returns r.
Return(r) ==
    /\ pc' = "idle"
    /\ ret' = r
    /\ bkt' = 0 /\ cur' = NULL /\ tmp' = NULL

\* The call in progress goes on at step s.
Goto(s) == pc' = s /\ UNCHANGED ret

-----------------------------------------------------------------------------
(* array_create *)

\* malloc(sizeof(assoc_array_t))
Create ==
    /\ Call("create", NULL, NULL)
    /\ arr = NULL
    /\ \/ Return(NULL) /\ UNCHANGED blocks
       \/ blocks' = {"arr"} /\ Goto("create_ht") /\ UNCHANGED cursor
    /\ UNCHANGED <<arr, mem, held, fields, links, history>>

\* ht_create: malloc(sizeof(hashtable_t)).  When it fails array_create frees arr.
CreateHt ==
    /\ pc = "create_ht"
    /\ \/ blocks' = blocks \ {"arr"} /\ Return(NULL)
       \/ blocks' = blocks \cup {"ht"} /\ Goto("create_table") /\ UNCHANGED cursor
    /\ UNCHANGED <<arr, mem, held, fields, links, history, call>>

\* hashtable_init: every bucket's head is NULL.
hashtable_init(h) ==
    [h EXCEPT !.link = [s \in Bucket \cup Entry |-> IF s \in Bucket THEN NULL ELSE h.link[s]]]

\* The end of array_create: an empty array.
EmptyArray ==
    /\ list' = K_INIT_LIST_HEAD(list, ListHead)
    /\ size' = 0
    /\ arr' = Array
    /\ Return(Array)

\* ht_create: malloc of the table, hashtable_init; then the rest of array_create.
\* When it fails ht_create frees ht and array_create frees arr.
CreateTable ==
    /\ pc = "create_table"
    /\ \/ /\ blocks' = (blocks \ {"ht"}) \ {"arr"}
          /\ Return(NULL)
          /\ UNCHANGED <<arr, links>>
       \/ /\ blocks' = blocks \cup {"table"}
          /\ ht' = hashtable_init(ht)
          /\ EmptyArray
    /\ UNCHANGED <<mem, held, fields, history, call>>

-----------------------------------------------------------------------------
(* Calls that return at once *)

\* Every function returns when it is given a NULL array.
CallOnNull ==
    /\ arr = NULL
    /\ \E f \in {"add", "replace", "free", "del_first", "del_last",
                 "get", "get_first", "get_last", "del"} :
          /\ Call(f, NULL, NULL)
          /\ Return(CASE f \in {"get", "get_first", "get_last"} -> NULL
                      [] f = "del" -> EINVAL
                      [] OTHER -> -1)
    /\ UNCHANGED <<heap, fields, links, history>>

\* A mutant of ListEmpty: nobody looks.
NeverEmpty == FALSE

\* k_list_empty(&arr->list) || arr->size == 0
ListEmpty == k_list_empty(list, ListHead) \/ size = 0

\* A mutant of EndOf: the ends are swapped.
OtherEndOf(f) ==
    IF f \in {"get_last", "del_last"} THEN k_list_first(list, ListHead)
    ELSE k_list_last(list, ListHead)

\* The entry at the end of the list that function f is for: is_first.
EndOf(f) ==
    IF f \in {"get_first", "del_first"} THEN k_list_first(list, ListHead)
    ELSE k_list_last(list, ListHead)

\* _array_get_first
GetEnd ==
    /\ arr # NULL
    /\ \E f \in {"get_first", "get_last"} :
          /\ Call(f, NULL, NULL)
          /\ Return(IF ListEmpty THEN NULL ELSE EndOf(f))
    /\ UNCHANGED <<heap, fields, links, history>>

-----------------------------------------------------------------------------
(* array_get_by_key: the search that array_del and array_add_replace share *)

Search ==
    /\ arr # NULL
    /\ \E q \in Key :
          /\ \/ Call("get", q, NULL)
             \/ Call("del", q, NULL)
             \/ \E v \in Data \ held : Call("replace", q, v)
          /\ bkt' = BucketOf(q)
          /\ cur' = ht.link[BucketOf(q)]
    /\ tmp' = NULL
    /\ Goto("search")
    /\ UNCHANGED <<heap, fields, links, history>>

\* The loop ends: array_del(..) returns 1, array_add_replace goes on to add.
SearchEnd ==
    /\ pc = "search"
    /\ cur = NULL
    /\ \/ op = "get" /\ Return(NULL)
       \/ op = "del" /\ Return(1)
       \/ op = "replace" /\ Goto("malloc_entry") /\ UNCHANGED cursor
    /\ UNCHANGED <<heap, fields, links, history, call>>

\* memcmp says the keys are equal.
SearchHit ==
    /\ pc = "search"
    /\ cur # NULL
    /\ TRUE \in KeyMatches(key[cur], k)
    /\ \/ op = "get" /\ Return(cur)
       \/ op \in {"del", "replace"} /\ Goto("unlink") /\ UNCHANGED cursor
    /\ UNCHANGED <<heap, fields, links, history, call>>

\* Mutants of chain_next: the walk of a chain ends at once, or starts again.
chain_end(e) == NULL
chain_again(e) == ht.link[bkt]

\* hlist_for_each_entry_safe: the entry behind e.
chain_next(e) == ht.link[e]

\* memcmp says they differ: the walk goes on.
SearchNext ==
    /\ pc = "search"
    /\ cur # NULL
    /\ FALSE \in KeyMatches(key[cur], k)
    /\ cur' = chain_next(cur)
    /\ UNCHANGED <<heap, fields, links, history, call, bkt, tmp, pc, ret>>

-----------------------------------------------------------------------------
(* array_del, _array_del_first and the first half of array_add_replace *)

\* _array_del_first chooses the entry.
DelEnd ==
    /\ arr # NULL
    /\ \E f \in {"del_first", "del_last"} :
          /\ Call(f, NULL, NULL)
          /\ \/ ListEmpty /\ Return(-1)
             \/ /\ ~ListEmpty
                /\ cur' = EndOf(f)
                /\ Goto("unlink") /\ UNCHANGED <<bkt, tmp>>
    /\ UNCHANGED <<heap, fields, links, history>>

\* Entry e leaves the history variables.
Forget(e) ==
    /\ alive' = alive \ {e}
    /\ older' = [x \in Entry |-> IF x = e THEN {} ELSE older[x] \ {e}]

\* hlist_del(&e->hnode); k_list_del(&e->lnode)
Unlink ==
    /\ pc = "unlink"
    /\ ht' = hlist_del(ht, cur)
    /\ list' = k_list_del(list, cur)
    /\ Forget(cur)
    /\ Goto("free_entry")
    /\ UNCHANGED <<heap, fields, size, call, cursor>>

\* A mutant of free_assoc_array_entry: the data is not freed.
free_all_but_data(e) ==
    /\ key'  = [key EXCEPT ![e] = NULL]
    /\ data' = [data EXCEPT ![e] = NULL]
    /\ mem'  = mem \ {e}
    /\ UNCHANGED held

\* free_assoc_array_entry, the default free_entry: the data, the key copy and
\* the entry itself.
free_assoc_array_entry(e) ==
    /\ held' = held \ {data[e]}
    /\ key'  = [key EXCEPT ![e] = NULL]
    /\ data' = [data EXCEPT ![e] = NULL]
    /\ mem'  = mem \ {e}

\* arr->free_entry(e)
FreeEntry ==
    /\ pc = "free_entry"
    /\ free_assoc_array_entry(cur)
    /\ Goto("shrink")
    /\ UNCHANGED <<arr, blocks, links, history, call, cursor>>

\* A mutant of Shrink: array_add_replace leaves the counter to array_add.
ShrinkUnlessReplacing ==
    /\ pc = "shrink"
    /\ \/ op # "replace" /\ size' = size - 1 /\ Return(0)
       \/ op = "replace" /\ Goto("malloc_entry") /\ UNCHANGED <<size, cursor>>
    /\ UNCHANGED <<heap, fields, ht, list, history, call>>

\* arr->size--; array_add_replace ignores the result of array_del.
Shrink ==
    /\ pc = "shrink"
    /\ size' = size - 1
    /\ \/ op # "replace" /\ Return(0)
       \/ op = "replace" /\ Goto("malloc_entry") /\ UNCHANGED cursor
    /\ UNCHANGED <<heap, fields, ht, list, history, call>>

-----------------------------------------------------------------------------
(* array_add *)

Add ==
    /\ arr # NULL
    /\ \E q \in Key, v \in Data \ held : Call("add", q, v)
    /\ Goto("malloc_entry")
    /\ UNCHANGED <<heap, fields, links, history, cursor>>

\* malloc(sizeof(assoc_array_entry_t)): it fails, or gives an unused address.
MallocEntry ==
    /\ pc = "malloc_entry"
    /\ \/ Return(-1) /\ UNCHANGED mem
       \/ \E e \in Entry \ mem :
             /\ mem' = mem \cup {e}
             /\ cur' = e
             /\ Goto("fill_entry") /\ UNCHANGED <<bkt, tmp>>
    /\ UNCHANGED <<arr, blocks, held, fields, links, history, call>>

\* fill_assoc_array_entry, the default fill_entry, when the key copy can be
\* allocated: the data is the array's from here on.
fill_assoc_array_entry(e) ==
    /\ key'  = [key EXCEPT ![e] = k]
    /\ data' = [data EXCEPT ![e] = d]
    /\ held' = held \cup {d}

\* A mutant of FillEntry: when the key copy fails the entry is not freed.
FillOrForget ==
    /\ pc = "fill_entry"
    /\ \/ Return(-1) /\ UNCHANGED <<mem, held, fields>>
       \/ /\ fill_assoc_array_entry(cur)
          /\ Goto("link") /\ UNCHANGED <<mem, cursor>>
    /\ UNCHANGED <<arr, blocks, links, history, call>>

\* arr->fill_entry(new_entry, ..).  When it fails array_add frees the entry, and
\* the data stays with the caller.
FillEntry ==
    /\ pc = "fill_entry"
    /\ \/ /\ mem' = mem \ {cur}
          /\ Return(-1)
          /\ UNCHANGED <<held, fields>>
       \/ /\ fill_assoc_array_entry(cur)
          /\ Goto("link") /\ UNCHANGED <<mem, cursor>>
    /\ UNCHANGED <<arr, blocks, links, history, call>>

\* hashtable_add; k_list_add_tail; arr->size++.
LinkEntry ==
    /\ pc = "link"
    /\ ht'   = hlist_add_head(ht, cur, BucketOf(k))
    /\ list' = k_list_add_tail(list, cur, ListHead)
    /\ size' = size + 1
    /\ alive' = alive \cup {cur}
    /\ older' = [older EXCEPT ![cur] = alive]
    /\ Return(0)
    /\ UNCHANGED <<heap, fields, call>>

-----------------------------------------------------------------------------
(* array_free: HT_FREE over the table; the ring is not unlinked *)

Free ==
    /\ arr # NULL
    /\ Call("free", NULL, NULL)
    /\ bkt' = 0 /\ cur' = ht.link[0] /\ tmp' = NULL
    /\ Goto("clear")
    /\ UNCHANGED <<heap, fields, links, history>>

\* One entry of CLEAR_HASHTABLE_BITS: tmp is read, then hash_del.
ClearUnlink ==
    /\ pc = "clear"
    /\ cur # NULL
    /\ tmp' = chain_next(cur)
    /\ ht'  = hlist_del_init(ht, cur)
    /\ Forget(cur)
    /\ Goto("clear_entry")
    /\ UNCHANGED <<heap, fields, list, size, call, bkt, cur>>

\* free_func(cur); the iterator goes on at tmp.
ClearEntry ==
    /\ pc = "clear_entry"
    /\ free_assoc_array_entry(cur)
    /\ cur' = tmp
    /\ Goto("clear")
    /\ UNCHANGED <<arr, blocks, links, history, call, bkt, tmp>>

\* The chain is done: the next bucket of hash_for_each_safe_bits.
ClearBucket ==
    /\ pc = "clear"
    /\ cur = NULL
    /\ bkt + 1 < NumBuckets
    /\ bkt' = bkt + 1
    /\ cur' = ht.link[bkt + 1]
    /\ UNCHANGED <<heap, fields, links, history, call, tmp, pc, ret>>

\* free(ht->table), free(ht), free(arr): the caller's pointer is dead.
FreeArray ==
    /\ pc = "clear"
    /\ cur = NULL
    /\ bkt + 1 >= NumBuckets
    /\ blocks' = {}
    /\ arr' = NULL
    /\ Return(0)
    /\ UNCHANGED <<mem, held, fields, links, history, call>>

-----------------------------------------------------------------------------
\* The steps of the library, and the calls of the program that uses it.
Step ==
    \/ CreateHt \/ CreateTable
    \/ SearchEnd \/ SearchHit \/ SearchNext
    \/ Unlink \/ FreeEntry \/ Shrink
    \/ MallocEntry \/ FillEntry \/ LinkEntry
    \/ ClearUnlink \/ ClearEntry \/ ClearBucket \/ FreeArray

Calls ==
    \/ Create \/ CallOnNull \/ GetEnd \/ Search \/ DelEnd \/ Add \/ Free

Next == Calls \/ Step

Spec == Init /\ [][Next]_vars

\* A call that has begun is executed: the program is one thread, and nothing in
\* the library waits.  Nothing makes the program call.
FairSpec == Spec /\ WF_vars(Step)
==============================================================================
