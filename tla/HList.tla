-------------------------------- MODULE HList --------------------------------
(***************************************************************************)
(* The hlist of list.h: the singly headed list the hash table's buckets    *)
(* are made of.                                                            *)
(*                                                                         *)
(* A slot is a word of memory that holds a pointer to a node: the field    *)
(* first of a head, written as the head itself, or the field next of a     *)
(* node, written as the node itself.  h.link[s] is the content of slot s,  *)
(* and h.pprev[n], the address of the slot that points at n, is a slot.    *)
(* So *pprev = x in C is link[pprev] = x here.                             *)
(***************************************************************************)

EXTENDS Pointers

hlist_unhashed(h, n) == h.pprev[n] = NULL

\* A mutant of hlist_unlink: the successor's pprev still names n.
hlist_unlink_forward(h, n) ==
    [h EXCEPT !.link[h.pprev[n]] = h.link[n]]

\* __hlist_del: the slot that pointed at n points at n's successor.
hlist_unlink(h, n) ==
    LET next == h.link[n]
        slot == h.pprev[n]
    IN  [link  |-> [h.link EXCEPT ![slot] = next],
         pprev |-> IF next = NULL THEN h.pprev
                   ELSE [h.pprev EXCEPT ![next] = slot]]

hlist_del(h, n) ==
    LET g == hlist_unlink(h, n)
    IN  [link  |-> [g.link EXCEPT ![n] = LIST_POISON1],
         pprev |-> [g.pprev EXCEPT ![n] = LIST_POISON2]]

\* INIT_HLIST_NODE
hlist_init_node(h, n) ==
    [link  |-> [h.link EXCEPT ![n] = NULL],
     pprev |-> [h.pprev EXCEPT ![n] = NULL]]

hlist_del_init(h, n) ==
    IF hlist_unhashed(h, n) THEN h ELSE hlist_init_node(hlist_unlink(h, n), n)

\* A mutant of hlist_add_head: n goes behind the first node of the chain.
hlist_add_second(h, n, head) ==
    LET first == h.link[head]
        slot  == IF first = NULL THEN head ELSE first
        next  == h.link[slot]
    IN  [link  |-> [h.link EXCEPT ![n] = next, ![slot] = n],
         pprev |-> IF next = NULL THEN [h.pprev EXCEPT ![n] = slot]
                   ELSE [h.pprev EXCEPT ![next] = n, ![n] = slot]]

hlist_add_head(h, n, head) ==
    LET first == h.link[head]
    IN  [link  |-> [h.link EXCEPT ![n] = first, ![head] = n],
         pprev |-> IF first = NULL THEN [h.pprev EXCEPT ![n] = head]
                   ELSE [h.pprev EXCEPT ![first] = n, ![n] = head]]

hlist_empty(h, head) == h.link[head] = NULL

\* A mutant of hlist_add_before: the successor's pprev is left behind.
hlist_add_before_only(h, n, next) ==
    [link  |-> [h.link EXCEPT ![n] = next, ![h.pprev[next]] = n],
     pprev |-> [h.pprev EXCEPT ![n] = h.pprev[next]]]

hlist_add_before(h, n, next) ==
    [link  |-> [h.link EXCEPT ![n] = next, ![h.pprev[next]] = n],
     pprev |-> [h.pprev EXCEPT ![n] = h.pprev[next], ![next] = n]]

hlist_add_behind(h, n, prev) ==
    LET next == h.link[prev]
    IN  [link  |-> [h.link EXCEPT ![n] = next, ![prev] = n],
         pprev |-> IF next = NULL THEN [h.pprev EXCEPT ![n] = prev]
                   ELSE [h.pprev EXCEPT ![n] = prev, ![next] = n]]

\* A node that points at itself can be deleted like one in a chain.
hlist_add_fake(h, n) == [h EXCEPT !.pprev[n] = n]

hlist_fake(h, n) == h.pprev[n] = n

hlist_move_list(h, old, new) ==
    LET first == h.link[old]
    IN  [link  |-> [h.link EXCEPT ![new] = first, ![old] = NULL],
         pprev |-> IF first = NULL THEN h.pprev ELSE [h.pprev EXCEPT ![first] = new]]

\* hash_hashed and __hash_empty of hashtable.h.
hash_hashed(h, n) == ~hlist_unhashed(h, n)

hash_empty(h, table) == \A b \in table : hlist_empty(h, b)
==============================================================================
