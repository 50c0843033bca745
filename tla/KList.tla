-------------------------------- MODULE KList --------------------------------
(***************************************************************************)
(* The circular doubly linked list of list.h.                              *)
(*                                                                         *)
(* A list memory l is a record of two pointer functions: l.next[x] and     *)
(* l.prev[x] are the two fields of the k_list_head at address x.  A list   *)
(* head and a member of a list are the same type in C, so both are nodes.  *)
(* Every operator returns the memory after the call; EXCEPT applies its    *)
(* updates from left to right, in the order of the stores in the source.   *)
(***************************************************************************)

EXTENDS Pointers

\* An empty list: the head points at itself.
K_INIT_LIST_HEAD(l, h) ==
    [next |-> [l.next EXCEPT ![h] = h], prev |-> [l.prev EXCEPT ![h] = h]]

\* __list_add: new goes between two nodes known to be neighbours.
list_add_between(l, new, prev, next) ==
    [next |-> [l.next EXCEPT ![new] = next, ![prev] = new],
     prev |-> [l.prev EXCEPT ![next] = new, ![new] = prev]]

k_list_add(l, new, head) == list_add_between(l, new, head, l.next[head])

k_list_add_tail(l, new, head) == list_add_between(l, new, l.prev[head], head)

\* A mutant of list_del_between: only one of the two stores.
list_del_forward(l, prev, next) == [l EXCEPT !.next[prev] = next]

\* __list_del: make two nodes neighbours.
list_del_between(l, prev, next) ==
    [next |-> [l.next EXCEPT ![prev] = next],
     prev |-> [l.prev EXCEPT ![next] = prev]]

\* A mutant of k_list_del: the entry stays in its ring.
k_list_keep(l, e) == l

\* The entry keeps no usable pointer after it is deleted.
k_list_del(l, e) ==
    LET m == list_del_between(l, l.prev[e], l.next[e])
    IN  [next |-> [m.next EXCEPT ![e] = LIST_POISON1],
         prev |-> [m.prev EXCEPT ![e] = LIST_POISON2]]

k_list_empty(l, h) == l.next[h] = h

k_list_first(l, h) == l.next[h]

k_list_last(l, h) == l.prev[h]

\* __list_del_entry
list_del_entry(l, e) == list_del_between(l, l.prev[e], l.next[e])

k_list_del_init(l, e) == K_INIT_LIST_HEAD(list_del_entry(l, e), e)

k_list_move(l, e, head) == k_list_add(list_del_entry(l, e), e, head)

k_list_move_tail(l, e, head) == k_list_add_tail(list_del_entry(l, e), e, head)

\* The stores follow one another: when old is an empty head its prev is new by the
\* time it is read.
k_list_replace(l, old, new) ==
    LET p == [l.prev EXCEPT ![l.next[old]] = new]
    IN  [next |-> [l.next EXCEPT ![new] = l.next[old], ![p[old]] = new],
         prev |-> [p EXCEPT ![new] = p[old]]]

k_list_replace_init(l, old, new) == K_INIT_LIST_HEAD(k_list_replace(l, old, new), old)

k_list_is_last(l, e, h) == l.next[e] = h

k_list_is_singular(l, h) == ~k_list_empty(l, h) /\ l.next[h] = l.prev[h]

k_list_rotate_left(l, h) ==
    IF k_list_empty(l, h) THEN l ELSE k_list_move_tail(l, l.next[h], h)

\* k_list_first_entry_or_null and k_list_last_entry_or_null
k_list_first_or_null(l, h) == IF k_list_empty(l, h) THEN NULL ELSE k_list_first(l, h)
k_list_last_or_null(l, h)  == IF k_list_empty(l, h) THEN NULL ELSE k_list_last(l, h)

\* __list_cut_position: the entries of head up to entry go to list.
list_cut(l, list, head, entry) ==
    [next |-> [l.next EXCEPT ![list] = l.next[head], ![entry] = list, ![head] = l.next[entry]],
     prev |-> [l.prev EXCEPT ![l.next[head]] = list, ![list] = entry, ![l.next[entry]] = head]]

k_list_cut_position(l, list, head, entry) ==
    IF k_list_empty(l, head) \/ (k_list_is_singular(l, head) /\ entry \notin {l.next[head], head})
    THEN l
    ELSE IF entry = head THEN K_INIT_LIST_HEAD(l, list) ELSE list_cut(l, list, head, entry)

\* __list_splice: the entries of list, which keeps its pointers, go between two
\* neighbours.
list_splice_between(l, list, prev, next) ==
    [next |-> [l.next EXCEPT ![prev] = l.next[list], ![l.prev[list]] = next],
     prev |-> [l.prev EXCEPT ![l.next[list]] = prev, ![next] = l.prev[list]]]

\* A mutant of k_list_splice: an empty list is spliced like any other.
k_list_splice_any(l, list, head) == list_splice_between(l, list, head, l.next[head])

k_list_splice(l, list, head) ==
    IF k_list_empty(l, list) THEN l ELSE list_splice_between(l, list, head, l.next[head])

k_list_splice_tail(l, list, head) ==
    IF k_list_empty(l, list) THEN l ELSE list_splice_between(l, list, l.prev[head], head)

\* The two that initialise the list they emptied; an empty one is left alone.
k_list_splice_init(l, list, head) ==
    IF k_list_empty(l, list) THEN l ELSE K_INIT_LIST_HEAD(k_list_splice(l, list, head), list)

k_list_splice_tail_init(l, list, head) ==
    IF k_list_empty(l, list) THEN l ELSE K_INIT_LIST_HEAD(k_list_splice_tail(l, list, head), list)

list_del_range(l, begin, end) == list_del_between(l, l.prev[begin], l.next[end])
==============================================================================
