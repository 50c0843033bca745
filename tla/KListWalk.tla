------------------------------ MODULE KListWalk ------------------------------
(***************************************************************************)
(* The iterators of list.h over a ring.                                    *)
(***************************************************************************)
EXTENDS KList, Integers, Sequences

\* The nodes that a loop meets behind each node, in i steps and up to the head,
\* with pointer = l.next, or l.prev for the loops that are reversed.
k_list_steps(pointer, head, n) ==
    LET behind[i \in 0 .. n] ==
            [x \in DOMAIN pointer |->
                IF i = 0 \/ pointer[x] \notin DOMAIN pointer \ {head} THEN <<>>
                ELSE <<pointer[x]>> \o behind[i - 1][pointer[x]]]
    IN  behind

\* The loops that go on behind pos (_continue).  A loop that meets poison, or more
\* than n nodes, is given up: on a sound list of at most n nodes neither happens.
k_list_continue(pointer, pos, head, n) == k_list_steps(pointer, head, n)[n][pos]

\* The loops that start at pos itself (_from).
k_list_from(pointer, pos, head, n) ==
    IF pos = head THEN <<>> ELSE <<pos>> \o k_list_continue(pointer, pos, head, n)

\* The loops over the whole list: they start behind the head.
k_list_walk(pointer, head, n) == k_list_continue(pointer, head, head, n)
==============================================================================
