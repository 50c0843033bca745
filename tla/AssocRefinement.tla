--------------------------- MODULE AssocRefinement ---------------------------
(***************************************************************************)
(* AssocArray implements AssocSpec.  The items are read off the pointers:  *)
(* what a walk of arr->list from its head meets, and what the entries on   *)
(* the way contain.                                                        *)
(***************************************************************************)
EXTENDS AssocArrayProps, KListWalk

\* The items, oldest first.
Items ==
    IF arr = NULL \/ Clearing THEN <<>>
    ELSE LET w == k_list_walk(list.next, ListHead, Cardinality(Entry))
         IN  [i \in DOMAIN w |-> [id |-> w[i], key |-> key[w[i]], data |-> data[w[i]]]]

\* The removal is over and the call is not: array_add_replace has found nothing
\* to remove, or an entry is out of the array.
Removed ==
    \/ pc \in {"free_entry", "shrink"}
    \/ pc \in {"malloc_entry", "fill_entry", "link"} /\ op = "replace"

Abs == INSTANCE AssocSpec WITH
    exists   <- arr # NULL,
    items    <- Items,
    phase    <- CASE pc = "idle" -> "idle" [] Removed -> "removed" [] OTHER -> "called",
    MayMatch <- {m \in Key \X Key : TRUE \in KeyMatches(m[1], m[2])}

\* Every behaviour of the pointer program, seen through the walk of its list, is
\* one of the abstract array: what each call returns and what it leaves.
ImplementsAssocSpec == Abs!Spec
==============================================================================
