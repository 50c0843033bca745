------------------------------ MODULE Pointers -------------------------------
(***************************************************************************)
(* The pointer values that address no object: NULL, and the two poison     *)
(* values of poison.h that a deleted list node is left with.               *)
(***************************************************************************)
CONSTANTS NULL, LIST_POISON1, LIST_POISON2

\* poison.h: the poison values are non-NULL, and two different numbers.
ASSUME PoisonAssumption ==
    /\ LIST_POISON1 # NULL
    /\ LIST_POISON2 # NULL
    /\ LIST_POISON1 # LIST_POISON2

Poison == {LIST_POISON1, LIST_POISON2}
==============================================================================
