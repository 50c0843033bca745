------------------------------- MODULE MCDeque -------------------------------
(* A small instance of DequeProps. *)
EXTENDS DequeProps

\* Memory that malloc's caller has cleared, and memory that it has not.
Cleared == {0}
Uncleared == {-1, 0, 1}

Symmetry == Permutations(Entry) \cup Permutations(Data)
==============================================================================
