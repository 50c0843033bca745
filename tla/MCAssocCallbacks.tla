-------------------------- MODULE MCAssocCallbacks ---------------------------
(* Two keys of one bucket and one of another; a callback of a callback. *)
EXTENDS AssocCallbacks

MCKey == {"a", "c"}
MCHash == [q \in MCKey |-> 7]

Symmetry == Permutations(Entry) \cup Permutations(Data)
==============================================================================
