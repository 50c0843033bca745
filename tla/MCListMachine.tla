---------------------------- MODULE MCListMachine ----------------------------
(* Four entries, two rings, a table of two buckets. *)
EXTENDS ListMachineProps

MCBucket == {0, 1}

Symmetry == Permutations(Node) \cup Permutations(RingHead)
==============================================================================
