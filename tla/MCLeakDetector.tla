--------------------------- MODULE MCLeakDetector ----------------------------
(* A small instance of LeakDetectorProps. *)
EXTENDS LeakDetectorProps

Symmetry == Permutations(Node) \cup Permutations(Block)
==============================================================================
