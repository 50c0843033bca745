-------------------------- MODULE MCAssocRefinement --------------------------
(* The instance of MCAssocArray, with the refinement and the counts. *)
EXTENDS MCAssocArray, AssocRefinement, AssocArrayMeasures
==============================================================================
