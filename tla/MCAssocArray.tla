---------------------------- MODULE MCAssocArray -----------------------------
(***************************************************************************)
(* A small instance of AssocArrayProps: two buckets, four keys.  The keys  *)
(* "a" and "a0" are a key and the same key with a zero byte behind it:     *)
(* hash_str adds up the bytes, so they share a bucket, and the first is a  *)
(* prefix of the second.  Key "c" falls in the same bucket, and key "b" in *)
(* the other.                                                              *)
(***************************************************************************)
EXTENDS AssocArrayProps, TLC

MCKey == {"a", "a0", "b", "c"}
MCHash == [q \in MCKey |-> CASE q = "b" -> 8 [] q = "c" -> 9 [] OTHER -> 7]
MCPrefix == {<<"a", "a0">>}

Symmetry == Permutations(Entry) \cup Permutations(Data)
==============================================================================
