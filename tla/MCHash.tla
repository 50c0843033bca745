------------------------------- MODULE MCHash --------------------------------
(***************************************************************************)
(* Strings of every length up to 17, so that the loops of eight, of four   *)
(* and of one byte run 0, 1 and 2 times or more in every combination, with *)
(* one or two bytes that are not zero: every bit of the first eight alone  *)
(* and next to one below or above, bytes that carry and bytes with a sign. *)
(* Three keys whose hash_jenkins does not change when the fifth byte goes  *)
(* up by one: two lose the change in the loop, the third behind it.        *)
(***************************************************************************)
EXTENDS HashProps

Bytes(n, i, c, j, d) == [x \in 1 .. n |-> IF x = i THEN c ELSE IF x = j THEN d ELSE 0]

MCInput ==
    {Bytes(n, i, c, j, 255) : n \in 0 .. 17, i \in {1, 4, 5, 16}, c \in {127, 200}, j \in {2, 9, 17}}
    \cup {Bytes(8, i, 2^b, j, 255) : i \in 1 .. 8, b \in 0 .. 7, j \in {0, 1, 4}}
    \cup {[x \in 1 .. n |-> 40 * x % 256] : n \in 0 .. 17}
    \cup {[x \in 1 .. 8 |-> IF x < i THEN 255 ELSE IF x = i THEN 2^b - 1 ELSE 0] :
             i \in 1 .. 8, b \in 0 .. 8}
    \cup {<<46, 184, 227, 0, 101>>, <<143, 180, 44, 1, 7, 9, 200>>, <<37, 96, 12, 0, 203>>}
==============================================================================
