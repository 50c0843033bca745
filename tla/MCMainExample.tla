---------------------------- MODULE MCMainExample ----------------------------
(***************************************************************************)
(* Command lines of up to four arguments, and the example of the usage     *)
(* text, -b 10 -d 0.5 -p 0.1; two macs of one bucket.                      *)
(***************************************************************************)
EXTENDS MainExample, TLC

Arg(n, tenths, inverse) == [help |-> FALSE, int |-> n, tenths |-> tenths, inverse |-> inverse]
Help == [help |-> TRUE, int |-> 0, tenths |-> 0, inverse |-> 1]
Word == Arg(0, 0, 1)      \* -b, -d and -p
Ten  == Arg(10, 100, 0)
Two  == Arg(2, 20, 0)
One  == Arg(1, 10, 1)
Half == Arg(0, 5, 2)
Tenth == Arg(0, 1, 9)     \* (int)(1.0 / 0.1f)

MCCommandLine ==
    {<<Help>>, <<Two, One>>, <<Two, One, Two>>, <<One, Half, Half>>, <<One, One, Tenth>>,
     <<Two, Half, Half, Help>>, <<Two, Half, One, One>>,
     <<Word, Ten, Word, Half, Word, Tenth>>}

MCKey == {"a", "c"}
MCHash == [q \in MCKey |-> 7]

Symmetry == Permutations(Entry) \cup Permutations(Data)
==============================================================================
