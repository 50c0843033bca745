---------------------------- MODULE HashFunctions ----------------------------
(***************************************************************************)
(* The hash functions of hash.h on a 64-bit little-endian machine whose    *)
(* char is signed.  Signed overflow wraps round and >> of a negative int   *)
(* is arithmetic, as the compilers of the Makefile make them.  The second  *)
(* block of hash.h has the include guard of the first and is never read.   *)
(***************************************************************************)
EXTENDS Log2, SequencesExt

GOLDEN_RATIO_PRIME_32 == <<1, 0, 55, 158>>                      \* 0x9e370001
GOLDEN_RATIO_PRIME_64 == <<1, 0, 252, 255, 255, 255, 55, 158>>  \* 0x9e37fffffffc0001

\* Each line of hash_64 shifts n further left and adds it to hash or takes it off.
Shift(by, add) == [by |-> by, add |-> add]

\* A mutant of Shifts: two signs are swapped.
SwappedShifts ==
    <<Shift(18, FALSE), Shift(33, FALSE), Shift(3, FALSE), Shift(3, TRUE), Shift(4, TRUE), Shift(2, TRUE)>>

Shifts ==
    <<Shift(18, FALSE), Shift(33, FALSE), Shift(3, TRUE), Shift(3, FALSE), Shift(4, TRUE), Shift(2, TRUE)>>

\* The multiplication that hash_64 makes of shifts and additions.
golden_64(val) ==
    LET step(a, s) == LET n == ShiftLeft(a.n, s.by)
                      IN  [n |-> n, hash |-> IF s.add THEN Add(a.hash, n) ELSE Sub(a.hash, n)]
    IN  FoldLeft(step, [n |-> val, hash |-> val], Shifts).hash

hash_64(val, bits) == ShiftRight(golden_64(val), 64 - bits)

\* A mutant of hash_32: the prime of the block that is never read.
hash_32_other(val, bits) == ShiftRight(Mul(val, <<71, 134, 200, 97>>), 32 - bits)

hash_32(val, bits) == ShiftRight(Mul(val, GOLDEN_RATIO_PRIME_32), 32 - bits)

\* hash_long is hash_64 here; a pointer is a 64-bit word.
hash_ptr(ptr, bits) == hash_64(ptr, bits)

hash32_ptr(ptr) == Cast(BitXor(ptr, ShiftRight(ptr, 32)), 4)

\* The first two lines of the loop of hash_jenkins, for the byte c; all three.
jenkins_add(h, c)  == LET a == Add(h, Cast(<<c>>, 4)) IN Add(a, ShiftLeft(a, 10))
jenkins_step(h, c) == LET b == jenkins_add(h, c) IN BitXor(b, ShiftRightSigned(b, 6))

\* The three lines behind the loop.
jenkins_last(h) == Add(h, ShiftLeft(h, 3))
hash_jenkins(s) ==
    LET a == jenkins_last(FoldLeft(jenkins_step, Zero(4), s))
        b == BitXor(a, ShiftRightSigned(a, 11))
    IN  Add(b, ShiftLeft(b, 15))

\* ((hash << 5) + hash) + *str++
times33(h, c) == Add(Add(ShiftLeft(h, 5), h), Signed(<<c>>, 4))

\* A mutant of time33_from: the last byte of the switch is left out.
time33_short(h, s) ==
    LET from[i \in 0 .. Len(s)] == IF i = 0 THEN h ELSE times33(from[i - 1], s[i])
    IN  from[IF Len(s) = 7 THEN 6 ELSE Len(s)]

\* The cases of the switch fall through: a step for each byte that is left.
time33_from(h, s) ==
    LET from[i \in 0 .. Len(s)] == IF i = 0 THEN h ELSE times33(from[i - 1], s[i])
    IN  from[Len(s)]

\* Eight bytes at a time while there are eight, then the switch.
hash_time33(s) ==
    LET eights == Len(s) \div 8
        block[i \in 0 .. eights] ==
            IF i = 0 THEN <<5, 21, 0, 0>>  \* 5381
            ELSE FoldLeft(times33, block[i - 1], SubSeq(s, 8 * i - 7, 8 * i))
    IN  time33_from(block[eights], SubSeq(s, 8 * eights + 1, Len(s)))

\* A mutant of hash_fnv: the sign of a char is dropped with its top bit.
hash_fnv_ascii(s) ==
    LET step(h, c) == BitXor(Mul(h, <<197, 157, 28, 129>>), Cast(<<c % 128>>, 4))
    IN  FoldLeft(step, Zero(4), s)

hash_fnv(s) ==
    LET step(h, c) == BitXor(Mul(h, <<197, 157, 28, 129>>), Signed(<<c>>, 4))  \* 0x811C9DC5
    IN  FoldLeft(step, Zero(4), s)

-----------------------------------------------------------------------------
(* hash_str, one iteration of its loop at a time. *)

CONSTANT Input  \* the byte strings that are hashed

VARIABLES key, str, hash

vars == <<key, str, hash>>

Init ==
    /\ key \in Input
    /\ str = key
    /\ hash = Zero(8)

\* A little-endian load of n bytes, added to a 64-bit sum.
Take(n) ==
    /\ hash' = Add(hash, Cast(SubSeq(str, 1, n), 8))
    /\ str' = SubSeq(str, n + 1, Len(str))
    /\ UNCHANGED key

TakeU64 == Len(str) >= 8 /\ Take(8)
TakeU32 == Len(str) \in 4 .. 7 /\ Take(4)
TakeU8  == Len(str) \in 1 .. 3 /\ Take(1)

Next == TakeU64 \/ TakeU32 \/ TakeU8

Spec == Init /\ [][Next]_vars

\* What hash_str returns when the loop has ended.
hash_str(bits) ==
    IF bits <= 32 THEN Cast(hash_32(Cast(hash, 4), bits), 8) ELSE hash_64(hash, bits)

hash32_str == Cast(hash_str(32), 4)
hash64_str == hash_str(64)

\* calc_bkt of a table of 2^bits buckets, bits below the width of an int.
calc_bkt(num, bits) == BitAnd(num, Sub(Power(bits, 4), Cast(<<1>>, 4)))
==============================================================================
