-------------------------------- MODULE Log2 ---------------------------------
(***************************************************************************)
(* The integer logarithms of log2.h.  A macro that looks whether its       *)
(* argument is a constant is two operators, one for each case.             *)
(***************************************************************************)
EXTENDS Words, Integers, Sequences, FiniteSetsExt

\* ____ilog2_NaN, a function that is never defined: the program does not link.
NaN == -1

\* A word the C program does not define: an undefined shift, or of no logarithm.
Undefined == <<>>

\* int fls(int): the number of the highest bit that is set, from 1, by
\* __builtin_clz.
fls(x) == Max({0} \cup {b \in 1 .. 32 : Bit(x, b - 1) = 1})

ilog2_u32(n) == fls(n) - 1

\* The argument is converted to the int of fls.
ilog2_u64(n) == fls(Cast(n, 4)) - 1

\* n & (n - 1) of an unsigned long.
is_power_of_2(n) ==
    n # Zero(8) /\ BitAnd(n, Sub(n, Cast(<<1>>, 8))) = Zero(8)

\* The constant branch of ilog2: the first bit from the top that is set.
ilog2_constant(n) ==
    IF n = Zero(8) THEN NaN
    ELSE CHOOSE b \in 0 .. 63 : Bit(n, b) = 1 /\ \A c \in b + 1 .. 63 : Bit(n, c) = 0

\* ilog2 of a value known only at run time, of a type of w bytes.
ilog2_variable(n, w) == IF w <= 4 THEN ilog2_u32(Cast(n, 4)) ELSE ilog2_u64(n)

\* 1UL << b; a shift by the width is undefined.
OneShifted(b) == IF b \in 0 .. 63 THEN Power(b, 8) ELSE Undefined

\* A mutant of roundup_pow_of_two: a power of two is rounded up to the next.
round_always_up(n) ==
    IF n = Zero(8) THEN Undefined ELSE OneShifted(ilog2_constant(n) + 1)

\* The constant branches.  The others call functions no header defines.
roundup_pow_of_two(n) ==
    LET one == Cast(<<1>>, 8) IN
    IF n = one THEN one
    ELSE IF n = Zero(8) THEN Undefined ELSE OneShifted(ilog2_constant(Sub(n, one)) + 1)

rounddown_pow_of_two(n) ==
    IF n = Zero(8) THEN Undefined ELSE OneShifted(ilog2_constant(n))

order_base_2(n) ==
    LET up == roundup_pow_of_two(n) IN IF up = Undefined THEN NaN ELSE ilog2_constant(up)

\* HASH_SIZE of a table declared with bits, and HASH_BITS of it.
HASH_SIZE(bits) == OneShifted(bits)
HASH_BITS(bits) == ilog2_constant(HASH_SIZE(bits))
==============================================================================
