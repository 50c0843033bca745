------------------------------ MODULE HashProps ------------------------------
(***************************************************************************)
(* What the functions of hash.h and log2.h compute, and which bytes of a   *)
(* key the buckets of a table depend on.                                   *)
(***************************************************************************)
EXTENDS HashFunctions

Hashed == str = <<>>

\* The number whose bytes the key begins with.
Number == Cast(key, 8)

\* The bytes of the key that the loop of hash_str loads into place p of a word:
\* of every whole eight bytes and of one group of four the p-th, and for p = 1
\* also each of the last bytes, of which there are fewer than four.
BytesAt(p) ==
    LET n == Len(key)
        eights == 8 * (n \div 8)
        four == IF n - eights >= 4 THEN 4 ELSE 0
    IN  {i \in 1 .. n :
            \/ i <= eights /\ (i - 1) % 8 = p - 1
            \/ i > eights /\ i <= eights + four /\ i - eights = p
            \/ i > eights + four /\ p = 1}

\* The array hashes keys with hash32_str and takes the low bits of it.  Because
\* GOLDEN_RATIO_PRIME_32 is 1 modulo 2^16 the multiplication leaves those bits as
\* they were: in a table of up to 65536 buckets the bucket of a key is the sum of
\* the first bytes of its words, and 256 times the second, and no other byte of
\* the key has any influence; bytes 5 to 8 have none on the whole hash.
OnlyTheseBytesChooseTheBucket ==
    Hashed =>
        LET sum(p) == MapThenSumSet(LAMBDA i : key[i], BytesAt(p))
            word   == Carried([p \in 1 .. 4 |-> sum(p)])
        IN  /\ \A bits \in 0 .. 16 :
                  calc_bkt(hash32_str, bits) = calc_bkt(Carried(<<sum(1), sum(2), 0, 0>>), bits)
            /\ hash32_str = hash_32(word, 32)

\* hash_64 multiplies by the golden ratio prime of its comment by shifts and
\* additions; hash_time33, eight bytes at a time and a switch, is the recursion
\* hash(i) = hash(i-1) * 33 + str[i] of its comment, on bytes with a sign.
ShortcutsAreTheFormulas ==
    key = str =>
        LET h[i \in 0 .. Len(key)] ==
                IF i = 0 THEN Carried(<<5381, 0, 0, 0>>)
                ELSE Add(Mul(h[i - 1], <<33, 0, 0, 0>>), Signed(<<key[i]>>, 4))
        IN  /\ \A bits \in {1, 32, 63, 64} :
                  hash_64(Number, bits) = ShiftRight(Mul(Number, GOLDEN_RATIO_PRIME_64), 64 - bits)
            /\ hash_time33(key) = h[Len(key)]

\* The values that hash_jenkins shifts to the right, one for each byte and a last one.
Shifted(s) ==
    LET step(run, c) == [hash    |-> jenkins_step(run.hash, c),
                         shifted |-> Append(run.shifted, jenkins_add(run.hash, c))]
        run == FoldLeft(step, [hash |-> Zero(4), shifted |-> <<>>], s)
    IN  Append(run.shifted, jenkins_last(run.hash))

MeetInComplements(s, t) ==
    \E x \in {Shifted(s)}, y \in {Shifted(t)} :
        \E j \in DOMAIN x : \A i \in 1 .. 4 : x[j][i] + y[j][i] = 255

\* The other hashes keep what hash32_str drops: whichever byte of a key goes up by
\* one or changes its top bit, hash_time33 and hash_fnv of it change, although ints
\* with a sign wrap round on the way, and so does hash32_ptr with any byte of a
\* pointer.  hash_jenkins can lose the change, and this is exactly when: hash is an
\* int, so that hash ^= hash >> 6 makes the same of a value and of its complement,
\* and so does the shift by 11 behind the loop; the hashes of two keys are equal if
\* and only if the keys come to one of these lines with a value and its complement.
EveryByteCounts ==
    key = str =>
        LET changed(s, i, c) == [s EXCEPT ![i] = (@ + c) % 256]
        IN  \A c \in {1, 128} :
                /\ \A i \in DOMAIN key :
                      LET other == changed(key, i, c)
                      IN  /\ hash_time33(other) # hash_time33(key)
                          /\ hash_fnv(other) # hash_fnv(key)
                          /\ hash_jenkins(other) = hash_jenkins(key) <=> MeetInComplements(other, key)
                /\ \A i \in 1 .. 8 : hash32_ptr(changed(Number, i, c)) # hash32_ptr(Number)

\* The logarithms agree with each other and with the order of the integers: the
\* constant and the run-time ilog2 of any value that fits in 32 bits, rounding up
\* and down to powers of two with nothing in between, the order of the rounded
\* value, and the bits of a table from its size.
LogsAgree ==
    key = str /\ Number # Zero(8) =>
        LET n    == Number
            down == rounddown_pow_of_two(n)
            up   == roundup_pow_of_two(n)
            log  == ilog2_constant(n)
        IN  /\ down = Power(log, 8) /\ ~Below(n, down)
            /\ Below(n, ShiftLeft(down, 1)) \/ log = 63
            /\ Cast(Cast(n, 4), 8) = n =>
                  ilog2_variable(n, 4) = log /\ ilog2_variable(n, 8) = log
            /\ is_power_of_2(n) <=> down = n
            /\ up # Undefined =>
                  /\ is_power_of_2(up) /\ ~Below(up, n) /\ Below(ShiftRight(up, 1), n)
                  /\ up = Power(order_base_2(n), 8)
            /\ up = Undefined <=> Below(Power(63, 8), n)
            /\ HASH_BITS(log) = log
==============================================================================
