-------------------------------- MODULE Words --------------------------------
(***************************************************************************)
(* The unsigned integers of C, of any width.  A word is the sequence of    *)
(* its bytes, the lowest first, as a little-endian machine stores it: the  *)
(* bytes of a string and the integer loaded from them are the same value.  *)
(***************************************************************************)
LOCAL INSTANCE Integers
LOCAL INSTANCE Sequences
LOCAL INSTANCE FiniteSetsExt
LOCAL INSTANCE Bitwise

Byte == 0 .. 255

\* The word whose digits, base 256, are the naturals d[i]: carries go up and the
\* last one is lost.
Carried(d) ==
    LET carry[i \in 0 .. Len(d)] == IF i = 0 THEN 0 ELSE (d[i] + carry[i - 1]) \div 256
    IN  [i \in DOMAIN d |-> (d[i] + carry[i - 1]) % 256]

\* A value in w bytes: truncated, or filled up with zeros, or with the sign.
Cast(x, w)   == [i \in 1 .. w |-> IF i <= Len(x) THEN x[i] ELSE 0]
Fill(x)      == IF x[Len(x)] > 127 THEN 255 ELSE 0
Signed(x, w) == [i \in 1 .. w |-> IF i <= Len(x) THEN x[i] ELSE Fill(x)]

\* 2^b in w bytes.
Power(b, w) == [i \in 1 .. w |-> IF i = b \div 8 + 1 THEN 2^(b % 8) ELSE 0]

Zero(w)   == [i \in 1 .. w |-> 0]
Add(x, y) == Carried([i \in DOMAIN x |-> x[i] + y[i]])
Sub(x, y) == Carried([i \in DOMAIN x |-> x[i] + 255 - y[i] + (IF i = 1 THEN 1 ELSE 0)])
Mul(x, y) ==
    Carried([k \in DOMAIN x |-> MapThenSumSet(LAMBDA i : x[i] * y[k + 1 - i], 1 .. k)])
BitAnd(x, y) == [i \in DOMAIN x |-> x[i] & y[i]]
BitXor(x, y) == [i \in DOMAIN x |-> x[i] ^^ y[i]]

ShiftLeft(x, b) ==
    Carried([i \in DOMAIN x |-> IF i <= b \div 8 THEN 0 ELSE x[i - b \div 8] * 2^(b % 8)])

\* The bits that enter at the top are those of the byte fill.
ShiftIn(x, b, fill) ==
    LET at(i) == IF i <= Len(x) THEN x[i] ELSE fill
    IN  [i \in DOMAIN x |->
            ((at(i + b \div 8) + 256 * at(i + b \div 8 + 1)) \div 2^(b % 8)) % 256]

ShiftRight(x, b)       == ShiftIn(x, b, 0)
ShiftRightSigned(x, b) == ShiftIn(x, b, Fill(x))

Bit(x, b) == (x[b \div 8 + 1] \div 2^(b % 8)) % 2

\* x < y
Below(x, y) ==
    \E i \in DOMAIN x : x[i] < y[i] /\ \A j \in DOMAIN x : j > i => x[j] = y[j]
==============================================================================
