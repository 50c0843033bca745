------------------------------ MODULE UnityProps ------------------------------
(***************************************************************************)
(* What a test writer relies on: an assertion fails exactly when its       *)
(* values break what its name says.                                        *)
(***************************************************************************)
EXTENDS UnityRunnerProps, UnityMacros, TLC

NumberOf(printed) ==
    LET digit == printed.digits
    IN  (IF printed.minus THEN -1 ELSE 1) *
        MapThenSumSet(LAMBDA i : digit[i] * printed.base^(Len(digit) - i), DOMAIN digit)

ArrayMacros  == {"EQUAL_ARRAY", "ARRAY_WITHIN", "EQUAL_FLOAT_ARRAY", "EQUAL_STRING_ARRAY"}
EachMacros   == {"EACH_EQUAL", "EACH_EQUAL_FLOAT", "EACH_EQUAL_STRING"}

\* The names that stand for int and unsigned int, the chars of the type that a
\* suffix names, and whether it has a sign.
IntNames == {"", "INT", "UINT", "size_t"}
SizeNamed(suffix) ==
    CASE suffix \in {"INT8", "UINT8", "HEX8", "CHAR"}                     -> 1
      [] suffix \in {"INT16", "UINT16", "HEX16"}                          -> 2
      [] suffix \in IntNames \cup {"INT32", "UINT32", "HEX32", "HEX"}     -> 4
      [] suffix \in {"INT64", "UINT64", "HEX64", "PTR"}                   -> 8
SignNamed(suffix) == suffix \in {"", "INT", "INT8", "INT16", "INT32", "INT64", "CHAR"}

\* The value in the type that the suffix names.  A single number of a name without a
\* width is compared whole; the elements of an array, and the value that they are
\* all compared with, have the width of an int.
Typed(c, v) ==
    LET size == IF c.suffix \in IntNames /\ c.macro \notin ArrayMacros \cup EachMacros
                THEN 8 ELSE SizeNamed(c.suffix)
    IN  IF SignNamed(c.suffix) THEN Signed(v, size) ELSE Unsigned(v, size)

\* The pairs <<expected, actual>> that an assertion on numbers compares.
NumberPairs(c) ==
    CASE c.macro = "EACH_EQUAL" ->
             [i \in 1 .. c.n |-> <<Typed(c, c.expected), Typed(c, c.actual.elem[i])>>]
      [] c.macro \in {"EQUAL_ARRAY", "ARRAY_WITHIN"} ->
             [i \in 1 .. c.n |-> <<Typed(c, c.expected.elem[i]), Typed(c, c.actual.elem[i])>>]
      [] OTHER -> << <<Typed(c, c.expected), Typed(c, c.actual)>> >>

Distance(x, y) == Max({x - y, y - x})

\* What the name of the macro promises of an expected and an actual number.
NumbersAgree(c, e, a) ==
    CASE c.macro \in {"EQUAL", "EQUAL_ARRAY", "EACH_EQUAL"} -> a = e
      [] c.macro = "NOT_EQUAL"        -> a # e
      [] c.macro = "GREATER_THAN"     -> a > e
      [] c.macro = "LESS_THAN"        -> a < e
      [] c.macro = "GREATER_OR_EQUAL" -> a >= e
      [] c.macro = "LESS_OR_EQUAL"    -> a <= e
      [] c.macro \in {"WITHIN", "ARRAY_WITHIN"} ->
             Distance(e, a) <=
                 Unsigned(c.delta, IF c.suffix \in IntNames THEN 8 ELSE SizeNamed(c.suffix))

FloatsAgree(c, e, a) ==
    \/ isnan(e) /\ isnan(a)
    \/ isinf(e) /\ a = e
    \/ /\ e.kind = "finite" /\ a.kind = "finite"
       /\ IF c.macro = "FLOAT_WITHIN"
          THEN isinf(c.delta) \/ Distance(e.val, a.val) <= Distance(c.delta.val, 0)
          ELSE Distance(e.val, a.val) * Precision <= Distance(e.val, 0)

FloatMacros  == {"EQUAL_FLOAT", "FLOAT_WITHIN", "EQUAL_FLOAT_ARRAY", "EACH_EQUAL_FLOAT"}
StringMacros == {"EQUAL_STRING", "EQUAL_STRING_LEN", "EQUAL_STRING_ARRAY", "EACH_EQUAL_STRING"}

\* Arrays that are not compared at all: none, the same one, one of them NULL.
NothingToCompare(c) ==
    /\ c.macro \in ArrayMacros \cup EachMacros
    /\ \/ c.n = 0
       \/ c.actual.at = 0
       \/ c.macro \in ArrayMacros /\ (c.expected.at = 0 \/ c.expected.at = c.actual.at)
TrivialAnswer(c) ==
    IF c.n = 0 THEN report.why = "pointless"
    ELSE (report = Holds) = (c.macro \in ArrayMacros /\ c.expected.at = c.actual.at)

\* An unsigned element as wide as an int keeps the sign it was read with when it is
\* printed as a UNITY_UINT: one with its top bit set is shown with ones above it.
PrintedWithOnes(c) ==
    c.macro \in ArrayMacros \cup EachMacros /\ c.suffix \in {"UINT", "size_t", "UINT32"}

\* The verdict is right, it names the first element that differs, and both
\* numbers can be read back from what is printed.
DecidesNumbers(c) ==
    LET pair == NumberPairs(c)
        bad  == {i \in DOMAIN pair : ~NumbersAgree(c, pair[i][1], pair[i][2])}
    IN  IF bad = {} THEN report = Holds
        ELSE /\ report # Holds
             /\ c.macro \in ArrayMacros \cup EachMacros => report.at = <<Min(bad) - 1>>
             /\ \A v \in Range(pair[Min(bad)]) : \E p \in Range(report.shown) :
                    LET u == NumberOf(p)
                    IN  /\ Typed(c, u) = v
                        /\ p.base = 10 =>
                              u = IF PrintedWithOnes(c) THEN UINT(Signed(v, 4)) ELSE v

\* Floats and strings are handed to the macro as they are compared.
Pairs(c) ==
    CASE c.macro \in EachMacros  -> [i \in 1 .. c.n |-> <<c.expected, c.actual.elem[i]>>]
      [] c.macro \in ArrayMacros -> [i \in 1 .. c.n |-> <<c.expected.elem[i], c.actual.elem[i]>>]
      [] OTHER -> << <<c.expected, c.actual>> >>
DecidesPairs(c, Agree(_, _)) ==
    LET pair == Pairs(c)
        bad  == {i \in DOMAIN pair : ~Agree(pair[i][1], pair[i][2])}
    IN  IF bad = {} THEN report = Holds
        ELSE /\ report # Holds
             /\ c.macro # "EQUAL_STRING_LEN" => report.shown = pair[Min(bad)]
             /\ c.macro \in ArrayMacros \cup EachMacros => report.at = <<Min(bad) - 1>>

\* As far as the assertion reads them, the strings have the same characters.
StringsAgree(c, e, a) ==
    LET reads == IF c.macro = "EQUAL_STRING_LEN" THEN c.len ELSE Max({Len(e.chars), Len(a.chars)})
    IN  IF e.at = 0 \/ a.at = 0 THEN e.at = a.at
        ELSE \A i \in 1 .. reads :
                 (i \in DOMAIN e.chars \/ i \in DOMAIN a.chars) =>
                     i \in DOMAIN e.chars \cap DOMAIN a.chars /\ e.chars[i] = a.chars[i]

BitMacros    == {"BITS", "BITS_HIGH", "BITS_LOW"}
MemoryMacros == {"EQUAL_MEMORY", "EQUAL_MEMORY_ARRAY", "EACH_EQUAL_MEMORY"}

\* The bits of the mask, one by one.  The message shows a difference if there is one
\* among the bits of an int: it does not show the bits above them.
DecidesBits(c) ==
    LET bit(word, i) == (UINT(word) \div 2^i) % 2
        wanted(i) == IF c.macro = "BITS" THEN bit(c.expected, i) ELSE IF c.macro = "BITS_HIGH" THEN 1 ELSE 0
        wrong == {i \in 0 .. INT * Unit - 1 : bit(c.mask, i) = 1 /\ bit(c.actual, i) # wanted(i)}
    IN  IF wrong = {} THEN report = Holds
        ELSE /\ report # Holds
             /\ report.shown[1] # report.shown[2] <=> \E i \in wrong : i < 4 * Unit

\* The element and the byte in it: the first that differs.
DecidesMemory(c) ==
    LET exp(j, k) == c.expected.elem[IF c.macro = "EACH_EQUAL_MEMORY" THEN k + 1 ELSE j * c.len + k + 1]
        differ == {<<j, k>> \in (0 .. (IF c.macro = "EQUAL_MEMORY" THEN 0 ELSE c.n - 1)) \X (0 .. c.len - 1) :
                      exp(j, k) # c.actual.elem[j * c.len + k + 1]}
    IN  IF differ = {} THEN report = Holds
        ELSE /\ report # Holds /\ report.at \in differ
             /\ \A d \in differ : d[1] > report.at[1] \/ (d[1] = report.at[1] /\ d[2] >= report.at[2])

\* ARRAY_WITHIN reads unsigned elements with a sign: two that differ in their
\* top bit are not what it compares.
ReadWithAnotherSign(c) ==
    LET size == SizeNamed(c.suffix)
        minus(v) == Signed(v, size) < 0
    IN  /\ c.macro = "ARRAY_WITHIN" /\ ~SignNamed(c.suffix) /\ size < 8
        /\ \E i \in 1 .. c.n : minus(c.expected.elem[i]) # minus(c.actual.elem[i])

\* BITS_HIGH with a message has ones in the low half only.
OnesTooShort(c) == c.macro = "BITS_HIGH" /\ c.message /\ UINT(c.mask) >= Modulus(4)

\* The last assertion failed exactly if its values, in the type its name says,
\* break what its name says: for the boundary values of every width and sign,
\* scalars and arrays.  It names the first element that differs, and its message
\* shows the two numbers as they are.  An array of size_t is for this one of unsigned
\* ints: of its n elements the first half of the memory is compared, and EACH_EQUAL
\* compares with the low half of its value; unsigned elements as wide as an int may
\* be shown with ones above them.  (The casts of unity.h and unity_internals.h and
\* the comparisons of unity.c.)
AssertionsDecide ==
    CASE asked.macro \in {"none", "TEST_ASSERT", "FLOAT_IS"} -> TRUE
      [] NothingToCompare(asked) -> TrivialAnswer(asked)
      [] OTHER ->
             \/ ReadWithAnotherSign(asked) \/ OnesTooShort(asked)
             \/ asked.macro \in DOMAIN TypedMacros /\ DecidesNumbers(asked)
             \/ asked.macro \in FloatMacros  /\ DecidesPairs(asked, LAMBDA e, a : FloatsAgree(asked, e, a))
             \/ asked.macro \in StringMacros /\ DecidesPairs(asked, LAMBDA e, a : StringsAgree(asked, e, a))
             \/ asked.macro \in BitMacros    /\ DecidesBits(asked)
             \/ asked.macro \in MemoryMacros /\ DecidesMemory(asked)

==============================================================================
