------------------------------ MODULE UnityMacros ------------------------------
(***************************************************************************)
(* The assertion macros of unity.h and unity_internals.h: which function   *)
(* of unity.c each calls, and the casts of its arguments on the way.  A    *)
(* call of a macro is a record: the family of the macro, the suffix that   *)
(* names the type, and the arguments.  Numbers are handed over as int      *)
(* values of the full width.  The names without a width stand for an int   *)
(* or an unsigned int, size_t among them, although a size_t is two of them *)
(* long.                                                                   *)
(***************************************************************************)
EXTENDS UnityAsserts

Style(range, size) == [range |-> range, size |-> size]

STYLE ==
    [INT  |-> Style("INT", UNITY_INT_WIDTH \div Unit),  INT8  |-> Style("INT", 1),  INT16  |-> Style("INT", 2),
     INT32  |-> Style("INT", 4),  INT64  |-> Style("INT", 8),
     UINT |-> Style("UINT", UNITY_INT_WIDTH \div Unit), UINT8 |-> Style("UINT", 1), UINT16 |-> Style("UINT", 2),
     UINT32 |-> Style("UINT", 4), UINT64 |-> Style("UINT", 8),
     HEX8 |-> Style("HEX", 1),  HEX16 |-> Style("HEX", 2),  HEX32  |-> Style("HEX", 4),
     HEX64  |-> Style("HEX", 8),  CHAR   |-> Style("CHAR", 1)]

\* The public names that stand for another type, or for the default one.
StyleOf(suffix) ==
    STYLE[CASE suffix = ""       -> "INT"
            [] suffix = "size_t" -> "UINT"
            [] suffix = "HEX"    -> "HEX32"
            [] suffix = "PTR"    -> "HEX64"
            [] OTHER             -> suffix]

\* The types each family of macros is there for.
TypedMacros ==
    LET ordered == DOMAIN STYLE \cup {"size_t"}
    IN  [EQUAL        |-> ordered \cup {"HEX", "PTR"},   NOT_EQUAL        |-> ordered,
         GREATER_THAN |-> ordered \cup {""},             LESS_THAN        |-> ordered \cup {""},
         GREATER_OR_EQUAL |-> ordered \cup {""},         LESS_OR_EQUAL    |-> ordered \cup {""},
         WITHIN       |-> ordered \cup {"HEX"},          ARRAY_WITHIN     |-> ordered \cup {"HEX"},
         EQUAL_ARRAY  |-> ordered \cup {"HEX", "PTR"},   EACH_EQUAL       |-> ordered \cup {"HEX", "PTR"}]

-----------------------------------------------------------------------------
(* The casts *)

\* To UNITY_INT only: the types of its width, and those that name no width.
Uncast(suffix) == suffix \in {"", "INT", "UINT", "size_t", "INT64", "UINT64", "HEX64", "PTR"}

EqualCast(v, suffix) ==
    LET s == StyleOf(suffix)
    IN  IF Uncast(suffix) THEN v
        ELSE IF s.range = "UINT" THEN Unsigned(v, s.size) ELSE Signed(v, s.size)

OrderCast(v, suffix) ==
    LET s == StyleOf(suffix)
    IN  IF Uncast(suffix) THEN v
        ELSE IF RangeInt(s) THEN Signed(v, s.size) ELSE Unsigned(v, s.size)

DeltaCast(delta, suffix) ==
    Unsigned(delta, IF Uncast(suffix) THEN INT ELSE StyleOf(suffix).size)

ArrayDelta(delta, suffix) ==
    IF suffix = "UINT8" THEN Unsigned(delta, 2) ELSE DeltaCast(delta, suffix)

-----------------------------------------------------------------------------
(* The macros *)

\* TEST_ASSERT and its kin: c.is is what the macro asks for, c.condition what it gets.
AssertCondition(c) == IF c.condition = c.is THEN Holds ELSE Fails("condition", <<>>, <<>>)

AssertEqual(c) ==
    UnityAssertEqualNumber(EqualCast(c.expected, c.suffix), EqualCast(c.actual, c.suffix),
                           StyleOf(c.suffix))

Compare == [NOT_EQUAL |-> "NOT_EQUAL", GREATER_THAN |-> "GREATER_THAN", LESS_THAN |-> "SMALLER_THAN",
            GREATER_OR_EQUAL |-> "GREATER_OR_EQUAL", LESS_OR_EQUAL |-> "SMALLER_OR_EQUAL"]
AssertOrder(c) ==
    UnityAssertGreaterOrLessOrEqualNumber(
        OrderCast(c.expected, c.suffix), OrderCast(c.actual, c.suffix),
        UNITY_COMPARISON[Compare[c.macro]], StyleOf(c.suffix))

AssertWithin(c) ==
    UnityAssertNumbersWithin(DeltaCast(c.delta, c.suffix), OrderCast(c.expected, c.suffix),
                             OrderCast(c.actual, c.suffix), StyleOf(c.suffix))

AssertArrayWithin(c) ==
    UnityAssertNumbersArrayWithin(ArrayDelta(c.delta, c.suffix), c.expected, c.actual, c.n,
                                  StyleOf(c.suffix), "ARRAY_TO_ARRAY")

AssertEqualArray(c) ==
    UnityAssertEqualIntArray(c.expected, c.actual, c.n, StyleOf(c.suffix), "ARRAY_TO_ARRAY")

AssertEachEqual(c) ==
    LET s == StyleOf(c.suffix)
    IN  UnityAssertEqualIntArray(UnityNumToPtr(EqualCast(c.expected, c.suffix), s.size), c.actual,
                                 c.n, s, "ARRAY_TO_VAL")

\* BITS_HIGH, BITS_LOW, BIT_HIGH and BIT_LOW compare with all ones or zeros; the
\* variants with a message make both from a UNITY_UINT32.
AssertBits(c) ==
    LET ones == IF c.message THEN Modulus(4) - 1 ELSE -1
    IN  CASE c.macro = "BITS"      -> UnityAssertBits(c.mask, c.expected, c.actual)
          [] c.macro = "BITS_HIGH" -> UnityAssertBits(c.mask, ones, c.actual)
          [] c.macro = "BITS_LOW"  -> UnityAssertBits(c.mask, 0, c.actual)

AssertFloat(c) ==
    CASE c.macro = "FLOAT_WITHIN"      -> UnityAssertFloatsWithin(c.delta, c.expected, c.actual)
      [] c.macro = "EQUAL_FLOAT"       ->
             UnityAssertFloatsWithin(TimesPrecision(c.expected), c.expected, c.actual)
      [] c.macro = "EQUAL_FLOAT_ARRAY" ->
             UnityAssertEqualFloatArray(c.expected, c.actual, c.n, "ARRAY_TO_ARRAY")
      [] c.macro = "EACH_EQUAL_FLOAT"  ->
             UnityAssertEqualFloatArray([at |-> UnityQuickCompare, elem |-> <<c.expected>>],
                                        c.actual, c.n, "ARRAY_TO_VAL")
      [] c.macro = "FLOAT_IS"          -> UnityAssertFloatSpecial(c.actual, c.style)

AssertStringOrMemory(c) ==
    CASE c.macro = "EQUAL_STRING"       -> UnityAssertEqualString(c.expected, c.actual)
      [] c.macro = "EQUAL_STRING_LEN"   -> UnityAssertEqualStringLen(c.expected, c.actual, c.len)
      [] c.macro = "EQUAL_STRING_ARRAY" ->
             UnityAssertEqualStringArray(c.expected, c.actual, c.n, "ARRAY_TO_ARRAY")
      [] c.macro = "EACH_EQUAL_STRING"  ->
             UnityAssertEqualStringArray(c.expected, c.actual, c.n, "ARRAY_TO_VAL")
      [] c.macro = "EQUAL_MEMORY"       ->
             UnityAssertEqualMemory(c.expected, c.actual, c.len, 1, "ARRAY_TO_ARRAY")
      [] c.macro = "EQUAL_MEMORY_ARRAY" ->
             UnityAssertEqualMemory(c.expected, c.actual, c.len, c.n, "ARRAY_TO_ARRAY")
      [] c.macro = "EACH_EQUAL_MEMORY"  ->
             UnityAssertEqualMemory(c.expected, c.actual, c.len, c.n, "ARRAY_TO_VAL")

\* What a call of an assertion macro does; with a message or without.
MacroOutcome(c) ==
    CASE c.macro = "TEST_ASSERT"  -> AssertCondition(c)
      [] c.macro = "EQUAL"        -> AssertEqual(c)
      [] c.macro \in DOMAIN Compare -> AssertOrder(c)
      [] c.macro = "WITHIN"       -> AssertWithin(c)
      [] c.macro = "ARRAY_WITHIN" -> AssertArrayWithin(c)
      [] c.macro = "EQUAL_ARRAY"  -> AssertEqualArray(c)
      [] c.macro = "EACH_EQUAL"   -> AssertEachEqual(c)
      [] c.macro \in {"BITS", "BITS_HIGH", "BITS_LOW"} -> AssertBits(c)
      [] c.macro \in {"FLOAT_WITHIN", "EQUAL_FLOAT", "EQUAL_FLOAT_ARRAY", "EACH_EQUAL_FLOAT", "FLOAT_IS"} ->
             AssertFloat(c)
      [] OTHER -> AssertStringOrMemory(c)
==============================================================================
