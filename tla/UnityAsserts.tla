----------------------------- MODULE UnityAsserts -----------------------------
(***************************************************************************)
(* The assertion functions of unity.c, as functions of their arguments:    *)
(* what an assertion prints when it fails, or that it holds.  A char has   *)
(* Unit bits here, so that UNITY_INT, eight of them, fits the integers of  *)
(* the checker; a nibble is half a char.                                   *)
(*                                                                         *)
(* An array is its address, 0 for NULL, and the raw bits of its memory in  *)
(* units of the style's size, which are its elements unless these are      *)
(* longer; a string is its address and its characters before the           *)
(* terminator.                                                             *)
(***************************************************************************)
EXTENDS UnityMessages, Integers, Sequences, FiniteSetsExt, Bitwise

CONSTANTS Unit,     \* bits of a char
          Precision \* UNITY_FLOAT_PRECISION is one over this

ASSUME UnitAssumption == Unit % 2 = 0 /\ Unit > 0 /\ Precision \in Nat \ {0}

INT == 8                    \* the size of UNITY_INT, with 64-bit support
UNITY_INT_WIDTH == 4 * Unit \* the bits of an int
Modulus(size)     == 2^(size * Unit)
Unsigned(v, size) == v % Modulus(size)
Signed(v, size) ==
    LET u == Unsigned(v, size) IN IF 2 * u < Modulus(size) THEN u ELSE u - Modulus(size)
UINT(v) == Unsigned(v, INT)

UNITY_DISPLAY_STYLE ==
    [range : {"INT", "UINT", "HEX"}, size : {1, 2, 4, 8}] \cup [range : {"CHAR"}, size : {1}]
RangeInt(style) == style.range \in {"INT", "CHAR"}

UNITY_COMPARISON ==
    [NOT_EQUAL        |-> {},          GREATER_THAN     |-> {"greater"},
     GREATER_OR_EQUAL |-> {"greater", "equal"},
     SMALLER_THAN     |-> {"smaller"}, SMALLER_OR_EQUAL |-> {"smaller", "equal"}]

-----------------------------------------------------------------------------
(* What is printed: the digits of a number, with its base and its sign.    *)

Printed(minus, base, digits) == [minus |-> minus, base |-> base, digits |-> digits]

UnityPrintNumberUnsigned(number) ==
    LET power == CHOOSE k \in 0 .. 9 : number \div 10^k <= 9 /\ \A l \in 0 .. k - 1 : number \div 10^l > 9
    IN  Printed(FALSE, 10, [i \in 1 .. power + 1 |-> (number \div 10^(power + 1 - i)) % 10])

UnityPrintNumber(number) ==
    [UnityPrintNumberUnsigned(UINT(IF number < 0 THEN -number ELSE number))
        EXCEPT !.minus = number < 0]

UNITY_MAX_NIBBLES == 2 * INT
UnityPrintNumberHex(number, nibbles_to_print) ==
    LET base == 2^(Unit \div 2)
        nibbles == Min({nibbles_to_print, UNITY_MAX_NIBBLES})
    IN  Printed(FALSE, base, [i \in 1 .. nibbles |-> (number \div base^(nibbles - i)) % base])

\* A character that can be printed stands for its code.
UnityPrintNumberByStyle(number, style) ==
    CASE style.range = "CHAR" -> UnityPrintNumberHex(UINT(number), 2)
      [] style.range = "INT"  -> UnityPrintNumber(number)
      [] style.range = "UINT" -> UnityPrintNumberUnsigned(UINT(number))
      [] style.range = "HEX"  -> UnityPrintNumberHex(UINT(number), 2 * style.size)

\* As many bits as an int has, the lowest ones.
UnityPrintMask(mask, number) ==
    LET bit(word, i) == (UINT(word) \div 2^(UNITY_INT_WIDTH - i)) % 2
    IN  [i \in 1 .. UNITY_INT_WIDTH |->
            IF bit(mask, i) = 0 THEN "X" ELSE IF bit(number, i) = 1 THEN "1" ELSE "0"]

-----------------------------------------------------------------------------
(* The verdicts. *)

UnityAssertBits(mask, expected, actual) ==
    IF UINT(mask) & UINT(expected) = UINT(mask) & UINT(actual) THEN Holds
    ELSE Fails("bits", <<>>, <<UnityPrintMask(mask, expected), UnityPrintMask(mask, actual)>>)

UnityAssertEqualNumber(expected, actual, style) ==
    IF expected = actual THEN Holds
    ELSE Fails("differ", <<>>, <<UnityPrintNumberByStyle(expected, style),
                                 UnityPrintNumberByStyle(actual, style)>>)

\* The order of two numbers of a style.  A mutant of it: always as UNITY_INT.
LessAsInt(a, b, style) == a < b
Less(a, b, style) == IF RangeInt(style) THEN a < b ELSE UINT(a) < UINT(b)

UnityAssertGreaterOrLessOrEqualNumber(threshold, actual, compare, style) ==
    IF \/ threshold = actual /\ "equal" \notin compare
       \/ Less(threshold, actual, style) /\ "smaller" \in compare
       \/ Less(actual, threshold, style) /\ "greater" \in compare
    THEN Fails("order", <<>>, <<UnityPrintNumberByStyle(actual, style),
                                UnityPrintNumberByStyle(threshold, style)>>)
    ELSE Holds

Within(delta, expected, actual, style) ==
    UINT(IF Less(expected, actual, style) THEN actual - expected ELSE expected - actual) <= delta

UnityAssertNumbersWithin(delta, expected, actual, style) ==
    IF Within(delta, expected, actual, style) THEN Holds
    ELSE Fails("differ", <<>>, <<UnityPrintNumberByStyle(expected, style),
                                 UnityPrintNumberByStyle(actual, style)>>)

Pointless == Fails("pointless", <<>>, <<>>)

UnityIsOneArrayNull(expected, actual) == expected.at # actual.at /\ 0 \in {expected.at, actual.at}

\* The walk through two arrays, n elements of them: Good(i) says whether the
\* elements i agree, Show(i) is what is printed of the first ones that do not.
ArrayVerdict(expected, actual, n, Good(_), Show(_)) ==
    IF n = 0 THEN Pointless
    ELSE IF expected.at = actual.at THEN Holds
    ELSE IF UnityIsOneArrayNull(expected, actual)
         THEN Fails(IF expected.at = 0 THEN "expected null" ELSE "actual null", <<>>, <<>>)
    ELSE LET bad == {i \in 1 .. n : ~Good(i)}
         IN  IF bad = {} THEN Holds ELSE Fails("differ", <<Min(bad) - 1>>, Show(Min(bad)))

Element(array, i, flags) == array.elem[IF flags = "ARRAY_TO_VAL" THEN 1 ELSE i]

\* Elements are read with their sign, in steps of the style's size; a failing UINT
\* that is shorter than an int is printed without it.
NumberArrayVerdict(expected, actual, n, style, flags, Good(_, _)) ==
    LET expect_val(i) == Signed(Element(expected, i, flags), style.size)
        actual_val(i) == Signed(actual.elem[i], style.size)
        text(v) == UnityPrintNumberByStyle(
                       IF style.range = "UINT" /\ style.size * Unit < UNITY_INT_WIDTH
                       THEN Unsigned(v, style.size) ELSE v,
                       style)
    IN  ArrayVerdict(expected, actual, n, LAMBDA i : Good(expect_val(i), actual_val(i)),
                     LAMBDA i : <<text(expect_val(i)), text(actual_val(i))>>)

UnityAssertEqualIntArray(expected, actual, n, style, flags) ==
    NumberArrayVerdict(expected, actual, n, style, flags, LAMBDA e, a : e = a)

UnityAssertNumbersArrayWithin(delta, expected, actual, n, style, flags) ==
    NumberArrayVerdict(expected, actual, n, style, flags, LAMBDA e, a : Within(delta, e, a, style))

\* The static union that EACH_EQUAL compares with, and its address.
UnityQuickCompare == 1
UnityNumToPtr(num, size) == [at |-> UnityQuickCompare, elem |-> <<Unsigned(num, size)>>]

-----------------------------------------------------------------------------
(* Floats: a multiple of the precision, an infinity with its sign, or NaN. *)

Float(n) == [kind |-> "finite", val |-> n]
Inf(s)   == [kind |-> "inf", val |-> s]
NaN      == [kind |-> "nan", val |-> 0]
isinf(f) == f.kind = "inf"
isnan(f) == f.kind = "nan"

Minus(a, b) ==
    IF isnan(a) \/ isnan(b) \/ (isinf(a) /\ a = b) THEN NaN
    ELSE IF isinf(a) THEN a ELSE IF isinf(b) THEN Inf(-b.val) ELSE Float(a.val - b.val)
TimesPrecision(f) == IF f.kind = "finite" THEN Float(f.val \div Precision) ELSE f

UnityFloatsWithin(delta, expected, actual) ==
    LET diff == Minus(actual, expected)
    IN  \/ isinf(expected) /\ expected = actual
        \/ isnan(expected) /\ isnan(actual)
        \/ /\ ~isnan(diff) /\ ~isinf(diff)
           /\ ~(delta.kind = "finite" /\ Max({diff.val, -diff.val}) > Max({delta.val, -delta.val}))

UnityAssertFloatsWithin(delta, expected, actual) ==
    IF UnityFloatsWithin(delta, expected, actual) THEN Holds
    ELSE Fails("differ", <<>>, <<expected, actual>>)

UnityAssertEqualFloatArray(expected, actual, n, flags) ==
    LET e(i) == Element(expected, i, flags)
    IN  ArrayVerdict(expected, actual, n,
                     LAMBDA i : UnityFloatsWithin(TimesPrecision(e(i)), e(i), actual.elem[i]),
                     LAMBDA i : <<e(i), actual.elem[i]>>)

UNITY_FLOAT_TRAIT == [not : BOOLEAN, trait : {"INF", "NEG_INF", "NAN", "DET"}]
UnityAssertFloatSpecial(actual, style) ==
    LET is_trait == CASE style.trait = "INF"     -> actual = Inf(1)
                      [] style.trait = "NEG_INF" -> actual = Inf(-1)
                      [] style.trait = "NAN"     -> isnan(actual)
                      [] style.trait = "DET"     -> ~isinf(actual) /\ ~isnan(actual)
    IN  IF is_trait = ~style.not THEN Holds ELSE Fails("trait", <<>>, <<actual>>)

-----------------------------------------------------------------------------
(* Strings and memory *)

SameString(expected, actual) ==
    IF expected.at # 0 /\ actual.at # 0 THEN expected.chars = actual.chars
    ELSE expected.at = actual.at

\* Up to the terminator, and at most length characters.
UpTo(string, length) ==
    [string EXCEPT !.chars = SubSeq(@, 1, Min({length, Len(@)}))]

UnityAssertEqualString(expected, actual) ==
    IF SameString(expected, actual) THEN Holds ELSE Fails("differ", <<>>, <<expected, actual>>)

UnityAssertEqualStringLen(expected, actual, length) ==
    UnityAssertEqualString(UpTo(expected, length), UpTo(actual, length))

\* With ARRAY_TO_VAL expected is a string and not an array of them.
UnityAssertEqualStringArray(expected, actual, n, flags) ==
    LET expd(i) == IF flags = "ARRAY_TO_VAL" THEN expected ELSE expected.elem[i]
    IN  ArrayVerdict(expected, actual, n, LAMBDA i : SameString(expd(i), actual.elem[i]),
                     LAMBDA i : <<expd(i), actual.elem[i]>>)

\* The elements are of length bytes: the byte that differs is counted within its
\* element.
UnityAssertEqualMemory(expected, actual, length, n, flags) ==
    LET exp(k) == expected.elem[IF flags = "ARRAY_TO_VAL" THEN ((k - 1) % length) + 1 ELSE k]
        verdict == ArrayVerdict(expected, actual, length * n, LAMBDA k : exp(k) = actual.elem[k],
                                LAMBDA k : <<exp(k), actual.elem[k]>>)
    IN  IF verdict.why # "differ" THEN verdict
        ELSE [verdict EXCEPT !.at = <<@[1] \div length, @[1] % length>>]
==============================================================================
