-------------------------------- MODULE MCUnity --------------------------------
(***************************************************************************)
(* One suite for every assertion macro and type, which may call it once    *)
(* with boundary values of the type, and a few suites that call the other  *)
(* operations.  A char of two bits: UNITY_INT8 has four values, an int has *)
(* eight bits and UNITY_INT sixteen.                                       *)
(***************************************************************************)
EXTENDS UnityProps

PowerOf(suffix) == Modulus(SizeNamed(suffix))

\* The limits of the type; a number without a width in its name is compared whole.
Limits(suffix) == {PowerOf(suffix)} \cup (IF suffix \in IntNames THEN {Modulus(INT)} ELSE {})

\* int values around the limits of the type, signed and unsigned, and beyond.
Values(suffix) ==
    {v \in UNION {{0, 1, m \div 2 - 1, m \div 2, m - 1, m, m + 1, -1, -(m \div 2)} : m \in Limits(suffix)} :
        v >= -(Modulus(INT) \div 2) /\ v < Modulus(INT) \div 2}
Deltas(suffix) == UNION {{0, 1, m \div 2, m - 1} : m \in Limits(suffix)}

Raw(suffix) == LET m == PowerOf(suffix) IN {0, m \div 2 - 1, m \div 2, m - 1}
Two(suffix) == LET m == PowerOf(suffix) IN {0, m \div 2}
NoArray == [at |-> 0, elem |-> <<>>]

\* A size_t is two units of memory, of which each is read as an unsigned int.
Units(suffix) == IF suffix = "size_t" THEN 2 ELSE 1
NumArrays(suffix, a) ==
    [at : {a}, elem : [1 .. Units(suffix) -> Raw(suffix)] \cup [1 .. 2 * Units(suffix) -> Two(suffix)]]
ArrayPairs(suffix) ==
    {p \in NumArrays(suffix, 2) \X NumArrays(suffix, 3) : Len(p[1].elem) = Len(p[2].elem)} \cup
    {<<NoArray, x>> : x \in {NoArray, [at |-> 3, elem |-> <<0>>]}} \cup
    {<<[at |-> 3, elem |-> <<0>>], x>> : x \in {NoArray, [at |-> 3, elem |-> <<0>>]}}
Lengths(p, suffix) == IF p[1].at = p[2].at \/ p[1].at = 0 \/ p[2].at = 0 THEN {0, 1}
                      ELSE {Len(p[2].elem) \div Units(suffix)}

NumberCalls(m, s) ==
    CASE m = "WITHIN" ->
             [macro : {m}, suffix : {s}, expected : Values(s), actual : Values(s), delta : Deltas(s)]
      [] m = "EQUAL_ARRAY" ->
             UNION {[macro : {m}, suffix : {s}, expected : {p[1]}, actual : {p[2]}, n : Lengths(p, s)] :
                       p \in ArrayPairs(s)}
      [] m = "ARRAY_WITHIN" ->
             UNION {[macro : {m}, suffix : {s}, expected : {p[1]}, actual : {p[2]}, n : Lengths(p, s),
                     delta : Deltas(s)] : p \in ArrayPairs(s)}
      [] m = "EACH_EQUAL" ->
             UNION {[macro : {m}, suffix : {s}, expected : Values(s), actual : {a},
                     n : {0, Len(a.elem) \div Units(s)}] : a \in NumArrays(s, 2)} \cup
             [macro : {m}, suffix : {s}, expected : {0}, actual : {NoArray}, n : {1}]
      [] OTHER -> [macro : {m}, suffix : {s}, expected : Values(s), actual : Values(s)]

MCFloats == {Float(0), Float(4), Float(-4), Float(8), Inf(1), Inf(-1), NaN}
Near     == MCFloats \cup {Float(5), Float(6), Float(-5), Float(1)}
FloatCalls(m) ==
    CASE m = "EQUAL_FLOAT"  -> [macro : {m}, expected : MCFloats, actual : Near]
      [] m = "FLOAT_WITHIN" ->
             [macro : {m}, expected : MCFloats, actual : Near,
              delta : {Float(0), Float(2), Float(-2), Inf(1), Inf(-1)}]
      [] m = "EQUAL_FLOAT_ARRAY" ->
             [macro : {m}, expected : {[at |-> 2, elem |-> <<e, f>>] : e \in {Float(4), NaN}, f \in MCFloats},
              actual : {[at |-> 3, elem |-> <<e, f>>] : e \in {Float(5), NaN}, f \in Near}, n : {2}]
      [] m = "EACH_EQUAL_FLOAT" ->
             [macro : {m}, expected : MCFloats,
              actual : {[at |-> 3, elem |-> <<e, f>>] : e, f \in {Float(4), Float(5), Inf(1), NaN}}, n : {2}]
      [] m = "FLOAT_IS" -> [macro : {m}, actual : MCFloats, style : UNITY_FLOAT_TRAIT]

MCStrings(a) == {[at |-> a, chars |-> s] : s \in {<<>>, <<"a">>, <<"b">>, <<"a", "b">>, <<"a", "c">>}}
Null == [at |-> 0, chars |-> <<>>]
StringCalls(m) ==
    LET lists(a) == {[at |-> a, elem |-> <<s, t>>] : s \in MCStrings(a + 10), t \in MCStrings(a + 20) \cup {Null}}
    IN
    CASE m = "EQUAL_STRING" ->
             [macro : {m}, expected : MCStrings(2) \cup {Null}, actual : MCStrings(3) \cup {Null}]
      [] m = "EQUAL_STRING_LEN" ->
             [macro : {m}, expected : MCStrings(2) \cup {Null}, actual : MCStrings(3) \cup {Null}, len : 0 .. 3]
      [] m = "EQUAL_STRING_ARRAY" -> [macro : {m}, expected : lists(2), actual : lists(3), n : {2}]
      [] m = "EACH_EQUAL_STRING"  -> [macro : {m}, expected : MCStrings(2), actual : lists(3), n : {2}]

Bytes(a, n) == {[at |-> a, elem |-> b] : b \in [1 .. n -> {0, 7}]}
MemoryCalls(m) ==
    CASE m = "EQUAL_MEMORY" ->
             [macro : {m}, expected : Bytes(2, 3), actual : Bytes(3, 3), len : {2, 3}]
      [] m = "EQUAL_MEMORY_ARRAY" ->
             [macro : {m}, expected : Bytes(2, 4), actual : Bytes(3, 4), len : {2}, n : {1, 2}]
      [] m = "EACH_EQUAL_MEMORY" ->
             [macro : {m}, expected : Bytes(2, 2), actual : Bytes(3, 4), len : {2}, n : {2}]

Words == {0, 1, 255, 256, 32767, -1, -256}
BitCalls(m) ==
    [macro : {m}, mask : Words, expected : (IF m = "BITS" THEN Words ELSE {0}), actual : Words,
     message : BOOLEAN]

Test(name, group) == [name |-> name, group |-> group, ignored |-> FALSE]
Ignored(name, group) == [Test(name, group) EXCEPT !.ignored = TRUE]
Suite(runner, arguments, tests, ops, max, guarded) ==
    [runner |-> runner, argv |-> arguments, tests |-> tests, ops |-> ops, max |-> max, guarded |-> guarded]
Asserts(calls_) ==
    Suite("default", <<>>, <<Test(<<"t">>, <<"g">>)>>, [op : {"assert"}, call : calls_], 1, FALSE)

-----------------------------------------------------------------------------
(* The suites of the other operations *)

True  == [op |-> "assert", call |-> [macro |-> "TEST_ASSERT", is |-> TRUE, condition |-> TRUE]]
False == [op |-> "assert", call |-> [macro |-> "TEST_ASSERT", is |-> TRUE, condition |-> FALSE]]
WithinCall(a) ==
    [op |-> "assert", call |-> [macro |-> "WITHIN", suffix |-> "INT", expected |-> 0, actual |-> a, delta |-> 1]]
EqualCall(a) ==
    [op |-> "assert", call |-> [macro |-> "EQUAL", suffix |-> "INT", expected |-> 0, actual |-> a]]
Ignore == [op |-> "ignore"]
Pass   == [op |-> "pass"]
SetTo(p, v) == [op |-> "set", pointer |-> p, value |-> v]
MallocOf(n) == [op |-> "malloc", size |-> n]

Verdicts == {True, False, WithinCall(0), WithinCall(2), EqualCall(0), EqualCall(1), Ignore, Pass}
Pointers == {SetTo(p, v) : p \in PtrVars, v \in {1, 2}}
Memory == {MallocOf(0), MallocOf(1), [op |-> "fail after", count |-> 0], [op |-> "fail after", count |-> 1],
           [op |-> "free"], [op |-> "overrun"], [op |-> "realloc", size |-> 0], [op |-> "realloc", size |-> 1],
           [op |-> "realloc", size |-> 2], False, Ignore, Pass}

One == <<Test(<<"t", "1">>, <<"g">>)>>
TwoTests == One \o <<Test(<<"t", "2">>, <<"h">>)>>
Mixed == <<Test(<<"t", "1">>, <<"g">>), Ignored(<<"t", "2">>, <<"h">>), Test(<<"u">>, <<"h">>)>>

General ==
    [verdicts |-> Suite("default", <<>>, TwoTests, Verdicts, 3, FALSE),
     fixture  |-> Suite("fixture", <<<<"-", "v">>>>, TwoTests, Verdicts \cup Pointers, 3, FALSE),
     pointers |-> Suite("fixture", <<>>, TwoTests, Pointers \cup {False}, 3, FALSE),
     memory   |-> Suite("fixture", <<>>, One, Memory, 5, TRUE),
     leaks    |-> Suite("fixture", <<>>, TwoTests, Memory, 3, TRUE),
     help     |-> Suite("fixture", << <<"-", "s">>, <<"-", "h">> >>, Mixed, {False}, 1, FALSE),
     groups   |-> Suite("fixture", << <<"-", "g">>, <<"h">>, <<"x">> >>, Mixed, Verdicts, 1, FALSE),
     names    |-> Suite("fixture", << <<"-", "n">>, <<"t">> >>, Mixed, Verdicts, 1, FALSE),
     noname   |-> Suite("fixture", << <<"-", "n">> >>, Mixed, Verdicts, 1, FALSE),
     again    |-> Suite("fixture", << <<"-", "r">>, <<"-", "v">> >>, Mixed, {False, Ignore, True}, 1, FALSE),
     never    |-> Suite("fixture", << <<"-", "r">>, <<"0">> >>, Mixed, {False}, 1, FALSE)]

NumberSuites == UNION {{<<m, s>> : s \in TypedMacros[m]} : m \in DOMAIN TypedMacros}
OtherSuites  == {<<m, "">> : m \in FloatMacros \cup {"FLOAT_IS"} \cup StringMacros \cup MemoryMacros \cup BitMacros}
MCSuites     == NumberSuites \cup OtherSuites \cup {<<"suite", g>> : g \in DOMAIN General}

MCProgram(n) ==
    CASE n \in NumberSuites -> Asserts(NumberCalls(n[1], n[2]))
      [] n[1] \in StringMacros -> Asserts(StringCalls(n[1]))
      [] n[1] \in MemoryMacros -> Asserts(MemoryCalls(n[1]))
      [] n[1] \in BitMacros    -> Asserts(BitCalls(n[1]))
      [] n[1] = "suite"        -> General[n[2]]
      [] OTHER                 -> Asserts(FloatCalls(n[1]))

MCBlocks  == {1, 2}
MCPtrVars == {"p", "q"}
MCPtrInit == [p \in MCPtrVars |-> 0]
==============================================================================
