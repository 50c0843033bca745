------------------------------ MODULE UnityRunner ------------------------------
(***************************************************************************)
(* A run of a test program: the default runner of unity.c or the one of    *)
(* unity_fixture.c, the pointers that a fixture puts back and the counting *)
(* allocator of unity_memory.c.  Program gives every suite its runner and  *)
(* its arguments, its tests, the operations a test may call, at most max   *)
(* of them, and whether the tests are guarded: set-up begins with          *)
(* UnityMalloc_StartTest and tear-down ends with UnityMalloc_EndTest.      *)
(* Outcome is what a call of an assertion macro comes to.                  *)
(*                                                                         *)
(* TEST_PROTECT is setjmp and TEST_ABORT is longjmp: a test that is        *)
(* aborted goes on with what follows the last TEST_PROTECT.                *)
(***************************************************************************)
EXTENDS UnityMessages, Integers, Sequences, FiniteSets

CONSTANTS Suites, Program(_), Outcome(_), Blocks, PtrVars, PtrInit, UNITY_MAX_POINTERS

ASSUME MemoryAssumption  == IsFiniteSet(Blocks)
ASSUME PointerAssumption ==
    UNITY_MAX_POINTERS \in Nat /\ PtrInit = [p \in PtrVars |-> PtrInit[p]]

\* unity.c has no message that reads like the one of UnityMalloc_EndTest.
ASSUME OutcomeAssumption ==
    \A s \in Suites : \A o \in Program(s).ops :
        o.op = "assert" => Outcome(o.call) # Fails("leaks", <<>>, <<>>)

\* UT_PTR_SET is of unity_fixture.h: it is used by tests that its runner runs.
ASSUME ProgramAssumption ==
    \A s \in Suites :
        /\ Program(s).max \in Nat
        /\ \A o \in Program(s).ops :
              /\ o.op = "set" => Program(s).runner = "fixture" /\ o.pointer \in PtrVars
              /\ o.op \in {"malloc", "realloc"} => o.size \in Nat
              /\ o.op = "fail after" => o.count \in Int

VARIABLES
    suite, argv,        \* the suite that runs, and the arguments not read yet
    UnityFixture,       \* the options
    Unity,              \* the counters and flags of the test in progress
    at, next, r,        \* where the run is, the next test, the repetition
    calls,              \* operations called in this test
    ptr, pointer_store, \* the pointers, and what is pushed to put back
    heap,               \* the blocks: size, overrun, and whether of this test
    malloc_count, malloc_fail_countdown,
    asked, report,      \* history: the last assertion, and what it printed
    said, first,        \* history: the verdicts printed in this test, its first event
    ended,              \* history: this test came to UnityMalloc_EndTest
    tally               \* history: what the tests came to since UnityBegin

memoryVars  == <<heap, malloc_count, malloc_fail_countdown>>
pointerVars == <<ptr, pointer_store>>
testHistory == <<asked, report, said, first, ended>>
mainVars    == <<suite, argv, UnityFixture, next, r>>
unityVars   == <<mainVars, Unity, at, calls, pointerVars, memoryVars, testHistory, tally>>

NoTally == [run |-> 0, FAIL |-> 0, IGNORE |-> 0]
Cleared == [NumberOfTests |-> 0, TestFailures |-> 0, TestIgnores |-> 0,
            CurrentTestFailed |-> 0, CurrentTestIgnored |-> 0]
NoCall  == [macro |-> "none"]
NoBlock == [size |-> 0, overrun |-> FALSE, own |-> FALSE]
MALLOC_DONT_FAIL == -1
program == Program(suite)
fixture == program.runner = "fixture"

UnityInit ==
    /\ suite \in Suites /\ argv = program.argv
    /\ UnityFixture = [Verbose |-> 0, Silent |-> 0, RepeatCount |-> 1,
                       NameFilter |-> <<>>, GroupFilter |-> <<>>]
    /\ Unity = Cleared /\ at = (IF fixture THEN "options" ELSE "begin") /\ next = 1 /\ r = 0
    /\ calls = 0 /\ ptr = PtrInit /\ pointer_store = <<>>
    /\ heap = [b \in Blocks |-> NoBlock]
    /\ malloc_count = 0 /\ malloc_fail_countdown = MALLOC_DONT_FAIL
    /\ asked = NoCall /\ report = Holds /\ said = <<>> /\ first = "none" /\ ended = FALSE
    /\ tally = NoTally

GoTo(a) == at' = a
InTest  == at \in {"body", "teardown"}

-----------------------------------------------------------------------------
(* UnityGetCommandLineOptions: an argument is the sequence of its letters. *)

Digit == [c \in {"0", "1", "2"} |-> IF c = "0" THEN 0 ELSE IF c = "1" THEN 1 ELSE 2]

\* The option at the head of argv, with the argument it takes.
UnityGetCommandLineOptions ==
    LET arg  == Head(argv)
        more == Tail(argv)
        Set(options, rest) == UnityFixture' = options /\ argv' = rest /\ UNCHANGED at
        Quit == GoTo("done") /\ UNCHANGED <<UnityFixture, argv>>
    IN
    /\ at = "options" /\ argv # <<>>
    /\ CASE arg \in {<<"-", "h">>, <<"-", "-", "help">>} -> Quit
         [] arg = <<"-", "v">> -> Set([UnityFixture EXCEPT !.Verbose = 1], more)
         [] arg = <<"-", "s">> -> Set([UnityFixture EXCEPT !.Silent = 1], more)
         [] arg \in {<<"-", "g">>, <<"-", "n">>} ->
                IF more = <<>> THEN Quit
                ELSE Set(IF arg[2] = "g" THEN [UnityFixture EXCEPT !.GroupFilter = more[1]]
                         ELSE [UnityFixture EXCEPT !.NameFilter = more[1]], Tail(more))
         [] arg = <<"-", "r">> ->
                IF more # <<>> /\ more[1][1] \in DOMAIN Digit
                THEN Set([UnityFixture EXCEPT !.RepeatCount = Digit[more[1][1]]], Tail(more))
                ELSE Set([UnityFixture EXCEPT !.RepeatCount = 2], more)
         [] OTHER -> Set(UnityFixture, more)
    /\ UNCHANGED <<suite, next, r, Unity, calls, pointerVars, memoryVars, testHistory, tally>>

StartRuns ==
    /\ at = "options" /\ argv = <<>> /\ GoTo("begin")
    /\ UNCHANGED <<mainVars, Unity, calls, pointerVars, memoryVars, testHistory, tally>>

-----------------------------------------------------------------------------
(* The runs of UnityMain, or the one of a main with UNITY_BEGIN, RUN_TEST  *)
(* and UNITY_END.                                                          *)

UnityBegin ==
    /\ at = "begin"
    /\ IF r < UnityFixture.RepeatCount
       THEN GoTo("tests") /\ Unity' = Cleared /\ tally' = NoTally
       ELSE GoTo("done") /\ UNCHANGED <<Unity, tally>>
    /\ next' = 1
    /\ UNCHANGED <<suite, argv, UnityFixture, r, calls, pointerVars, memoryVars, testHistory>>

\* strstr
selected(filter, name) ==
    \E k \in 0 .. Len(name) - Len(filter) : SubSeq(name, k + 1, k + Len(filter)) = filter

testAndGroupSelected(t) ==
    fixture => selected(UnityFixture.NameFilter, t.name) /\ selected(UnityFixture.GroupFilter, t.group)

\* UnityTestRunner or UnityDefaultTestRun, up to the first TEST_PROTECT.
UnityTestRunner ==
    LET t == program.tests[next] IN
    /\ at = "tests" /\ next <= Len(program.tests)
    /\ testAndGroupSelected(t) /\ ~t.ignored
    /\ Unity' = [Unity EXCEPT !.NumberOfTests = @ + 1]
    /\ pointer_store' = IF fixture THEN <<>> ELSE pointer_store
    /\ heap' = [b \in Blocks |-> [heap[b] EXCEPT !.own = FALSE]]
    /\ calls' = 0 /\ said' = <<>> /\ first' = "none" /\ ended' = FALSE
    /\ tally' = [tally EXCEPT !.run = @ + 1]
    /\ GoTo("setup")
    /\ UNCHANGED <<mainVars, ptr, malloc_count, malloc_fail_countdown, asked, report>>

UnityIgnoreTest ==
    LET t == program.tests[next] IN
    /\ at = "tests" /\ next <= Len(program.tests)
    /\ testAndGroupSelected(t) /\ t.ignored
    /\ Unity' = [Unity EXCEPT !.NumberOfTests = @ + 1, !.TestIgnores = @ + 1]
    /\ tally' = [tally EXCEPT !.run = @ + 1, !.IGNORE = @ + 1]
    /\ next' = next + 1
    /\ UNCHANGED <<suite, argv, UnityFixture, r, at, calls, pointerVars, memoryVars, testHistory>>

PassOver ==
    /\ at = "tests" /\ next <= Len(program.tests) /\ ~testAndGroupSelected(program.tests[next])
    /\ next' = next + 1
    /\ UNCHANGED <<suite, argv, UnityFixture, r, Unity, at, calls, pointerVars, memoryVars,
                   testHistory, tally>>

UnityEnd ==
    /\ at = "tests" /\ next > Len(program.tests)
    /\ r' = r + 1 /\ GoTo("begin")
    /\ UNCHANGED <<suite, argv, UnityFixture, next, Unity, calls, pointerVars, memoryVars,
                   testHistory, tally>>

-----------------------------------------------------------------------------
(* Inside a test *)

\* longjmp to the frame of the last TEST_PROTECT, which now returns 1.  A mutant
\* of it: the undoing is protected together with the tear-down.
abort_past_undo == GoTo(IF at \in {"setup", "body"} THEN "teardown" ELSE "conclude")
TEST_ABORT ==
    GoTo(IF at \in {"setup", "body"} THEN "teardown" ELSE IF fixture THEN "undo" ELSE "conclude")

Flagged == Unity.CurrentTestFailed # 0 \/ Unity.CurrentTestIgnored # 0

\* RETURN_IF_FAIL_OR_IGNORE, with which the functions begin.  TEST_ASSERT calls
\* UnityFail only when its condition does not hold.  A mutant of it:
\* forgotten in UnityAssertNumbersWithin.
forgotten_in_within(macro, outcome) ==
    Flagged /\ macro # "WITHIN" /\ ~(macro = "TEST_ASSERT" /\ outcome = Holds)
RETURN_IF_FAIL_OR_IGNORE(macro, outcome) ==
    Flagged /\ ~(macro = "TEST_ASSERT" /\ outcome = Holds)

\* The first event that decides the test, whatever the program makes of it.
Event(kind) == first' = IF first = "none" THEN kind ELSE first

\* UnityFail, and what the failing assertions do.
UnityFail(printed) ==
    /\ TEST_ABORT /\ Event("FAIL")
    /\ IF Flagged THEN UNCHANGED <<Unity, said, report>>
       ELSE /\ Unity' = [Unity EXCEPT !.CurrentTestFailed = 1]
            /\ said' = Append(said, "FAIL") /\ report' = printed

UnityIgnore ==
    /\ TEST_ABORT /\ Event("IGNORE")
    /\ IF Flagged THEN UNCHANGED <<Unity, said>>
       ELSE /\ Unity' = [Unity EXCEPT !.CurrentTestIgnored = 1]
            /\ said' = Append(said, "IGNORE")
    /\ UNCHANGED <<asked, report, ended, pointerVars, memoryVars>>

\* An assertion; UnityAssertNumbersWithin assigns CurrentTestFailed either way.
UnityAssert(c) ==
    LET outcome == Outcome(c) IN
    /\ IF RETURN_IF_FAIL_OR_IGNORE(c.macro, outcome)
       THEN TEST_ABORT /\ UNCHANGED <<Unity, asked, report, said, first>>
       ELSE /\ asked' = c
            /\ IF outcome # Holds THEN UnityFail(outcome)
               ELSE /\ Unity' = IF c.macro = "WITHIN" THEN [Unity EXCEPT !.CurrentTestFailed = 0]
                                ELSE Unity
                    /\ report' = Holds /\ UNCHANGED <<at, said, first>>
    /\ UNCHANGED <<ended, pointerVars, memoryVars>>

TEST_FAIL(message) == UnityFail(Fails(message, <<>>, <<>>)) /\ asked' = NoCall /\ UNCHANGED ended
Goes == UNCHANGED <<at, Unity, testHistory>>

TEST_PASS == TEST_ABORT /\ UNCHANGED <<Unity, testHistory, pointerVars, memoryVars>>

UnityPointer_Set(pointer, newValue) ==
    /\ IF Len(pointer_store) >= UNITY_MAX_POINTERS
       THEN TEST_FAIL("Too many pointers set") /\ UNCHANGED pointerVars
       ELSE /\ pointer_store' = Append(pointer_store, [pointer |-> pointer, old_value |-> ptr[pointer]])
            /\ ptr' = [ptr EXCEPT ![pointer] = newValue]
            /\ Goes
    /\ UNCHANGED memoryVars

-----------------------------------------------------------------------------
(* unity_memory.c *)

UnityMalloc_StartTest == malloc_count' = 0 /\ malloc_fail_countdown' = MALLOC_DONT_FAIL

UnityMalloc_MakeMallocFailAfterCount(countdown) ==
    /\ malloc_fail_countdown' = countdown
    /\ Goes /\ UNCHANGED <<pointerVars, heap, malloc_count>>

Counted == [malloc_count |-> malloc_count, countdown |-> malloc_fail_countdown, heap |-> heap]
Becomes(m) == malloc_count' = m.malloc_count /\ malloc_fail_countdown' = m.countdown /\ heap' = m.heap

\* What becomes of the state m with unity_malloc(size), and the block or NULL:
\* the injected failure, size 0, no memory, or any free block.
unity_malloc(m, size) ==
    IF m.countdown = 0 THEN {[m |-> m, mem |-> {}]}
    ELSE LET counted == IF m.countdown = MALLOC_DONT_FAIL THEN m ELSE [m EXCEPT !.countdown = @ - 1]
         IN  {[m |-> counted, mem |-> {}]} \cup
             {[m |-> [counted EXCEPT !.malloc_count = @ + 1,
                                     !.heap[b] = [size |-> size, overrun |-> FALSE, own |-> TRUE]],
               mem |-> {b}] : b \in {x \in Blocks : size > 0 /\ m.heap[x] = NoBlock}}

\* A mutant of release_memory: the count is left as it is.
release_uncounted(m, b) == [m EXCEPT !.heap[b] = NoBlock]
release_memory(m, b) == [m EXCEPT !.malloc_count = @ - 1, !.heap[b] = NoBlock]

\* unity_malloc and unity_calloc, as a test calls them.
CallMalloc(size) ==
    \E got \in unity_malloc(Counted, size) : Becomes(got.m) /\ Goes /\ UNCHANGED pointerVars

Mine == {b \in Blocks : heap[b].own}

unity_free(mem) ==
    /\ \/ mem = {} /\ Goes /\ UNCHANGED memoryVars
       \/ \E b \in mem : /\ Becomes(release_memory(Counted, b))
                         /\ IF heap[b].overrun THEN TEST_FAIL("overrun in free") ELSE Goes
    /\ UNCHANGED pointerVars

unity_realloc(b, size) ==
    /\ IF heap[b].overrun
       THEN Becomes(release_memory(Counted, b)) /\ TEST_FAIL("overrun in realloc")
       ELSE /\ Goes
            /\ IF size = 0 THEN Becomes(release_memory(Counted, b))
               ELSE IF heap[b].size >= size THEN Becomes(Counted)
               ELSE \E got \in unity_malloc(Counted, size) :
                        Becomes(IF got.mem = {} THEN got.m ELSE release_memory(got.m, b))
    /\ UNCHANGED pointerVars

\* The test writes past the end of a block of its own.
Overrun(b) ==
    /\ heap' = [heap EXCEPT ![b].overrun = TRUE]
    /\ Goes /\ UNCHANGED <<pointerVars, malloc_count, malloc_fail_countdown>>

UnityMalloc_EndTest ==
    /\ malloc_fail_countdown' = MALLOC_DONT_FAIL
    /\ ended' = TRUE /\ asked' = NoCall
    /\ IF malloc_count # 0 THEN UnityFail(Fails("leaks", <<>>, <<>>))
       ELSE TEST_ABORT /\ UNCHANGED <<Unity, said, first, report>>
    /\ UNCHANGED <<heap, malloc_count, pointerVars>>

-----------------------------------------------------------------------------
(* The phases of a test *)

Setup ==
    /\ at = "setup" /\ GoTo("body")
    /\ IF program.guarded THEN UnityMalloc_StartTest
       ELSE UNCHANGED <<malloc_count, malloc_fail_countdown>>
    /\ UNCHANGED <<mainVars, Unity, calls, pointerVars, heap, testHistory, tally>>

\* One operation of the body, or of the tear-down; those of a set-up are as those
\* of a body.
Operation ==
    /\ InTest /\ calls < program.max /\ calls' = calls + 1
    /\ \E o \in program.ops :
          \/ o.op = "assert" /\ UnityAssert(o.call)
          \/ o.op = "ignore" /\ UnityIgnore
          \/ o.op = "pass"   /\ TEST_PASS
          \/ o.op = "set"    /\ UnityPointer_Set(o.pointer, o.value)
          \/ o.op = "malloc" /\ CallMalloc(o.size)
          \/ o.op = "fail after" /\ UnityMalloc_MakeMallocFailAfterCount(o.count)
          \/ o.op = "free"    /\ \E mem \in {{}} \cup {{b} : b \in Mine} : unity_free(mem)
          \/ o.op = "realloc" /\ \E b \in Mine : unity_realloc(b, o.size)
          \/ o.op = "overrun" /\ \E b \in Mine : Overrun(b)
    /\ UNCHANGED <<mainVars, tally>>

BodyReturns ==
    /\ at = "body" /\ GoTo("teardown")
    /\ UNCHANGED <<mainVars, Unity, calls, pointerVars, memoryVars, testHistory, tally>>

TeardownReturns ==
    /\ at = "teardown"
    /\ IF program.guarded THEN UnityMalloc_EndTest
       ELSE TEST_ABORT /\ UNCHANGED <<Unity, pointerVars, memoryVars, testHistory>>
    /\ UNCHANGED <<mainVars, calls, tally>>

\* The last push is put back first.
UnityPointer_UndoAllSets ==
    /\ at = "undo"
    /\ IF pointer_store = <<>> THEN GoTo("conclude") /\ UNCHANGED pointerVars
       ELSE LET last == pointer_store[Len(pointer_store)]
            IN  /\ ptr' = [ptr EXCEPT ![last.pointer] = last.old_value]
                /\ pointer_store' = SubSeq(pointer_store, 1, Len(pointer_store) - 1)
                /\ UNCHANGED at
    /\ UNCHANGED <<mainVars, Unity, calls, memoryVars, testHistory, tally>>

\* UnityConcludeTest; UnityConcludeFixtureTest prints PASS only when verbose.
UnityConcludeTest ==
    LET verdict == IF Unity.CurrentTestIgnored # 0 THEN "IGNORE"
                   ELSE IF Unity.CurrentTestFailed # 0 THEN "FAIL" ELSE "PASS"
    IN
    /\ at = "conclude" /\ GoTo("tests") /\ next' = next + 1
    /\ Unity' = [Unity EXCEPT !.TestIgnores  = @ + (IF verdict = "IGNORE" THEN 1 ELSE 0),
                              !.TestFailures = @ + (IF verdict = "FAIL" THEN 1 ELSE 0),
                              !.CurrentTestFailed = 0, !.CurrentTestIgnored = 0]
    /\ said' = IF verdict = "PASS" /\ (fixture => UnityFixture.Verbose = 1)
               THEN Append(said, "PASS") ELSE said
    /\ tally' = IF first = "none" THEN tally ELSE [tally EXCEPT ![first] = @ + 1]
    /\ UNCHANGED <<suite, argv, UnityFixture, r, calls, pointerVars, memoryVars,
                   asked, report, first, ended>>

UnityNext ==
    \/ UnityGetCommandLineOptions \/ StartRuns
    \/ UnityBegin \/ UnityTestRunner \/ UnityIgnoreTest \/ PassOver \/ UnityEnd
    \/ Setup \/ Operation \/ BodyReturns \/ TeardownReturns
    \/ UnityPointer_UndoAllSets \/ UnityConcludeTest

UnitySpec == UnityInit /\ [][UnityNext]_unityVars
==============================================================================
