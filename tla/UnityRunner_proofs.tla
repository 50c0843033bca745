--------------------------- MODULE UnityRunner_proofs ---------------------------
(***************************************************************************)
(* Proofs about the runs of test programs: of every suite, of any tests    *)
(* and operations, any assertions, any number of blocks and pointers, a    *)
(* test has one verdict, its pointers come back and its leaks are found.   *)
(***************************************************************************)
EXTENDS UnityRunnerProps, FiniteSetTheorems, TLAPS

PtrValues ==
    {PtrInit[p] : p \in PtrVars} \cup
    {o.value : o \in {x \in UNION {Program(s).ops : s \in Suites} : x.op = "set"}}

InATest == at \in {"setup", "body", "teardown", "undo", "conclude"}

\* The counters and flags, and the history of them.
UnityRecord ==
    [NumberOfTests : Nat, TestFailures : Nat, TestIgnores : Nat,
     CurrentTestFailed : {0, 1}, CurrentTestIgnored : {0, 1}]
TallyRecord == [run : Nat, FAIL : Nat, IGNORE : Nat]
VerdictType ==
    /\ Unity \in UnityRecord /\ tally \in TallyRecord
    /\ first \in {"none", "FAIL", "IGNORE"} /\ ended \in BOOLEAN

\* The pointers: the store is never longer than its array.
PushRecord == [pointer : PtrVars, old_value : PtrValues]
PointerType ==
    /\ ptr \in [PtrVars -> PtrValues]
    /\ pointer_store \in Seq(PushRecord)
    /\ Len(pointer_store) <= UNITY_MAX_POINTERS

Heaps == [Blocks -> [size : Nat, overrun : BOOLEAN, own : BOOLEAN]]
MemoryType ==
    /\ heap \in Heaps
    /\ malloc_count \in Int /\ malloc_fail_countdown \in Int

-----------------------------------------------------------------------------
(* What a step leaves alone *)

\* The suite that runs is the same for the whole run, and with it its runner,
\* its tests and its operations.
LEMMA SuiteStays ==
    ASSUME UnityNext PROVE suite' = suite /\ program' = program /\ fixture' = fixture
<1>1. suite' = suite
  BY DEF UnityNext, UnityGetCommandLineOptions, StartRuns, UnityBegin, UnityTestRunner,
         UnityIgnoreTest, PassOver, UnityEnd, Setup, Operation, BodyReturns, TeardownReturns,
         UnityPointer_UndoAllSets, UnityConcludeTest, mainVars
<1> QED BY <1>1 DEF program, fixture

\* Reading the options touches nothing of the tests.
LEMMA OptionsOnly ==
    ASSUME UnityGetCommandLineOptions
    PROVE  /\ at = "options" /\ at' \in {"options", "done"}
           /\ UNCHANGED <<suite, next, r, Unity, calls, pointerVars, memoryVars, testHistory, tally>>
<1> DEFINE arg  == Head(argv)
           more == Tail(argv)
<1>1. at = "options"
      /\ UNCHANGED <<suite, next, r, Unity, calls, pointerVars, memoryVars, testHistory, tally>>
  BY DEF UnityGetCommandLineOptions
<1>2. at' \in {"options", "done"}
  <2>1. CASE arg \in {<<"-", "h">>, <<"-", "-", "help">>}
    BY <2>1, <1>1 DEF UnityGetCommandLineOptions, GoTo
  <2>2. CASE arg \in {<<"-", "g">>, <<"-", "n">>}
    BY <2>2, <1>1 DEF UnityGetCommandLineOptions, GoTo
  <2> QED BY <1>1, <2>1, <2>2 DEF UnityGetCommandLineOptions, GoTo
<1> QED BY <1>1, <1>2

-----------------------------------------------------------------------------
(* One verdict for each test: the flags of the test in progress, and what  *)
(* was printed of it, are those of the first event that decides it; the    *)
(* counts are the tally.                                                   *)

Flag(kind) == IF first = kind THEN 1 ELSE 0

VerdictInv ==
    /\ tally.run = Unity.NumberOfTests
    /\ tally.FAIL = Unity.TestFailures /\ tally.IGNORE = Unity.TestIgnores
    /\ InATest =>
          /\ Unity.CurrentTestFailed = Flag("FAIL") /\ Unity.CurrentTestIgnored = Flag("IGNORE")
          /\ said = (IF first = "none" THEN <<>> ELSE <<first>>)
    /\ ~InATest => Unity.CurrentTestFailed = 0 /\ Unity.CurrentTestIgnored = 0

Verdict == VerdictType /\ VerdictInv

Leaks == Fails("leaks", <<>>, <<>>)

\* Counting keeps the type of the records, and counts what it says.
LEMMA CountIgnored ==
    ASSUME NEW u \in UnityRecord, NEW v, v = [u EXCEPT !.NumberOfTests = @ + 1, !.TestIgnores = @ + 1]
    PROVE  /\ v \in UnityRecord
           /\ v.NumberOfTests = u.NumberOfTests + 1 /\ v.TestFailures = u.TestFailures
           /\ v.TestIgnores = u.TestIgnores + 1
           /\ v.CurrentTestFailed = u.CurrentTestFailed
           /\ v.CurrentTestIgnored = u.CurrentTestIgnored
<1> DEFINE a == [u EXCEPT !.NumberOfTests = @ + 1]
<1>1. a \in UnityRecord /\ a.NumberOfTests = u.NumberOfTests + 1
      /\ a.TestFailures = u.TestFailures /\ a.TestIgnores = u.TestIgnores
      /\ a.CurrentTestFailed = u.CurrentTestFailed
      /\ a.CurrentTestIgnored = u.CurrentTestIgnored
  BY DEF UnityRecord
<1>2. v = [a EXCEPT !.TestIgnores = @ + 1]
  OBVIOUS
<1> HIDE DEF a
<1> QED BY <1>1, <1>2 DEF UnityRecord

\* The counters after a test that came to f failures and g ignores.
Concluded(u, f, g) ==
    [u EXCEPT !.TestIgnores = @ + g, !.TestFailures = @ + f,
              !.CurrentTestFailed = 0, !.CurrentTestIgnored = 0]

LEMMA CountVerdict ==
    ASSUME NEW u \in UnityRecord, NEW f \in Nat, NEW g \in Nat
    PROVE  /\ Concluded(u, f, g) \in UnityRecord
           /\ Concluded(u, f, g).CurrentTestFailed = 0
           /\ Concluded(u, f, g).CurrentTestIgnored = 0
           /\ Concluded(u, f, g).NumberOfTests = u.NumberOfTests
           /\ Concluded(u, f, g).TestFailures = u.TestFailures + f
           /\ Concluded(u, f, g).TestIgnores = u.TestIgnores + g
<1> DEFINE a == [u EXCEPT !.TestIgnores = @ + g]
           b == [a EXCEPT !.TestFailures = @ + f]
<1>1. Concluded(u, f, g) = [b EXCEPT !.CurrentTestFailed = 0, !.CurrentTestIgnored = 0]
  BY DEF Concluded
<1>2. a \in UnityRecord /\ a.TestIgnores = u.TestIgnores + g
      /\ a.NumberOfTests = u.NumberOfTests /\ a.TestFailures = u.TestFailures
  BY DEF UnityRecord
<1> HIDE DEF a
<1>3. b \in UnityRecord /\ b.TestFailures = a.TestFailures + f
      /\ b.NumberOfTests = a.NumberOfTests /\ b.TestIgnores = a.TestIgnores
  BY <1>2 DEF UnityRecord
<1> HIDE DEF b
<1> QED BY <1>1, <1>2, <1>3 DEF UnityRecord

\* A flag is up exactly when the test is decided.
LEMMA FlaggedIsDecided ==
    ASSUME Verdict, InATest PROVE Flagged <=> first # "none"
BY DEF Verdict, VerdictType, UnityRecord, TallyRecord, VerdictInv, Flagged, Flag

\* An abort goes on inside the test.
LEMMA AbortStaysInTest ==
    ASSUME InTest, TEST_ABORT
    PROVE  /\ InATest /\ InATest'
           /\ at' = IF at = "body" THEN "teardown" ELSE IF fixture THEN "undo" ELSE "conclude"
BY DEF InTest, TEST_ABORT, GoTo, InATest

\* What touches neither the flags nor the history keeps the verdict.
LEMMA VerdictStands ==
    ASSUME Verdict, InATest, InATest', UNCHANGED <<Unity, said, first, tally>>, ended' \in BOOLEAN
    PROVE  Verdict'
BY DEF Verdict, VerdictType, UnityRecord, TallyRecord, VerdictInv, Flag

\* A failure decides the test if nothing did, and else changes nothing.
LEMMA FailureVerdict ==
    ASSUME Verdict, InTest, NEW printed, UnityFail(printed), UNCHANGED tally, ended' \in BOOLEAN
    PROVE  Verdict'
<1>1. InATest /\ InATest'
  BY AbortStaysInTest DEF UnityFail
<1>2. CASE Flagged
  <2>1. UNCHANGED <<Unity, said, first>>
    BY <1>1, <1>2, FlaggedIsDecided DEF UnityFail, Event
  <2> QED BY <1>1, <2>1, VerdictStands
<1>3. CASE ~Flagged
  <2>1. first = "none" /\ first' = "FAIL" /\ said = <<>>
    BY <1>1, <1>3, FlaggedIsDecided DEF UnityFail, Event, Verdict, VerdictInv
  <2>2. said' = <<"FAIL">>
    BY <1>3, <2>1 DEF UnityFail
  <2>3. Unity' = [Unity EXCEPT !.CurrentTestFailed = 1]
    BY <1>3 DEF UnityFail
  <2> QED BY <1>1, <2>1, <2>2, <2>3 DEF Verdict, VerdictType, UnityRecord, TallyRecord, VerdictInv, Flag
<1> QED BY <1>2, <1>3

LEMMA IgnoreVerdict ==
    ASSUME Verdict, InTest, UnityIgnore, UNCHANGED tally
    PROVE  Verdict'
<1>1. InATest /\ InATest' /\ ended' = ended /\ ended \in BOOLEAN
  BY AbortStaysInTest DEF UnityIgnore, Verdict, VerdictType, UnityRecord, TallyRecord
<1>2. CASE Flagged
  <2>1. UNCHANGED <<Unity, said, first>>
    BY <1>1, <1>2, FlaggedIsDecided DEF UnityIgnore, Event
  <2> QED BY <1>1, <2>1, VerdictStands
<1>3. CASE ~Flagged
  <2>1. first = "none" /\ first' = "IGNORE" /\ said = <<>>
    BY <1>1, <1>3, FlaggedIsDecided DEF UnityIgnore, Event, Verdict, VerdictInv
  <2>2. said' = <<"IGNORE">>
    BY <1>3, <2>1 DEF UnityIgnore
  <2>3. Unity' = [Unity EXCEPT !.CurrentTestIgnored = 1]
    BY <1>3 DEF UnityIgnore
  <2> QED BY <1>1, <2>1, <2>2, <2>3 DEF Verdict, VerdictType, UnityRecord, TallyRecord, VerdictInv, Flag
<1> QED BY <1>2, <1>3

\* An assertion that holds takes no failure back: UnityAssertNumbersWithin, which
\* assigns the flag, does not come to that in a test that is decided.
LEMMA AssertionVerdict ==
    ASSUME Verdict, InTest, NEW c, UnityAssert(c), UNCHANGED tally
    PROVE  Verdict'
<1> DEFINE outcome == Outcome(c)
<1>1. InATest /\ ended' = ended /\ ended \in BOOLEAN
  BY DEF InTest, InATest, UnityAssert, Verdict, VerdictType, UnityRecord, TallyRecord
<1>2. CASE RETURN_IF_FAIL_OR_IGNORE(c.macro, outcome)
  <2>1. TEST_ABORT /\ UNCHANGED <<Unity, said, first>>
    BY <1>2 DEF UnityAssert
  <2> QED BY <1>1, <2>1, AbortStaysInTest, VerdictStands
<1>3. CASE ~RETURN_IF_FAIL_OR_IGNORE(c.macro, outcome) /\ outcome # Holds
  <2>1. UnityFail(outcome)
    BY <1>3 DEF UnityAssert
  <2> QED BY <1>1, <2>1, FailureVerdict
<1>4. CASE ~RETURN_IF_FAIL_OR_IGNORE(c.macro, outcome) /\ outcome = Holds
  <2>1. /\ UNCHANGED <<at, said, first>>
        /\ Unity' = IF c.macro = "WITHIN" THEN [Unity EXCEPT !.CurrentTestFailed = 0] ELSE Unity
    BY <1>4 DEF UnityAssert
  <2>2. CASE c.macro = "WITHIN"
    <3>1. ~Flagged
      BY <1>4, <2>2 DEF RETURN_IF_FAIL_OR_IGNORE
    <3>2. Unity.CurrentTestFailed = 0 /\ Unity' = Unity
      BY <2>1, <2>2, <3>1 DEF Flagged, Verdict, VerdictType, UnityRecord, TallyRecord
    <3> QED BY <1>1, <2>1, <3>2, VerdictStands DEF InATest
  <2>3. CASE c.macro # "WITHIN"
    BY <1>1, <2>1, <2>3, VerdictStands DEF InATest
  <2> QED BY <2>2, <2>3
<1> QED BY <1>2, <1>3, <1>4

\* Whatever a test calls, before or after it was aborted, in tear-down too.
LEMMA OperationVerdict ==
    ASSUME Verdict, Operation PROVE Verdict'
<1>1. InTest /\ InATest /\ UNCHANGED tally /\ ended \in BOOLEAN
  BY DEF Operation, InTest, InATest, Verdict, VerdictType, UnityRecord, TallyRecord
<1>2. ASSUME Goes PROVE Verdict'
  <2>1. UNCHANGED <<at, Unity, said, first, ended>>
    BY <1>2 DEF Goes, testHistory
  <2> QED BY <1>1, <2>1, VerdictStands DEF InATest
<1>3. ASSUME NEW message, TEST_FAIL(message) PROVE Verdict'
  BY <1>1, <1>3, FailureVerdict DEF TEST_FAIL
<1>4. PICK o \in program.ops :
          \/ o.op = "assert" /\ UnityAssert(o.call)
          \/ o.op = "ignore" /\ UnityIgnore
          \/ o.op = "pass"   /\ TEST_PASS
          \/ o.op = "set"    /\ UnityPointer_Set(o.pointer, o.value)
          \/ o.op = "malloc" /\ CallMalloc(o.size)
          \/ o.op = "fail after" /\ UnityMalloc_MakeMallocFailAfterCount(o.count)
          \/ o.op = "free"    /\ \E mem \in {{}} \cup {{b} : b \in Mine} : unity_free(mem)
          \/ o.op = "realloc" /\ \E b \in Mine : unity_realloc(b, o.size)
          \/ o.op = "overrun" /\ \E b \in Mine : Overrun(b)
  BY DEF Operation
<1>5. CASE o.op = "assert" /\ UnityAssert(o.call)
  BY <1>1, <1>5, AssertionVerdict
<1>6. CASE o.op = "ignore" /\ UnityIgnore
  BY <1>1, <1>6, IgnoreVerdict
<1>7. CASE o.op = "pass" /\ TEST_PASS
  <2>1. TEST_ABORT /\ UNCHANGED <<Unity, said, first, ended>>
    BY <1>7 DEF TEST_PASS, testHistory
  <2> QED BY <1>1, <2>1, AbortStaysInTest, VerdictStands
<1>8. CASE o.op = "set" /\ UnityPointer_Set(o.pointer, o.value)
  BY <1>2, <1>3, <1>8 DEF UnityPointer_Set
<1>9. CASE o.op = "malloc" /\ CallMalloc(o.size)
  BY <1>2, <1>9 DEF CallMalloc
<1>10. CASE o.op = "fail after" /\ UnityMalloc_MakeMallocFailAfterCount(o.count)
  BY <1>2, <1>10 DEF UnityMalloc_MakeMallocFailAfterCount
<1>11. CASE o.op = "free" /\ \E mem \in {{}} \cup {{b} : b \in Mine} : unity_free(mem)
  BY <1>2, <1>3, <1>11 DEF unity_free
<1>12. CASE o.op = "realloc" /\ \E b \in Mine : unity_realloc(b, o.size)
  BY <1>2, <1>3, <1>12 DEF unity_realloc
<1>13. CASE o.op = "overrun" /\ \E b \in Mine : Overrun(b)
  BY <1>2, <1>13 DEF Overrun
<1> QED BY <1>4, <1>5, <1>6, <1>7, <1>8, <1>9, <1>10, <1>11, <1>12, <1>13

\* The tear-down of a guarded test ends with the look for leaks, which fails it.
LEMMA TeardownVerdict ==
    ASSUME Verdict, TeardownReturns PROVE Verdict'
<1>1. InTest /\ UNCHANGED tally
  BY DEF TeardownReturns, InTest
<1>2. CASE program.guarded /\ malloc_count # 0
  <2>1. UnityFail(Leaks) /\ ended' = TRUE
    BY <1>2 DEF TeardownReturns, UnityMalloc_EndTest, Leaks
  <2> QED BY <1>1, <2>1, FailureVerdict
<1>3. CASE ~(program.guarded /\ malloc_count # 0)
  <2>1. TEST_ABORT /\ UNCHANGED <<Unity, said, first>> /\ ended' \in BOOLEAN
    BY <1>3 DEF TeardownReturns, UnityMalloc_EndTest, testHistory, Verdict, VerdictType, UnityRecord, TallyRecord
  <2> QED BY <1>1, <2>1, AbortStaysInTest, VerdictStands
<1> QED BY <1>2, <1>3

\* What is counted at the end of a test is its verdict.
LEMMA ConcludeVerdict ==
    ASSUME Verdict, UnityConcludeTest PROVE Verdict'
<1> DEFINE f == Flag("FAIL")
           g == Flag("IGNORE")
<1>1. at = "conclude" /\ InATest /\ ~InATest' /\ UNCHANGED <<first, ended>>
  BY DEF UnityConcludeTest, GoTo, InATest
<1>2. /\ Unity.CurrentTestFailed = f /\ Unity.CurrentTestIgnored = g
      /\ Unity \in UnityRecord /\ tally \in TallyRecord
      /\ first \in {"none", "FAIL", "IGNORE"} /\ ended \in BOOLEAN
      /\ f \in Nat /\ g \in Nat
  BY <1>1 DEF Verdict, VerdictInv, VerdictType, Flag
<1>3. Unity' = Concluded(Unity, f, g)
  <2>1. CASE first = "none"
    BY <1>2, <2>1 DEF UnityConcludeTest, Flag, Concluded
  <2>2. CASE first = "FAIL"
    BY <1>2, <2>2 DEF UnityConcludeTest, Flag, Concluded
  <2>3. CASE first = "IGNORE"
    BY <1>2, <2>3 DEF UnityConcludeTest, Flag, Concluded
  <2> QED BY <1>2, <2>1, <2>2, <2>3
<1>4. /\ tally' \in TallyRecord /\ tally'.run = tally.run
      /\ tally'.FAIL = tally.FAIL + f /\ tally'.IGNORE = tally.IGNORE + g
  <2>1. CASE first = "none"
    BY <1>2, <2>1 DEF UnityConcludeTest, Flag, TallyRecord
  <2>2. CASE first = "FAIL"
    BY <1>2, <2>2 DEF UnityConcludeTest, Flag, TallyRecord
  <2>3. CASE first = "IGNORE"
    BY <1>2, <2>3 DEF UnityConcludeTest, Flag, TallyRecord
  <2> QED BY <1>2, <2>1, <2>2, <2>3
<1> HIDE DEF f, g
<1> DEFINE u == Unity
           v == Concluded(u, f, g)
<1> HIDE DEF u
<1>5. /\ v \in UnityRecord /\ v.CurrentTestFailed = 0 /\ v.CurrentTestIgnored = 0
      /\ v.NumberOfTests = u.NumberOfTests /\ v.TestFailures = u.TestFailures + f
      /\ v.TestIgnores = u.TestIgnores + g
  <2>1. u \in UnityRecord
    BY <1>2 DEF u
  <2> QED BY <1>2, <2>1, CountVerdict
<1>6. Unity' = v /\ Unity = u
  BY <1>3 DEF u
<1> HIDE DEF v
<1> QED BY <1>1, <1>2, <1>4, <1>5, <1>6 DEF Verdict, VerdictType, VerdictInv

LEMMA VerdictInit == ASSUME UnityInit PROVE Verdict
BY DEF UnityInit, Cleared, NoTally, Verdict, VerdictType, UnityRecord, TallyRecord, VerdictInv, InATest

\* Every step keeps the verdict.
LEMMA VerdictStep ==
    ASSUME Verdict, [UnityNext]_unityVars PROVE Verdict'
<1>1. ASSUME InATest = InATest', UNCHANGED <<Unity, said, first, ended, tally>> PROVE Verdict'
  BY <1>1 DEF Verdict, VerdictType, UnityRecord, TallyRecord, VerdictInv, Flag
<1>2. CASE UnityGetCommandLineOptions
  BY <1>1, <1>2, OptionsOnly DEF InATest, testHistory
<1>3. CASE StartRuns
  BY <1>1, <1>3 DEF StartRuns, GoTo, InATest, testHistory
<1>4. CASE UnityBegin
  <2>1. ~InATest /\ ~InATest' /\ UNCHANGED <<said, first, ended>>
    BY <1>4 DEF UnityBegin, GoTo, InATest, testHistory
  <2>2. (Unity' = Cleared /\ tally' = NoTally) \/ UNCHANGED <<Unity, tally>>
    BY <1>4 DEF UnityBegin
  <2> QED BY <2>1, <2>2 DEF Verdict, VerdictType, UnityRecord, TallyRecord, VerdictInv, Cleared, NoTally
<1>5. CASE UnityTestRunner
  <2>1. /\ ~InATest /\ InATest' /\ first' = "none" /\ said' = <<>> /\ ended' = FALSE
        /\ Unity' = [Unity EXCEPT !.NumberOfTests = @ + 1]
        /\ tally' = [tally EXCEPT !.run = @ + 1]
    BY <1>5 DEF UnityTestRunner, GoTo, InATest
  <2>2. Unity' \in UnityRecord /\ tally' \in TallyRecord
    BY <2>1 DEF Verdict, VerdictType, UnityRecord, TallyRecord
  <2>3. /\ Unity'.NumberOfTests = Unity.NumberOfTests + 1
        /\ Unity'.TestFailures = Unity.TestFailures /\ Unity'.TestIgnores = Unity.TestIgnores
        /\ Unity'.CurrentTestFailed = 0 /\ Unity'.CurrentTestIgnored = 0
    BY <2>1 DEF Verdict, VerdictType, UnityRecord, TallyRecord, VerdictInv
  <2>4. tally'.run = tally.run + 1 /\ tally'.FAIL = tally.FAIL /\ tally'.IGNORE = tally.IGNORE
    BY <2>1 DEF Verdict, VerdictType, TallyRecord
  <2> QED BY <2>1, <2>2, <2>3, <2>4 DEF Verdict, VerdictType, UnityRecord, TallyRecord, VerdictInv, Flag
<1>6. CASE UnityIgnoreTest
  <2>1. /\ ~InATest /\ ~InATest' /\ UNCHANGED <<said, first, ended>>
        /\ Unity' = [Unity EXCEPT !.NumberOfTests = @ + 1, !.TestIgnores = @ + 1]
        /\ tally' = [tally EXCEPT !.run = @ + 1, !.IGNORE = @ + 1]
    BY <1>6 DEF UnityIgnoreTest, InATest, testHistory
  <2>2. /\ Unity' \in UnityRecord
        /\ Unity'.NumberOfTests = Unity.NumberOfTests + 1
        /\ Unity'.TestFailures = Unity.TestFailures
        /\ Unity'.TestIgnores = Unity.TestIgnores + 1
        /\ Unity'.CurrentTestFailed = Unity.CurrentTestFailed
        /\ Unity'.CurrentTestIgnored = Unity.CurrentTestIgnored
    BY <2>1, CountIgnored, ZenonT(20) DEF Verdict, VerdictType
  <2> DEFINE w == [tally EXCEPT !.run = @ + 1]
  <2>4. /\ w \in TallyRecord /\ w.run = tally.run + 1
        /\ w.FAIL = tally.FAIL /\ w.IGNORE = tally.IGNORE
        /\ tally' = [w EXCEPT !.IGNORE = @ + 1]
    BY <2>1 DEF Verdict, VerdictType, TallyRecord
  <2> HIDE DEF w
  <2>5. /\ tally' \in TallyRecord /\ tally'.run = tally.run + 1
        /\ tally'.FAIL = tally.FAIL /\ tally'.IGNORE = tally.IGNORE + 1
    BY <2>4 DEF TallyRecord
  <2> QED BY <2>1, <2>2, <2>5 DEF Verdict, VerdictType, VerdictInv
<1>7. CASE PassOver
  BY <1>1, <1>7 DEF PassOver, InATest, testHistory
<1>8. CASE UnityEnd
  BY <1>1, <1>8 DEF UnityEnd, GoTo, InATest, testHistory
<1>9. CASE Setup
  BY <1>1, <1>9 DEF Setup, GoTo, InATest, testHistory
<1>10. CASE Operation
  BY <1>10, OperationVerdict
<1>11. CASE BodyReturns
  BY <1>1, <1>11 DEF BodyReturns, GoTo, InATest, testHistory
<1>12. CASE TeardownReturns
  BY <1>12, TeardownVerdict
<1>13. CASE UnityPointer_UndoAllSets
  BY <1>1, <1>13 DEF UnityPointer_UndoAllSets, GoTo, InATest, testHistory
<1>14. CASE UnityConcludeTest
  BY <1>14, ConcludeVerdict
<1>15. CASE UNCHANGED unityVars
  BY <1>1, <1>15 DEF unityVars, InATest, testHistory
<1> QED
  BY <1>2, <1>3, <1>4, <1>5, <1>6, <1>7, <1>8, <1>9, <1>10, <1>11, <1>12, <1>13, <1>14, <1>15
  DEF UnityNext

\* A test that ran has exactly one verdict, the one of the first event that decided
\* it, and the counts that UnityEnd prints are those of the verdicts: for any tests,
\* any operations in any order and number, any outcome of the assertions, and any
\* number of repetitions.  (unity.c:22, UnityConcludeTest and
\* UnityConcludeFixtureTest, UnityFail, UnityIgnore.)
THEOREM EachTestHasOneVerdict == UnitySpec => []OneVerdictPerTest
<1>1. UnityInit => Verdict
  BY VerdictInit
<1>2. Verdict /\ [UnityNext]_unityVars => Verdict'
  BY VerdictStep
<1>3. Verdict => OneVerdictPerTest
  BY DEF Verdict, VerdictType, UnityRecord, TallyRecord, VerdictInv, OneVerdictPerTest, InATest
<1> QED BY <1>1, <1>2, <1>3, PTL DEF UnitySpec

-----------------------------------------------------------------------------
(* The pointers come back: of every pointer the first push of the test is  *)
(* its value from before the test, and a pointer that was never pushed has *)
(* that value; taking the last push back keeps both, until none is left.   *)

\* No push before the i-th of the store s is of the same pointer.
FirstPush(s, i) == \A j \in 1 .. i - 1 : s[j].pointer # s[i].pointer

\* Taking the pushes of s back from the pointers x leads to PtrInit.
Restorable(s, x) ==
    /\ \A p \in PtrVars : (\A i \in DOMAIN s : s[i].pointer # p) => x[p] = PtrInit[p]
    /\ \A i \in DOMAIN s : FirstPush(s, i) => s[i].old_value = PtrInit[s[i].pointer]

PointerInv ==
    /\ ~InATest \/ ~fixture => ptr = PtrInit
    /\ fixture /\ InATest => Restorable(pointer_store, ptr)
    /\ fixture /\ at = "conclude" => pointer_store = <<>>
    /\ ~fixture => at # "undo"

Pointers == suite \in Suites /\ PointerType /\ PointerInv

\* A pointer is pushed with the value it has.
LEMMA PushIsRestorable ==
    ASSUME NEW s \in Seq(PushRecord), NEW x \in [PtrVars -> PtrValues], Restorable(s, x),
           NEW q \in PtrVars, NEW v \in PtrValues
    PROVE  Restorable(Append(s, [pointer |-> q, old_value |-> x[q]]), [x EXCEPT ![q] = v])
<1> DEFINE n == Len(s)
           e == [pointer |-> q, old_value |-> x[q]]
           t == Append(s, e)
           y == [x EXCEPT ![q] = v]
<1>1. /\ n \in Nat /\ DOMAIN s = 1 .. n
      /\ e \in PushRecord /\ e.pointer = q /\ e.old_value = x[q]
  BY DEF PushRecord
<1> HIDE DEF e
<1>2. /\ DOMAIN t = 1 .. n + 1 /\ t[n + 1] = e
      /\ \A i \in 1 .. n : t[i] = s[i]
  BY <1>1
<1>3. y[q] = v /\ \A p \in PtrVars \ {q} : y[p] = x[p]
  OBVIOUS
<1> HIDE DEF n, t, y
<1>4. ASSUME NEW p \in PtrVars, \A i \in DOMAIN t : t[i].pointer # p
      PROVE  y[p] = PtrInit[p]
  <2>1. p # q
    BY <1>1, <1>2, <1>4
  <2>2. \A i \in DOMAIN s : s[i].pointer # p
    BY <1>1, <1>2, <1>4
  <2> QED BY <1>3, <2>1, <2>2 DEF Restorable
<1>5. ASSUME NEW i \in DOMAIN t, FirstPush(t, i)
      PROVE  t[i].old_value = PtrInit[t[i].pointer]
  <2>1. CASE i \in 1 .. n
    <3>1. FirstPush(s, i)
      BY <1>1, <1>2, <1>5, <2>1 DEF FirstPush
    <3> QED BY <1>1, <1>2, <2>1, <3>1 DEF Restorable
  <2>2. CASE i = n + 1
    <3>1. \A j \in DOMAIN s : s[j].pointer # q
      BY <1>1, <1>2, <1>5, <2>2 DEF FirstPush
    <3> QED BY <1>1, <1>2, <2>2, <3>1 DEF Restorable
  <2> QED BY <1>1, <1>2, <2>1, <2>2
<1>6. Restorable(t, y)
  BY <1>4, <1>5 DEF Restorable
<1> QED BY <1>6 DEF t, y, e

\* The last push is taken back.
LEMMA PopIsRestorable ==
    ASSUME NEW s \in Seq(PushRecord), s # <<>>, NEW x \in [PtrVars -> PtrValues],
           Restorable(s, x)
    PROVE  /\ s[Len(s)] \in PushRecord
           /\ Restorable(SubSeq(s, 1, Len(s) - 1),
                         [x EXCEPT ![s[Len(s)].pointer] = s[Len(s)].old_value])
<1> DEFINE n == Len(s)
           e == s[n]
           q == e.pointer
           t == SubSeq(s, 1, n - 1)
           y == [x EXCEPT ![q] = e.old_value]
<1>1. n \in Nat \ {0} /\ DOMAIN s = 1 .. n /\ e \in PushRecord
  OBVIOUS
<1>2. q \in PtrVars /\ e.old_value \in PtrValues
  BY <1>1 DEF PushRecord
<1>3. DOMAIN t = 1 .. n - 1 /\ \A i \in 1 .. n - 1 : t[i] = s[i]
  BY <1>1
<1>4. y[q] = e.old_value /\ \A p \in PtrVars \ {q} : y[p] = x[p]
  BY <1>2
<1> HIDE DEF n, t, y
<1>5. ASSUME NEW p \in PtrVars, \A i \in DOMAIN t : t[i].pointer # p
      PROVE  y[p] = PtrInit[p]
  <2>1. \A i \in 1 .. n - 1 : s[i].pointer # p
    BY <1>3, <1>5
  <2>2. CASE p = q
    <3>1. FirstPush(s, n) /\ n \in DOMAIN s
      BY <1>1, <2>1, <2>2 DEF FirstPush
    <3> QED BY <1>4, <2>2, <3>1 DEF Restorable
  <2>3. CASE p # q
    <3>1. \A i \in DOMAIN s : s[i].pointer # p
      BY <1>1, <2>1, <2>3
    <3> QED BY <1>4, <2>3, <3>1 DEF Restorable
  <2> QED BY <2>2, <2>3
<1>6. ASSUME NEW i \in DOMAIN t, FirstPush(t, i)
      PROVE  t[i].old_value = PtrInit[t[i].pointer]
  <2>1. i \in 1 .. n - 1 /\ i \in DOMAIN s /\ t[i] = s[i]
    BY <1>1, <1>3
  <2>2. FirstPush(s, i)
    BY <1>1, <1>3, <1>6, <2>1 DEF FirstPush
  <2> QED BY <2>1, <2>2 DEF Restorable
<1>7. Restorable(t, y)
  BY <1>5, <1>6 DEF Restorable
<1> QED BY <1>1, <1>7 DEF t, y, n

\* An operation goes on in the test: it stays where it is or aborts.
LEMMA OperationGoesOn ==
    ASSUME Operation
    PROVE  /\ at \in {"body", "teardown"}
           /\ \/ at' = at
              \/ at = "body" /\ at' = "teardown"
              \/ at = "teardown" /\ at' = IF fixture THEN "undo" ELSE "conclude"
<1>1. InTest
  BY DEF Operation
<1> DEFINE GoesOn == at' = at \/ TEST_ABORT
<1>2. Goes => GoesOn
  BY DEF Goes
<1>3. ASSUME NEW message, TEST_FAIL(message) PROVE GoesOn
  BY <1>3 DEF TEST_FAIL, UnityFail
<1>4. GoesOn
  <2>1. ASSUME NEW c, UnityAssert(c) PROVE GoesOn
    BY <2>1 DEF UnityAssert, UnityFail
  <2>2. ASSUME NEW q, NEW v, UnityPointer_Set(q, v) PROVE GoesOn
    BY <1>2, <1>3, <2>2 DEF UnityPointer_Set
  <2>3. ASSUME NEW n, CallMalloc(n) PROVE GoesOn
    BY <1>2, <2>3 DEF CallMalloc
  <2>4. ASSUME NEW n, UnityMalloc_MakeMallocFailAfterCount(n) PROVE GoesOn
    BY <1>2, <2>4 DEF UnityMalloc_MakeMallocFailAfterCount
  <2>5. ASSUME NEW mem, unity_free(mem) PROVE GoesOn
    BY <1>2, <1>3, <2>5 DEF unity_free
  <2>6. ASSUME NEW b, NEW n, unity_realloc(b, n) PROVE GoesOn
    BY <1>2, <1>3, <2>6 DEF unity_realloc
  <2>7. ASSUME NEW b, Overrun(b) PROVE GoesOn
    BY <1>2, <2>7 DEF Overrun
  <2>8. UnityIgnore \/ TEST_PASS => GoesOn
    BY DEF UnityIgnore, TEST_PASS
  <2> HIDE DEF GoesOn
  <2> QED BY <2>1, <2>2, <2>3, <2>4, <2>5, <2>6, <2>7, <2>8 DEF Operation
<1> QED BY <1>1, <1>4 DEF InTest, TEST_ABORT, GoTo

\* Of the operations only UnityPointer_Set, while there is room, touches a pointer.
Push(o) ==
    /\ o.op = "set" /\ Len(pointer_store) < UNITY_MAX_POINTERS /\ at' = at
    /\ pointer_store' = Append(pointer_store, [pointer |-> o.pointer, old_value |-> ptr[o.pointer]])
    /\ ptr' = [ptr EXCEPT ![o.pointer] = o.value]

LEMMA OperationPushes ==
    ASSUME Operation, PointerType
    PROVE  UNCHANGED pointerVars \/ \E o \in program.ops : Push(o)
<1> DEFINE Kept == UNCHANGED pointerVars
<1>1. ASSUME NEW c, UnityAssert(c) PROVE Kept
  BY <1>1 DEF UnityAssert
<1>2. ASSUME NEW n, CallMalloc(n) PROVE Kept
  BY <1>2 DEF CallMalloc
<1>3. ASSUME NEW n, UnityMalloc_MakeMallocFailAfterCount(n) PROVE Kept
  BY <1>3 DEF UnityMalloc_MakeMallocFailAfterCount, pointerVars
<1>4. ASSUME NEW mem, unity_free(mem) PROVE Kept
  BY <1>4 DEF unity_free
<1>5. ASSUME NEW b, NEW n, unity_realloc(b, n) PROVE Kept
  BY <1>5 DEF unity_realloc
<1>6. ASSUME NEW b, Overrun(b) PROVE Kept
  BY <1>6 DEF Overrun, pointerVars
<1>7. UnityIgnore \/ TEST_PASS => Kept
  BY DEF UnityIgnore, TEST_PASS, pointerVars
<1>8. ASSUME NEW o, o.op = "set", UnityPointer_Set(o.pointer, o.value)
      PROVE  Kept \/ Push(o)
  <2>1. Len(pointer_store) \in Nat
    BY DEF PointerType
  <2>2. CASE Len(pointer_store) >= UNITY_MAX_POINTERS
    BY <1>8, <2>2 DEF UnityPointer_Set
  <2>3. CASE Len(pointer_store) < UNITY_MAX_POINTERS
    <3>1. ~(Len(pointer_store) >= UNITY_MAX_POINTERS)
      BY <2>1, <2>3, PointerAssumption
    <3>2. /\ ptr' = [ptr EXCEPT ![o.pointer] = o.value] /\ Goes
          /\ pointer_store' = Append(pointer_store, [pointer |-> o.pointer,
                                                     old_value |-> ptr[o.pointer]])
      BY <1>8, <3>1 DEF UnityPointer_Set
    <3> QED BY <1>8, <2>3, <3>2 DEF Goes, Push
  <2> QED BY <2>1, <2>2, <2>3, PointerAssumption
<1> HIDE DEF Kept
<1>9. Kept \/ \E o \in program.ops : Push(o)
  BY <1>1, <1>2, <1>3, <1>4, <1>5, <1>6, <1>7, <1>8 DEF Operation
<1> QED BY <1>9 DEF Kept

LEMMA OperationPointers ==
    ASSUME Pointers, Operation, fixture' = fixture, suite' = suite
    PROVE  Pointers'
<1>1. /\ InATest /\ InATest' /\ at # "conclude" /\ (fixture => at' # "conclude")
      /\ (~fixture => at' # "undo")
  BY OperationGoesOn DEF InATest, Pointers, PointerInv
<1>2. CASE UNCHANGED pointerVars
  BY <1>1, <1>2 DEF Pointers, PointerInv, PointerType, pointerVars
<1>3. ASSUME NEW o \in program.ops, Push(o) PROVE Pointers'
  <2>1. fixture /\ o.pointer \in PtrVars /\ o.value \in PtrValues
    BY <1>3, ProgramAssumption DEF Pointers, Push, program, fixture, PtrValues
  <2>2. /\ pointer_store \in Seq(PushRecord) /\ ptr \in [PtrVars -> PtrValues]
        /\ Restorable(pointer_store, ptr) /\ Len(pointer_store) < UNITY_MAX_POINTERS
    BY <1>1, <1>3, <2>1 DEF Pointers, PointerType, PointerInv, Push
  <2>3. Restorable(pointer_store', ptr')
    BY <1>3, <2>1, <2>2, PushIsRestorable DEF Push
  <2>4. [pointer |-> o.pointer, old_value |-> ptr[o.pointer]] \in PushRecord
    BY <2>1, <2>2 DEF PushRecord
  <2>5. PointerType'
    BY <1>3, <2>1, <2>2, <2>4, PointerAssumption DEF PointerType, Push
  <2> QED BY <1>1, <2>1, <2>3, <2>5 DEF Pointers, PointerInv
<1> QED BY <1>2, <1>3, OperationPushes DEF Pointers

LEMMA UndoPointers ==
    ASSUME Pointers, UnityPointer_UndoAllSets, fixture' = fixture, suite' = suite
    PROVE  Pointers'
<1>1. /\ fixture /\ InATest /\ Restorable(pointer_store, ptr)
      /\ pointer_store \in Seq(PushRecord) /\ ptr \in [PtrVars -> PtrValues]
  BY DEF UnityPointer_UndoAllSets, Pointers, PointerInv, PointerType, InATest
<1>2. CASE pointer_store = <<>>
  <2>1. at' = "conclude" /\ UNCHANGED pointerVars
    BY <1>2 DEF UnityPointer_UndoAllSets, GoTo
  <2> QED BY <1>1, <1>2, <2>1 DEF Pointers, PointerInv, PointerType, InATest, pointerVars
<1>3. CASE pointer_store # <<>>
  <2> DEFINE last == pointer_store[Len(pointer_store)]
  <2>1. /\ ptr' = [ptr EXCEPT ![last.pointer] = last.old_value] /\ at' = at
        /\ pointer_store' = SubSeq(pointer_store, 1, Len(pointer_store) - 1)
    BY <1>3 DEF UnityPointer_UndoAllSets
  <2>2. last \in PushRecord /\ Restorable(pointer_store', ptr')
    BY <1>1, <1>3, <2>1, PopIsRestorable
  <2>3. ptr' \in [PtrVars -> PtrValues]
    BY <1>1, <2>1, <2>2 DEF PushRecord
  <2>4. pointer_store' \in Seq(PushRecord) /\ Len(pointer_store') <= UNITY_MAX_POINTERS
    BY <1>1, <1>3, <2>1, PointerAssumption DEF Pointers, PointerType
  <2>5. at = "undo"
    BY DEF UnityPointer_UndoAllSets
  <2> QED BY <1>1, <2>1, <2>2, <2>3, <2>4, <2>5 DEF Pointers, PointerInv, PointerType, InATest
<1> QED BY <1>2, <1>3

LEMMA PointersInit == ASSUME UnityInit PROVE Pointers
<1>1. ptr \in [PtrVars -> PtrValues]
  BY PointerAssumption DEF UnityInit, PtrValues
<1>2. pointer_store = <<>> /\ pointer_store \in Seq(PushRecord)
  BY DEF UnityInit
<1> QED BY <1>1, <1>2, PointerAssumption
  DEF UnityInit, Pointers, PointerType, PointerInv, InATest

\* Every step keeps it.
LEMMA PointersStep ==
    ASSUME Pointers, [UnityNext]_unityVars PROVE Pointers'
<1>1. suite' = suite /\ fixture' = fixture
  BY SuiteStays DEF unityVars, mainVars, fixture, program
<1>2. ASSUME UNCHANGED pointerVars, InATest = InATest', at' = at \/ at' \notin {"conclude", "undo"}
      PROVE  Pointers'
  BY <1>1, <1>2 DEF Pointers, PointerInv, PointerType, pointerVars
<1>3. CASE UnityGetCommandLineOptions
  BY <1>2, <1>3, OptionsOnly DEF InATest
<1>4. CASE StartRuns
  BY <1>2, <1>4 DEF StartRuns, GoTo, InATest
<1>5. CASE UnityBegin
  BY <1>2, <1>5 DEF UnityBegin, GoTo, InATest
<1>6. CASE UnityTestRunner
  <2>1. /\ ~InATest /\ at' = "setup" /\ ptr' = ptr /\ ptr = PtrInit
        /\ pointer_store' = IF fixture THEN <<>> ELSE pointer_store
    BY <1>6 DEF UnityTestRunner, GoTo, InATest, Pointers, PointerInv
  <2>2. PointerType'
    BY <2>1, PointerAssumption DEF Pointers, PointerType
  <2>3. fixture => Restorable(pointer_store', ptr')
    BY <2>1 DEF Restorable
  <2> QED BY <1>1, <2>1, <2>2, <2>3 DEF Pointers, PointerInv
<1>7. CASE UnityIgnoreTest
  BY <1>2, <1>7 DEF UnityIgnoreTest, InATest
<1>8. CASE PassOver
  BY <1>2, <1>8 DEF PassOver, InATest
<1>9. CASE UnityEnd
  BY <1>2, <1>9 DEF UnityEnd, GoTo, InATest
<1>10. CASE Setup
  BY <1>2, <1>10 DEF Setup, GoTo, InATest
<1>11. CASE Operation
  BY <1>1, <1>11, OperationPointers
<1>12. CASE BodyReturns
  BY <1>2, <1>12 DEF BodyReturns, GoTo, InATest
<1>13. CASE TeardownReturns
  <2>1. TEST_ABORT /\ UNCHANGED pointerVars /\ at = "teardown"
    BY <1>13 DEF TeardownReturns, UnityMalloc_EndTest, UnityFail
  <2>2. at' = IF fixture THEN "undo" ELSE "conclude"
    BY <2>1 DEF TEST_ABORT, GoTo
  <2> QED BY <1>1, <2>1, <2>2 DEF Pointers, PointerInv, PointerType, pointerVars, InATest
<1>14. CASE UnityPointer_UndoAllSets
  BY <1>1, <1>14, UndoPointers
<1>15. CASE UnityConcludeTest
  <2>1. at = "conclude" /\ at' = "tests" /\ UNCHANGED pointerVars
    BY <1>15 DEF UnityConcludeTest, GoTo
  <2>2. ptr = PtrInit
    <3>1. CASE ~fixture
      BY <3>1 DEF Pointers, PointerInv
    <3>2. CASE fixture
      <4>1. pointer_store = <<>> /\ Restorable(pointer_store, ptr) /\ ptr \in [PtrVars -> PtrValues]
        BY <2>1, <3>2 DEF Pointers, PointerInv, PointerType, InATest
      <4>2. \A p \in PtrVars : ptr[p] = PtrInit[p]
        BY <4>1 DEF Restorable
      <4> QED BY <4>1, <4>2, PointerAssumption
    <3> QED BY <3>1, <3>2
  <2> QED BY <1>1, <2>1, <2>2 DEF Pointers, PointerInv, PointerType, pointerVars, InATest
<1>16. CASE UNCHANGED unityVars
  BY <1>2, <1>16 DEF unityVars, InATest
<1> QED
  BY <1>3, <1>4, <1>5, <1>6, <1>7, <1>8, <1>9, <1>10, <1>11, <1>12, <1>13, <1>14, <1>15, <1>16
  DEF UnityNext

\* Between two tests every pointer that UT_PTR_SET changed has its old value again,
\* whatever the tests pushed, in whatever order, and wherever they were aborted.
\* (UnityPointer_Set and UnityPointer_UndoAllSets, unity_fixture.c:156.)
THEOREM PointersComeBack == UnitySpec => []PointersRestored
<1>1. UnityInit => Pointers
  BY PointersInit
<1>2. Pointers /\ [UnityNext]_unityVars => Pointers'
  BY PointersStep
<1>3. Pointers => PointersRestored
  BY DEF Pointers, PointerInv, PointersRestored, InATest
<1> QED BY <1>1, <1>2, <1>3, PTL DEF UnitySpec

-----------------------------------------------------------------------------
(* Leaks are found: malloc_count goes up and down with the number of the   *)
(* blocks that the test in progress allocated.                             *)

Own(h) == {b \in Blocks : h[b].own}
Counters == [malloc_count : Int, countdown : Int, heap : Heaps]

\* What the count is too high.
Excess(m) == m.malloc_count - Cardinality(Own(m.heap))

LEMMA OwnIsFinite ==
    ASSUME NEW h PROVE IsFiniteSet(Own(h)) /\ Cardinality(Own(h)) \in Nat
BY MemoryAssumption, FS_Subset, FS_CardinalityType DEF Own

\* An allocation that fails, is refused or is not made changes neither; one that is
\* made counts a block that was free.
LEMMA MallocBalanced ==
    ASSUME NEW m \in Counters, NEW size \in Nat, NEW got \in unity_malloc(m, size)
    PROVE  /\ got.m \in Counters /\ Excess(got.m) = Excess(m)
           /\ \A b \in Blocks : m.heap[b].own => got.m.heap[b] = m.heap[b]
<1>1. m.countdown \in Int /\ m.malloc_count \in Int /\ m.heap \in Heaps
  BY DEF Counters
<1> DEFINE counted == IF m.countdown = MALLOC_DONT_FAIL THEN m ELSE [m EXCEPT !.countdown = @ - 1]
<1>2. /\ counted \in Counters /\ counted.malloc_count = m.malloc_count
      /\ counted.heap = m.heap
  BY <1>1 DEF Counters
<1>3. CASE got.m \in {m, counted}
  BY <1>2, <1>3 DEF Excess
<1> DEFINE block == [size |-> size, overrun |-> FALSE, own |-> TRUE]
           Taken(b) == [counted EXCEPT !.malloc_count = @ + 1, !.heap[b] = block]
<1>4. ASSUME NEW b \in Blocks, m.heap[b] = NoBlock, got.m = Taken(b)
      PROVE  /\ got.m \in Counters /\ Excess(got.m) = Excess(m)
             /\ \A c \in Blocks : m.heap[c].own => got.m.heap[c] = m.heap[c]
  <2> DEFINE h == [m.heap EXCEPT ![b] = block]
  <2>1. h \in Heaps /\ h[b].own /\ \A c \in Blocks \ {b} : h[c] = m.heap[c]
    BY <1>1 DEF Heaps
  <2>2. ~m.heap[b].own
    BY <1>4 DEF NoBlock
  <2> DEFINE up == [counted EXCEPT !.malloc_count = @ + 1]
  <2>3. up \in Counters /\ up.malloc_count = m.malloc_count + 1 /\ up.heap = m.heap
    BY <1>2 DEF Counters
  <2> HIDE DEF block
  <2>4. got.m = [up EXCEPT !.heap[b] = block]
    BY <1>4
  <2> HIDE DEF up
  <2>5. got.m = [up EXCEPT !.heap = h]
    BY <2>3, <2>4
  <2> HIDE DEF h
  <2>6. got.m \in Counters /\ got.m.malloc_count = m.malloc_count + 1 /\ got.m.heap = h
    BY <2>1, <2>3, <2>5 DEF Counters
  <2>7. Own(h) = Own(m.heap) \cup {b} /\ b \notin Own(m.heap)
    BY <2>1, <2>2 DEF Own
  <2>8. Cardinality(Own(h)) = Cardinality(Own(m.heap)) + 1
    BY <2>7, OwnIsFinite, FS_AddElement
  <2> QED BY <1>1, <2>1, <2>2, <2>6, <2>8, OwnIsFinite DEF Excess
<1>5. got.m \in {m, counted} \/ \E b \in Blocks : m.heap[b] = NoBlock /\ got.m = Taken(b)
  <2>1. CASE m.countdown = 0
    <3>1. got = [m |-> m, mem |-> {}]
      BY <2>1 DEF unity_malloc
    <3> QED BY <3>1
  <2>2. CASE m.countdown # 0
    <3> DEFINE Free == {x \in Blocks : size > 0 /\ m.heap[x] = NoBlock}
    <3>1. got \in {[m |-> counted, mem |-> {}]} \cup {[m |-> Taken(b), mem |-> {b}] : b \in Free}
      BY <2>2 DEF unity_malloc
    <3> HIDE DEF counted, Taken, Free
    <3>2. got.m = counted \/ \E b \in Free : got.m = Taken(b)
      BY <3>1
    <3> QED BY <3>2 DEF Free
  <2> QED BY <2>1, <2>2
<1> QED BY <1>2, <1>3, <1>4, <1>5

\* Releasing a block of the test counts it down.
LEMMA ReleaseBalanced ==
    ASSUME NEW m \in Counters, NEW b \in Blocks, m.heap[b].own
    PROVE  release_memory(m, b) \in Counters /\ Excess(release_memory(m, b)) = Excess(m)
<1> DEFINE h == [m.heap EXCEPT ![b] = NoBlock]
           down == [m EXCEPT !.malloc_count = @ - 1]
           n == release_memory(m, b)
<1>1. m.malloc_count \in Int /\ m.heap \in Heaps
  BY DEF Counters
<1>2. h \in Heaps /\ ~h[b].own /\ \A c \in Blocks \ {b} : h[c] = m.heap[c]
  BY <1>1 DEF Heaps, NoBlock
<1>3. down \in Counters /\ down.malloc_count = m.malloc_count - 1 /\ down.heap = m.heap
  BY DEF Counters
<1>4. n = [down EXCEPT !.heap[b] = NoBlock]
  BY DEF release_memory
<1> HIDE DEF down, n
<1>5. n = [down EXCEPT !.heap = h]
  BY <1>3, <1>4
<1> HIDE DEF h
<1>6. n \in Counters /\ n.malloc_count = m.malloc_count - 1 /\ n.heap = h
  BY <1>2, <1>3, <1>5 DEF Counters
<1>7. Own(h) = Own(m.heap) \ {b} /\ b \in Own(m.heap)
  BY <1>2 DEF Own
<1>8. Cardinality(Own(h)) = Cardinality(Own(m.heap)) - 1
  BY <1>7, OwnIsFinite, FS_RemoveElement
<1>9. Excess(n) = Excess(m)
  BY <1>1, <1>6, <1>8, OwnIsFinite DEF Excess
<1> QED BY <1>6, <1>9 DEF n

\* No operation makes the count wrong.
LEMMA OperationBalanced ==
    ASSUME suite \in Suites, MemoryType, Operation
    PROVE  MemoryType' /\ Excess(Counted)' = Excess(Counted)
<1> DEFINE Kept == MemoryType' /\ Excess(Counted)' = Excess(Counted)
<1>1. /\ Counted \in Counters /\ Counted.malloc_count = malloc_count /\ Counted.heap = heap
      /\ Counted' = [malloc_count |-> malloc_count', countdown |-> malloc_fail_countdown',
                     heap |-> heap']
  BY DEF Counted, Counters, MemoryType
<1>2. ASSUME NEW m \in Counters, Becomes(m), Excess(m) = Excess(Counted) PROVE Kept
  <2>1. /\ malloc_count' = m.malloc_count /\ malloc_fail_countdown' = m.countdown
        /\ heap' = m.heap
    BY <1>2 DEF Becomes
  <2>2. MemoryType'
    BY <2>1 DEF MemoryType, Counters
  <2>3. Excess(Counted)' = Excess(m)
    BY <1>1, <2>1 DEF Excess, Counted, Own
  <2> QED BY <1>2, <2>2, <2>3
<1>3. UNCHANGED memoryVars => Kept
  BY DEF memoryVars, MemoryType, Excess, Counted, Own
<1> HIDE DEF Kept
<1>4. ASSUME NEW c, UnityAssert(c) PROVE Kept
  BY <1>3, <1>4 DEF UnityAssert
<1>5. UnityIgnore \/ TEST_PASS => Kept
  BY <1>3 DEF UnityIgnore, TEST_PASS
<1>6. ASSUME NEW q, NEW v, UnityPointer_Set(q, v) PROVE Kept
  BY <1>3, <1>6 DEF UnityPointer_Set
<1>7. ASSUME NEW n \in Nat, CallMalloc(n) PROVE Kept
  <2>1. PICK got \in unity_malloc(Counted, n) : Becomes(got.m)
    BY <1>7 DEF CallMalloc
  <2>2. got.m \in Counters /\ Excess(got.m) = Excess(Counted)
    BY <1>1, <2>1, MallocBalanced
  <2> QED BY <1>2, <2>1, <2>2
<1>8. ASSUME NEW n \in Int, UnityMalloc_MakeMallocFailAfterCount(n) PROVE Kept
  BY <1>8 DEF UnityMalloc_MakeMallocFailAfterCount, Kept, MemoryType, Excess, Counted, Own
<1>9. ASSUME NEW b \in Mine PROVE b \in Blocks /\ Counted.heap[b].own
  BY <1>1 DEF Mine
<1>10. ASSUME NEW b \in Mine, Becomes(release_memory(Counted, b)) PROVE Kept
  BY <1>1, <1>2, <1>9, <1>10, ReleaseBalanced
<1>11. ASSUME NEW mem \in {{}} \cup {{b} : b \in Mine}, unity_free(mem) PROVE Kept
  <2>1. CASE mem = {}
    BY <1>3, <1>11, <2>1 DEF unity_free
  <2>2. CASE mem # {}
    <3>1. PICK b \in Mine : mem = {b}
      BY <1>11, <2>2
    <3>2. Becomes(release_memory(Counted, b))
      BY <1>11, <3>1 DEF unity_free
    <3> QED BY <1>10, <3>2
  <2> QED BY <2>1, <2>2
<1>12. ASSUME NEW b \in Mine, NEW n \in Nat, unity_realloc(b, n) PROVE Kept
  <2>1. \/ Becomes(release_memory(Counted, b)) \/ Becomes(Counted)
        \/ \E got \in unity_malloc(Counted, n) :
              Becomes(IF got.mem = {} THEN got.m ELSE release_memory(got.m, b))
    BY <1>12 DEF unity_realloc
  <2>2. ASSUME NEW got \in unity_malloc(Counted, n),
               Becomes(IF got.mem = {} THEN got.m ELSE release_memory(got.m, b))
        PROVE  Kept
    <3>1. /\ got.m \in Counters /\ Excess(got.m) = Excess(Counted)
          /\ b \in Blocks /\ got.m.heap[b].own
      BY <1>1, <1>9, MallocBalanced
    <3>2. /\ release_memory(got.m, b) \in Counters
          /\ Excess(release_memory(got.m, b)) = Excess(Counted)
      BY <3>1, ReleaseBalanced
    <3> QED BY <1>2, <2>2, <3>1, <3>2
  <2> QED BY <1>1, <1>2, <1>10, <2>1, <2>2
<1>13. ASSUME NEW b \in Mine, Overrun(b) PROVE Kept
  <2>1. /\ heap' = [heap EXCEPT ![b].overrun = TRUE] /\ heap \in Heaps /\ b \in Blocks
        /\ UNCHANGED <<malloc_count, malloc_fail_countdown>>
    BY <1>9, <1>13 DEF Overrun, MemoryType
  <2>2. heap' \in Heaps /\ \A c \in Blocks : heap'[c].own = heap[c].own
    BY <2>1 DEF Heaps
  <2>3. Own(heap') = Own(heap)
    BY <2>2 DEF Own
  <2>4. Excess(Counted)' = malloc_count' - Cardinality(Own(heap'))
    BY <1>1 DEF Excess, Own, Counted
  <2>5. Excess(Counted) = malloc_count - Cardinality(Own(heap))
    BY <1>1 DEF Excess
  <2> QED BY <2>1, <2>2, <2>3, <2>4, <2>5 DEF Kept, MemoryType
<1>14. PICK o \in program.ops :
          \/ o.op = "assert" /\ UnityAssert(o.call)
          \/ o.op = "ignore" /\ UnityIgnore
          \/ o.op = "pass"   /\ TEST_PASS
          \/ o.op = "set"    /\ UnityPointer_Set(o.pointer, o.value)
          \/ o.op = "malloc" /\ CallMalloc(o.size)
          \/ o.op = "fail after" /\ UnityMalloc_MakeMallocFailAfterCount(o.count)
          \/ o.op = "free"    /\ \E mem \in {{}} \cup {{b} : b \in Mine} : unity_free(mem)
          \/ o.op = "realloc" /\ \E b \in Mine : unity_realloc(b, o.size)
          \/ o.op = "overrun" /\ \E b \in Mine : Overrun(b)
  BY DEF Operation
<1>15. /\ o.op \in {"malloc", "realloc"} => o.size \in Nat
       /\ o.op = "fail after" => o.count \in Int
  BY ProgramAssumption DEF program
<1>16. Kept
  BY <1>4, <1>5, <1>6, <1>7, <1>8, <1>11, <1>12, <1>13, <1>14, <1>15
<1> QED BY <1>16 DEF Kept

\* A test fails for its leaks at its end and not before.
LEMMA OperationReports ==
    ASSUME suite \in Suites, Verdict, Operation, first' = "FAIL", report' = Leaks
    PROVE  first = "FAIL" /\ report = Leaks
<1> DEFINE Before == first = "FAIL" /\ report = Leaks
<1>1. InATest /\ first \in {"none", "FAIL", "IGNORE"}
  BY DEF Operation, InTest, InATest, Verdict, VerdictType
<1>2. ASSUME NEW printed, printed # Leaks, UnityFail(printed) PROVE Before
  BY <1>1, <1>2, FlaggedIsDecided DEF UnityFail, Event
<1>3. ASSUME NEW message \in {"Too many pointers set", "overrun in free", "overrun in realloc"},
             TEST_FAIL(message)
      PROVE  Before
  BY <1>2, <1>3 DEF TEST_FAIL, Leaks, Fails
<1>4. Goes => Before
  BY DEF Goes, testHistory
<1>5. ASSUME NEW c, Outcome(c) # Leaks, UnityAssert(c) PROVE Before
  <2>1. CASE UNCHANGED <<report, first>>
    BY <2>1
  <2>2. CASE UnityFail(Outcome(c))
    BY <1>2, <1>5, <2>2
  <2>3. CASE report' = Holds
    BY <2>3 DEF Leaks, Fails, Holds
  <2> QED BY <1>5, <2>1, <2>2, <2>3 DEF UnityAssert
<1>6. UnityIgnore => Before
  BY <1>1, FlaggedIsDecided DEF UnityIgnore, Event
<1>7. TEST_PASS => Before
  BY DEF TEST_PASS, testHistory
<1>8. ASSUME NEW q, NEW v, UnityPointer_Set(q, v) PROVE Before
  BY <1>3, <1>4, <1>8 DEF UnityPointer_Set
<1>9. ASSUME NEW n, CallMalloc(n) PROVE Before
  BY <1>4, <1>9 DEF CallMalloc
<1>10. ASSUME NEW n, UnityMalloc_MakeMallocFailAfterCount(n) PROVE Before
  BY <1>4, <1>10 DEF UnityMalloc_MakeMallocFailAfterCount
<1>11. ASSUME NEW mem, unity_free(mem) PROVE Before
  BY <1>3, <1>4, <1>11 DEF unity_free
<1>12. ASSUME NEW b, NEW n, unity_realloc(b, n) PROVE Before
  BY <1>3, <1>4, <1>12 DEF unity_realloc
<1>13. ASSUME NEW b, Overrun(b) PROVE Before
  BY <1>4, <1>13 DEF Overrun
<1>14. \A o \in program.ops : o.op = "assert" => Outcome(o.call) # Leaks
  BY OutcomeAssumption DEF program, Leaks
<1> HIDE DEF Before
<1>15. Before
  BY <1>5, <1>6, <1>7, <1>8, <1>9, <1>10, <1>11, <1>12, <1>13, <1>14 DEF Operation
<1> QED BY <1>15 DEF Before

LEMMA OperationEndsNothing == ASSUME Operation PROVE ended' = ended
<1> DEFINE Kept == ended' = ended
<1>1. Goes => Kept
  BY DEF Goes, testHistory
<1>2. ASSUME NEW message, TEST_FAIL(message) PROVE Kept
  BY <1>2 DEF TEST_FAIL
<1>3. ASSUME NEW c, UnityAssert(c) PROVE Kept
  BY <1>3 DEF UnityAssert
<1>4. UnityIgnore \/ TEST_PASS => Kept
  BY DEF UnityIgnore, TEST_PASS, testHistory
<1>5. ASSUME NEW q, NEW v, UnityPointer_Set(q, v) PROVE Kept
  BY <1>1, <1>2, <1>5 DEF UnityPointer_Set
<1>6. ASSUME NEW n, CallMalloc(n) PROVE Kept
  BY <1>1, <1>6 DEF CallMalloc
<1>7. ASSUME NEW n, UnityMalloc_MakeMallocFailAfterCount(n) PROVE Kept
  BY <1>1, <1>7 DEF UnityMalloc_MakeMallocFailAfterCount
<1>8. ASSUME NEW mem, unity_free(mem) PROVE Kept
  BY <1>1, <1>2, <1>8 DEF unity_free
<1>9. ASSUME NEW b, NEW n, unity_realloc(b, n) PROVE Kept
  BY <1>1, <1>2, <1>9 DEF unity_realloc
<1>10. ASSUME NEW b, Overrun(b) PROVE Kept
  BY <1>1, <1>10 DEF Overrun
<1> HIDE DEF Kept
<1>11. Kept
  BY <1>3, <1>4, <1>5, <1>6, <1>7, <1>8, <1>9, <1>10 DEF Operation
<1> QED BY <1>11 DEF Kept

\* In a guarded test the count is right from its set-up on; a test that came to
\* UnityMalloc_EndTest with blocks counted is decided; and one whose failure is that
\* it leaks came there.
MemoryInv ==
    /\ at = "setup" => Mine = {} /\ first = "none"
    /\ program.guarded /\ at \in {"body", "teardown", "undo", "conclude"} =>
          Excess(Counted) = 0
    /\ at \in {"setup", "body", "teardown"} => ~ended
    /\ at \in {"undo", "conclude"} /\ ended =>
          program.guarded /\ (malloc_count # 0 => first # "none")
    /\ InATest /\ first = "FAIL" /\ report = Leaks => ended /\ malloc_count # 0

Memory == suite \in Suites /\ MemoryType /\ MemoryInv

LEMMA ExcessOfCounted == Excess(Counted) = malloc_count - Cardinality(Mine)
BY DEF Excess, Counted, Own, Mine

LEMMA OperationMemory ==
    ASSUME Verdict, Memory, Operation, UNCHANGED <<suite, program>>
    PROVE  Memory'
<1>1. MemoryType' /\ Excess(Counted)' = Excess(Counted)
  BY OperationBalanced DEF Memory
<1>2. /\ at \in {"body", "teardown"} /\ at' \in {"body", "teardown", "undo", "conclude"}
      /\ ~ended /\ ~ended' /\ InATest
  BY OperationGoesOn, OperationEndsNothing DEF Memory, MemoryInv, InATest
<1>3. ~(first' = "FAIL" /\ report' = Leaks)
  BY <1>2, OperationReports DEF Memory, MemoryInv
<1> QED BY <1>1, <1>2, <1>3 DEF Memory, MemoryInv

LEMMA TeardownMemory ==
    ASSUME Memory, TeardownReturns, UNCHANGED <<suite, program>>
    PROVE  Memory'
<1>1. /\ at = "teardown" /\ TEST_ABORT /\ at' \in {"undo", "conclude"} /\ InATest
      /\ UNCHANGED <<heap, malloc_count>> /\ malloc_fail_countdown' \in Int /\ ~ended
  BY DEF TeardownReturns, UnityMalloc_EndTest, UnityFail, TEST_ABORT, GoTo, memoryVars,
         Memory, MemoryType, MemoryInv, InATest, MALLOC_DONT_FAIL
<1>2. MemoryType' /\ Excess(Counted)' = Excess(Counted)
  BY <1>1 DEF Memory, MemoryType, Excess, Counted, Own
<1>3. CASE program.guarded /\ malloc_count # 0
  <2>1. UnityFail(Leaks) /\ ended' = TRUE
    BY <1>3 DEF TeardownReturns, UnityMalloc_EndTest, Leaks
  <2>2. first' # "none"
    BY <2>1 DEF UnityFail, Event
  <2> QED BY <1>1, <1>2, <1>3, <2>1, <2>2 DEF Memory, MemoryInv
<1>4. CASE ~(program.guarded /\ malloc_count # 0)
  <2>1. UNCHANGED <<first, report>> /\ (ended' => program.guarded)
    BY <1>1, <1>4 DEF TeardownReturns, UnityMalloc_EndTest, testHistory
  <2> QED BY <1>1, <1>2, <1>4, <2>1 DEF Memory, MemoryInv
<1> QED BY <1>3, <1>4

LEMMA MemoryInit == ASSUME UnityInit PROVE Memory
BY DEF UnityInit, Memory, MemoryType, MemoryInv, Heaps, NoBlock, MALLOC_DONT_FAIL, InATest

\* Every step keeps it.
LEMMA MemoryStep ==
    ASSUME Verdict, Memory, [UnityNext]_unityVars PROVE Memory'
<1>1. suite' = suite /\ program' = program
  BY SuiteStays DEF unityVars, mainVars, program
<1>2. ASSUME UNCHANGED memoryVars, ~InATest' PROVE Memory'
  BY <1>1, <1>2 DEF Memory, MemoryInv, MemoryType, memoryVars, InATest
<1>3. CASE UnityGetCommandLineOptions
  BY <1>2, <1>3, OptionsOnly DEF InATest
<1>4. CASE StartRuns
  BY <1>2, <1>4 DEF StartRuns, GoTo, InATest
<1>5. CASE UnityBegin
  BY <1>2, <1>5 DEF UnityBegin, GoTo, InATest
<1>6. CASE UnityTestRunner
  <2>1. /\ at' = "setup" /\ first' = "none" /\ ended' = FALSE
        /\ heap' = [b \in Blocks |-> [heap[b] EXCEPT !.own = FALSE]] /\ heap \in Heaps
        /\ UNCHANGED <<malloc_count, malloc_fail_countdown>>
    BY <1>6 DEF UnityTestRunner, GoTo, Memory, MemoryType
  <2>2. heap' \in Heaps /\ \A b \in Blocks : ~heap'[b].own
    BY <2>1 DEF Heaps
  <2>3. Mine' = {}
    BY <2>2 DEF Mine
  <2> QED BY <1>1, <2>1, <2>2, <2>3 DEF Memory, MemoryType, MemoryInv
<1>7. CASE UnityIgnoreTest
  BY <1>2, <1>7 DEF UnityIgnoreTest, InATest
<1>8. CASE PassOver
  BY <1>2, <1>8 DEF PassOver, InATest
<1>9. CASE UnityEnd
  BY <1>2, <1>9 DEF UnityEnd, GoTo, InATest
<1>10. CASE Setup
  <2>1. /\ at = "setup" /\ at' = "body" /\ UNCHANGED <<heap, first, ended, report>>
        /\ malloc_count' \in Int /\ malloc_fail_countdown' \in Int
        /\ program.guarded => malloc_count' = 0
    BY <1>10 DEF Setup, GoTo, UnityMalloc_StartTest, testHistory, Memory, MemoryType,
                 MALLOC_DONT_FAIL
  <2>2. Mine' = {} /\ first = "none" /\ ~ended
    BY <2>1 DEF Mine, Memory, MemoryInv
  <2>3. Cardinality(Mine') = 0
    BY <2>2, FS_EmptySet
  <2>4. Excess(Counted)' = malloc_count' - Cardinality(Mine')
    BY ExcessOfCounted DEF Excess, Counted, Own, Mine
  <2> QED BY <1>1, <2>1, <2>2, <2>3, <2>4 DEF Memory, MemoryType, MemoryInv
<1>11. CASE Operation
  BY <1>1, <1>11, OperationMemory
<1>12. CASE BodyReturns
  <2>1. at = "body" /\ at' = "teardown" /\ UNCHANGED <<first, ended, report>> /\ UNCHANGED memoryVars
    BY <1>12 DEF BodyReturns, GoTo, testHistory
  <2> QED BY <1>1, <2>1
    DEF Memory, MemoryType, MemoryInv, InATest, memoryVars, Excess, Counted, Own
<1>13. CASE TeardownReturns
  BY <1>1, <1>13, TeardownMemory
<1>14. CASE UnityPointer_UndoAllSets
  <2>1. /\ at = "undo" /\ at' \in {"undo", "conclude"} /\ UNCHANGED <<first, ended, report>>
        /\ UNCHANGED memoryVars
    BY <1>14 DEF UnityPointer_UndoAllSets, GoTo, testHistory
  <2> QED BY <1>1, <2>1
    DEF Memory, MemoryType, MemoryInv, InATest, memoryVars, Excess, Counted, Own
<1>15. CASE UnityConcludeTest
  BY <1>2, <1>15 DEF UnityConcludeTest, GoTo, InATest
<1>16. CASE UNCHANGED unityVars
  <2>1. UNCHANGED <<at, first, ended, report>> /\ UNCHANGED memoryVars
    BY <1>16 DEF unityVars, testHistory
  <2> QED BY <1>1, <2>1
    DEF Memory, MemoryType, MemoryInv, InATest, memoryVars, Mine, Excess, Counted, Own
<1> QED
  BY <1>3, <1>4, <1>5, <1>6, <1>7, <1>8, <1>9, <1>10, <1>11, <1>12, <1>13, <1>14, <1>15, <1>16
  DEF UnityNext

LEMMA LeaksFollow == ASSUME Verdict, Memory PROVE LeaksAreFound
<1>1. ASSUME at = "conclude", ended
      PROVE  /\ Mine # {} => first # "none"
             /\ said = <<"FAIL">> /\ report = Leaks => Mine # {}
  <2>1. malloc_count = Cardinality(Mine) /\ (malloc_count # 0 => first # "none")
    <3>1. Cardinality(Mine) \in Nat
      BY OwnIsFinite DEF Own, Mine
    <3> QED BY <1>1, <3>1, ExcessOfCounted DEF Memory, MemoryType, MemoryInv
  <2>2. Mine = {} <=> Cardinality(Mine) = 0
    BY OwnIsFinite, FS_EmptySet DEF Own, Mine
  <2>3. InATest /\ (said = <<"FAIL">> => first = "FAIL")
    <3>1. InATest /\ said = (IF first = "none" THEN <<>> ELSE <<first>>)
      BY <1>1 DEF Verdict, VerdictInv, InATest
    <3>2. ASSUME said = <<"FAIL">> PROVE first = "FAIL"
      <4>1. Len(said) = 1 /\ said[1] = "FAIL"
        BY <3>2
      <4>2. first # "none"
        BY <3>1, <4>1
      <4> QED BY <3>1, <4>1, <4>2
    <3> QED BY <3>1, <3>2
  <2> QED BY <2>1, <2>2, <2>3 DEF Memory, MemoryInv
<1> QED BY <1>1 DEF LeaksAreFound, Leaks

\* A guarded test that leaves a block of its own allocated does not pass, and one that
\* is told it leaks does leave one: the count is the number of its blocks through
\* injected failures, refused sizes, reallocations that move, shrink or fail, and
\* overruns that abort.  (unity_memory.c:21, UnityMalloc_EndTest.)
THEOREM NoLeakIsMissed == UnitySpec => []LeaksAreFound
<1>1. UnityInit => Verdict /\ Memory
  BY VerdictInit, MemoryInit
<1>2. Verdict /\ Memory /\ [UnityNext]_unityVars => (Verdict /\ Memory)'
  BY VerdictStep, MemoryStep
<1>3. Verdict /\ Memory => LeaksAreFound
  BY LeaksFollow
<1> QED BY <1>1, <1>2, <1>3, PTL DEF UnitySpec
================================================================================
