--------------------------- MODULE UnityRunnerProps ---------------------------
(***************************************************************************)
(* What a run of a test program promises, whatever its assertions are: a   *)
(* test has one verdict, the pointers come back, leaks are found.          *)
(***************************************************************************)
EXTENDS UnityRunner

\* A test that ran has exactly one verdict, the one of the first event that
\* decided it: whatever is called after an abort, in tear-down too, prints
\* nothing more and takes nothing back, and no flag reaches the next test.  The
\* counts that UnityEnd prints are those of the verdicts.  (unity.c:22,
\* UnityConcludeTest and UnityConcludeFixtureTest.)
OneVerdictPerTest ==
    /\ at = "conclude" => said = (IF first = "none" THEN <<>> ELSE <<first>>)
    /\ at \in {"tests", "begin", "done"} =>
           Unity = [NumberOfTests |-> tally.run, TestFailures |-> tally.FAIL,
                    TestIgnores |-> tally.IGNORE, CurrentTestFailed |-> 0, CurrentTestIgnored |-> 0]

\* Between two tests every pointer that UT_PTR_SET changed has its old value
\* again, however the test ended and however often one pointer was set.
\* (UnityPointer_Set and UnityPointer_UndoAllSets, unity_fixture.c:156.)
PointersRestored == at \in {"begin", "tests", "done"} => ptr = PtrInit

\* A guarded test that leaves a block of its own allocated does not pass, and
\* one that is told it leaks does leave one: the count of unity_memory.c counts
\* through failed and refused allocations, reallocation and overruns.
LeaksAreFound ==
    at = "conclude" /\ ended =>
        /\ Mine # {} => first # "none"
        /\ said = <<"FAIL">> /\ report = Fails("leaks", <<>>, <<>>) => Mine # {}
==============================================================================
