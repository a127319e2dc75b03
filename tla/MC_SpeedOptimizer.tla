-------------------------- MODULE MC_SpeedOptimizer --------------------------
(***************************************************************************)
(* Inputs of optimize_speed for TLC: every short input over small values,  *)
(* including mismatched lengths and non-positive accelerations, plus the   *)
(* two vectors of the unit test optimize_speed (src/unnamed/part_000).     *)
(***************************************************************************)
EXTENDS SpeedOptimizer
LOCAL INSTANCE SequencesExt

\* The first test vector: downtracks 0, 2, ..., 16, the curvature-limited
\* speeds 1 3 4 4 1 0 3 3 6 squared, max_accel 2.
TestDowntracks == [k \in 1..9 |-> 2 * (k - 1)]
TestCurvSpeeds == <<1, 9, 16, 16, 1, 0, 9, 9, 36>>
\* The expected speeds 1 3 4 3 1 0 2.82843 3 4.12311, squared.
TestExpected == <<1, 9, 16, 9, 1, 0, 8, 9, 17>>

\* The second test vector ("Check if the first speed is same"): limits
\* 4 1 3 4 1 0 3 3 6 squared, over the same downtracks.
AnchorTestCurvSpeeds == <<16, 1, 9, 16, 1, 0, 9, 9, 36>>
\* Its expected speeds 4 2.82847 3 3 1 0 2.82843 3 4.12311, squared (the
\* tolerance 0.001 of the test admits exactly 8 and 17).
AnchorTestExpected == <<16, 8, 9, 9, 1, 0, 8, 9, 17>>

\* Non-decreasing downtracks over 0..2, of up to 4 points.
MCDowntracks ==
    {d \in BoundedSeq(0..2, 4) : \A k \in 2..Len(d) : d[k - 1] <= d[k]}
        \cup {TestDowntracks}
MCSpeeds == BoundedSeq(0..4, 4) \cup {TestCurvSpeeds, AnchorTestCurvSpeeds}
\* A negative, a zero and two positive accelerations.
MCAccels == {-1, 0, 1, 2}

\* The reference profile of the first test vector is the test's expected
\* result (squared, exactly); MatchesReference carries it to the passes.
ASSUME TestVectorAssumption ==
    ReferenceProfile(TestDowntracks, TestCurvSpeeds, 2) = TestExpected

\* The unit test optimize_speed (part_000, lines 436-467): on its second
\* vector, optimize_speed returns 4 2.82847 3 3 1 0 2.82843 3 4.12311.
MatchesAnchorTest ==
    (/\ pc = "done" /\ max_accel = 2
     /\ downtracks = TestDowntracks /\ curv_speeds = AnchorTestCurvSpeeds)
        => out = AnchorTestExpected
=============================================================================
