---------------------------- MODULE MCScribeSync -----------------------------
\* Instances of ScribeSync for TLC.
EXTENDS ScribeSync, TLC

CONSTANTS r1, r2, f1, f2, p1, p2, payload

TwoRuns  == {r1, r2}
OneFile  == <<f1>>
TwoFiles == <<f1, f2>>

\* The text of one chunk loses it, gets another, or is the second of two.
Short == <<p1>>
Long  == <<p2, p1>>
Small == {Short, Long}
Body  == <<payload>>

NoCursor   == {<<>>}
HalfCursor == {<<>>, f2 :> Short}

Symmetry == Permutations(TwoRuns)
==============================================================================
