------------------------------ MODULE MCAssistant ------------------------------
\* An instance of Assistant for TLC: each part with small sets of its own.
EXTENDS Assistant
CONSTANTS d1, d2, g, x, y, z, ta, tb, i1, i2, q1, q2
TwoDocs == <<d1, d2, g>>
OneSynced == {g}
ThreeTexts == {x, y, z}
TwoTenants == {ta, tb}
SomeUploads == {[paragraphs |-> <<x, y>>, tenant |-> ta], [paragraphs |-> <<z>>, tenant |-> tb]}
SeedChunks == <<[doc |-> g, idx |-> 1, text |-> y, tenant |-> None, deleted |-> FALSE],
               [doc |-> g, idx |-> 2, text |-> z, tenant |-> ta, deleted |-> FALSE]>>
OneIngest == {i1}
TwoIngests == {i1, i2}
OneSlot == {q1}
TwoSlots == {q1, q2}
DenseScores == x :> 2 @@ y :> 3 @@ z :> 1
LexicalScores == x :> 0 @@ y :> 1 @@ z :> 2
RerankScores == x :> 90 @@ y :> 80 @@ z :> 60
JaccardScores == [s \in ThreeTexts |-> [t \in ThreeTexts |-> IF s = t THEN 100 ELSE IF {s, t} = {x, y} THEN 70 ELSE 10]]
Sizes == x :> 2 @@ y :> 1 @@ z :> 2
CONSTANTS n1, n2, n3, n4, n5
FiveNodes == {n1, n2, n3, n4, n5}
DefaultOps == <<<<n1>>, <<n2>>, <<n1, n2>>>>
ScriptOps == <<<<n1>>, <<n2>>, <<n1, n2>>, <<n3, n2>>, <<n3, n4>>, <<n5, n4>>>>
CONSTANTS gl, ch, fa, fb, fc, fs
TwoSpaces == {gl, ch}
ThreeMemos ==
  <<Memo(gl, {fa, fb}, "semantic", "active", TRUE), Memo(gl, {fa}, "semantic", "active", FALSE),
    [Memo(gl, {fc}, "episodic", "active", FALSE) EXCEPT !.old = TRUE]>>
Answers == {<<{fb}>>, <<{fa}, {fs}>>}
SecretOnes == {fs}
AlikeTexts == {<<{fa}, {fa}>>, <<{fb}, {fb}>>, <<{fa, fb}, {fa, fb}>>, <<{fa}, {fa, fb}>>, <<{fa, fb}, {fa}>>}
NearTexts == {<<{fb}, {fa, fb}>>, <<{fs}, {fc}>>}
==============================================================================
