----------------------------- MODULE MCCloseAll -----------------------------
EXTENDS CloseAll, TLC

CONSTANTS b1, b2, p1, p2, q1, s1, s2, w1

OneBatch == {b1}
TwoBatches == {b1, b2}
OneAndFresh == {p1, q1}
TwoOld == {p1, p2}
OneFresh == {q1}
OneStrategy == {s1}
TwoStrategies == {s1, s2}

OldManaged == [p \in Pos |-> IF p \in Fresh THEN NoWallet ELSE w1]
AllLinked == [s \in Strategies |-> Pos \ Fresh]
OneEach == [s \in Strategies |-> IF s = s1 THEN {p1} ELSE {p2}]

AllScopes == {Pos}
OldOnes == Pos \ Fresh

\* The two batches are interchangeable.
BatchSymmetry == Permutations(Batches)
=============================================================================
