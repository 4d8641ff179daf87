------------------------- MODULE MCStrategyLifecycle -------------------------
EXTENDS StrategyLifecycle, TLC

CONSTANTS r1, r2, x1, x2

OneRequest == {r1}
TwoRequests == {r1, r2}
TwoInstances == {x1, x2}

\* Requests and executor objects are interchangeable.
Symmetry == Permutations(Requests) \cup Permutations(Instances)
=============================================================================
