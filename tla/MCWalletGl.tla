----------------------------- MODULE MCWalletGl -----------------------------
EXTENDS WalletGl, TLC

CONSTANTS a, b, s1, s2, w1, w2

OnePoster == {w1}
TwoPosters == {w1, w2}

\* The posters are interchangeable.
Symmetry == Permutations(Posters)

TwoMints == {a, b}
TwoSessions == {s1, s2}

D(mint, delta) == [mint |-> mint, delta |-> delta]

\* A fee harvest, which the wallet journal has too, and the open it pays for.
Harvest == <<<<D(a, 1), D(b, 1)>>, <<D(a, -1)>>>>
HarvestSession == <<s1, s1>>
HarvestFee == <<0, 1>>
HarvestJournal == <<<<D(b, 1)>>, <<>>>>
HarvestOpens == {2}

\* The first open of a chain, paid from the wallet, and the close that follows.
FirstOpen == <<<<D(a, -1)>>, <<D(a, 2)>>>>
FirstOpenSession == <<s1, s1>>
NoFees == <<0, 0>>
NoJournal == <<<<>>, <<>>>>
FirstRow == {1}
=============================================================================
