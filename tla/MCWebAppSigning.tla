--------------------------- MODULE MCWebAppSigning ---------------------------
EXTENDS WebAppSigning, TLC

CONSTANTS t1, t2, p1, p2

Symmetry == Permutations(Txs) \cup Permutations(Posts)
=============================================================================
