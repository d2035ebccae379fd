------------------------- MODULE MCSigningConversation -------------------------
EXTENDS SigningConversation, TLC

CONSTANTS pay, text, r1, r2, p1, p2, s1, s2

Symmetry == Permutations(Presses) \cup Permutations(Sends)
=============================================================================
