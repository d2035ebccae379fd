------------------------------- MODULE MCCheque -------------------------------
EXTENDS Cheque, TLC

CONSTANTS creator, guest, newcomer, p1, p2

Symmetry == Permutations(Presses)
=============================================================================
