----------------------------- MODULE MCDeposits -----------------------------
(* Two handlers at a time, each of any kind, and again and again. *)
EXTENDS Deposits

Symmetry == Permutations(Handlers)

=============================================================================
