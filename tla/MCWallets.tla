------------------------------- MODULE MCWallets -------------------------------
(* Two handlers, and one wallet more than may be free. *)
EXTENDS Wallets

Symmetry == Permutations(Handlers)

=============================================================================
