--------------------------- MODULE MCConversations ---------------------------
(* Two assets, two addresses and two orders of one user. *)
EXTENDS Conversations

Symmetry == Permutations(Assets) \cup Permutations(Addresses) \cup Permutations(Orders)

=============================================================================
