------------------------- MODULE MCCustomerWindows -------------------------
(* Instances of CustomerWindows for TLC. *)
EXTENDS CustomerWindows, TLC

CONSTANTS w1, w2, m1

Symmetry == Permutations(PcWindows)

=============================================================================
