--------------------------- MODULE MCMessageBilling ---------------------------
(* Instances of MessageBilling for TLC. *)
EXTENDS MessageBilling, TLC

CONSTANTS text1, text2, file1, r1, r2

Symmetry == Permutations(Maskable) \cup Permutations(Reveals)

===============================================================================
