---------------------------- MODULE MCChatPages ----------------------------
(* Instances of ChatPages for TLC. *)
EXTENDS ChatPages, TLC

CONSTANTS p1, p2

TwoAndOne == (p1 :> 2) @@ (p2 :> 1)
TwoEach   == (p1 :> 2) @@ (p2 :> 2)

Symmetry == Permutations(Pages)

============================================================================
