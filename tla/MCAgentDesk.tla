---------------------------- MODULE MCAgentDesk ----------------------------
(* Instances of AgentDesk for TLC. *)
EXTENDS AgentDesk, TLC

CONSTANTS u1, u2

Symmetry == Permutations(Users)

============================================================================
