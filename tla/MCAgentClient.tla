---------------------------- MODULE MCAgentClient ----------------------------
(***************************************************************************)
(* A small instance of AgentClient: the first connection and two           *)
(* reconnections.                                                          *)
(***************************************************************************)
EXTENDS AgentClient, TLC

CONSTANTS c1, c2, c3

ThreeConns == {c1, c2, c3}
Symmetry   == Permutations(Conns)

==============================================================================
