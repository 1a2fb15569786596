------------------------------ MODULE MCAgentHub ------------------------------
(***************************************************************************)
(* Small instances of AgentHub: one agent that reconnects, and callers with *)
(* and without a timeout.                                                  *)
(***************************************************************************)
EXTENDS AgentHub

CONSTANTS a1, c1, c2, c3, k1, k2

OneAgent   == {a1}
TwoConns   == {c1, c2}
ThreeConns == {c1, c2, c3}
OneCall    == {k1}
TwoCalls   == {k1, k2}
ConnsOfA1  == [c \in Conns |-> a1]
CallsToA1  == [k \in Calls |-> a1]
FirstTimed == {k1}
NoneTimed  == {}

==============================================================================
