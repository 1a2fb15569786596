----------------------------- MODULE MCAgentRegistry -----------------------------
(* Constants of AgentRegistry for TLC.                                      *)
EXTENDS AgentRegistry, TLC

\* Model values that nothing tells apart.
RegistrySymmetry ==
  Permutations(Users) \cup Permutations(Recs) \cup Permutations(Requests) \cup Permutations(Emails)
    \cup Permutations(OrgIds) \cup Permutations(Codes) \cup Permutations(Conns)

================================================================================
