------------------------------- MODULE OpStates -------------------------------
(***************************************************************************)
(* The states of a recovery operation and the transition table of          *)
(* internal/server/pitr/state.go.                                          *)
(***************************************************************************)
EXTENDS Naturals

\* "none": the operation has not been created.
Terminal  == {"completed", "failed", "cancelled"}
Working   == {"preflight", "confirmed", "parsing", "executing"}
OpState   == Working \cup Terminal \cup {"previewed"}

\* validTransitions: no pair starts in a terminal state.
validTransitions ==
  { <<"preflight", "confirmed">>, <<"preflight", "cancelled">>,
    <<"confirmed", "parsing">>,   <<"confirmed", "cancelled">>,
    <<"parsing",   "previewed">>, <<"parsing",   "failed">>,
    <<"previewed", "executing">>, <<"previewed", "cancelled">>,
    <<"executing", "completed">>, <<"executing", "failed">> }

TransitionValid(from, to) == <<from, to>> \in validTransitions

IsTerminal(s) == s \in Terminal

==============================================================================
