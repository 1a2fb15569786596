---------------------------- MODULE CommandPromise ----------------------------
(***************************************************************************)
(* What a caller of SendToAgent may rely on.  A call returns once.  If it  *)
(* returns an answer, the agent has performed the command; if it fails,    *)
(* the agent may have performed it, or may perform it even later.  No      *)
(* command is performed twice.                                             *)
(***************************************************************************)
CONSTANT Calls

VARIABLES call, performed

Init == /\ call = [k \in Calls |-> "idle"]
        /\ performed = {}

Return(k, from, how) == /\ call[k] = from
                        /\ call' = [call EXCEPT ![k] = how]
                        /\ UNCHANGED performed

\* The agent is not connected: nothing is sent.
Refuse(k) == Return(k, "idle", "failed") /\ k \notin performed

Issue(k) == Return(k, "idle", "issued")

Perform(k) == /\ call[k] # "idle"
              /\ k \notin performed
              /\ performed' = performed \cup {k}
              /\ UNCHANGED call

Answer(k) == k \in performed /\ Return(k, "issued", "answered")

Fail(k) == Return(k, "issued", "failed")

Next == \E k \in Calls : Refuse(k) \/ Issue(k) \/ Perform(k) \/ Answer(k) \/ Fail(k)

Spec == Init /\ [][Next]_<<call, performed>>

==============================================================================
