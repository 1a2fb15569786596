--------------------------- MODULE OperationPromise ---------------------------
(***************************************************************************)
(* What the operation workflow promises a client that polls an operation.  *)
(* An operation is                                                         *)
(*   absent  not created yet;                                              *)
(*   busy    some goroutine or request handler of the server works on it;  *)
(*   ready   nobody works on it and its preview awaits the user's decision;*)
(*   over    nobody works on it and it is completed, failed or cancelled.  *)
(* There is no fifth case: an operation nobody works on is never left in a *)
(* working state, and one that is over is never taken up again.            *)
(***************************************************************************)
CONSTANT Ops

VARIABLE phase

Init == phase = [o \in Ops |-> "absent"]

Move(o, from, to) == /\ phase[o] = from
                     /\ phase' = [phase EXCEPT ![o] = to]

\* Start creates the operation and launches its goroutine.
Begin(o) == Move(o, "absent", "busy")

\* The user asks to execute or to cancel a ready operation.
Resume(o) == Move(o, "ready", "busy")

\* The last goroutine or handler at work on the operation ends.
Finish(o) == \/ Move(o, "busy", "ready")
             \/ Move(o, "busy", "over")

Next == \E o \in Ops : Begin(o) \/ Resume(o) \/ Finish(o)

Spec == Init /\ [][Next]_phase

==============================================================================
