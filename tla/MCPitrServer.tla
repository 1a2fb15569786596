----------------------------- MODULE MCPitrServer -----------------------------
(***************************************************************************)
(* Small instances of PitrServer.  Operations do not share state except    *)
(* their agent's connection, so one operation with two Execute slots and   *)
(* one or two Cancel slots meets every race there is on op.State.          *)
(***************************************************************************)
EXTENDS PitrServer, TLC

CONSTANTS o1, a1, e1, e2, c1, c2

OneOp     == {o1}
OneAgent  == {a1}
SameAgent == [o \in Ops |-> a1]
OneExec   == {e1}
TwoExecs  == {e1, e2}
OneCancel == {c1}
TwoCancels == {c1, c2}

Slots == Permutations(ExecReqs) \cup Permutations(CancelReqs)

==============================================================================
