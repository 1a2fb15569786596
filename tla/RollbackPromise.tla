---------------------------- MODULE RollbackPromise ----------------------------
(***************************************************************************)
(* What the agent promises the server that sends it a rollback of N        *)
(* statements.  It is taken up at most once.  While it is at work, parts of *)
(* the statements take effect, each part as a whole and behind the ones    *)
(* before it, none longer than BatchSize.  The agent answers at most once, *)
(* with a number of rows that is never too high and that is exact unless   *)
(* it reports an error, and after the answer nothing more takes effect.    *)
(* An agent that dies answers nothing and never takes the work up again,   *)
(* though its last part may have taken effect.                             *)
(***************************************************************************)
EXTENDS Naturals, FiniteSets

CONSTANTS N, BatchSize, None

VARIABLES life,  \* "new" until the agent takes the command up or loses it
          done,  \* the statements that have taken effect
          told   \* the answer: the rows, and whether it reports an error

Init == life = "new" /\ done = {} /\ told = None

Become(from, to) == life = from /\ life' = to

\* A part takes effect: consecutive statements, after all that have taken effect.
TakeEffect ==
  \E lo, hi \in 1 .. N :
    /\ lo <= hi /\ hi - lo + 1 <= BatchSize
    /\ \A s \in done : s < lo
    /\ done' = done \cup lo .. hi

TakeUp == Become("new", "working") /\ UNCHANGED <<done, told>>

Lose == Become("new", "over") /\ UNCHANGED <<done, told>>

Work == Become("working", "working") /\ TakeEffect /\ UNCHANGED told

Answer ==
  /\ Become("working", "over")
  /\ \E rows \in 0 .. Cardinality(done), failed \in BOOLEAN :
       /\ failed \/ rows = Cardinality(done)
       /\ told' = [rows |-> rows, failed |-> failed]
  /\ UNCHANGED done

Die ==
  /\ Become("working", "over")
  /\ TakeEffect \/ UNCHANGED done
  /\ UNCHANGED told

Next == TakeUp \/ Lose \/ Work \/ Answer \/ Die

Spec == Init /\ [][Next]_<<life, done, told>>

==============================================================================
