------------------------ MODULE RollbackExecution_proofs ------------------------
(***************************************************************************)
(* Proofs about RollbackExecution, for any number of statements, limits,   *)
(* minimum of the retry and number of crashes.                             *)
(*                                                                         *)
(* The invariant has three layers, each inductive relative to the ones     *)
(* below it: Control (where the executor is and how the batches lie),      *)
(* Progress (what MySQL has applied), Record (what the checkpoint and the  *)
(* answer say of it).  Limited, beside them, bounds the batches that are   *)
(* made.                                                                   *)
(***************************************************************************)
EXTENDS RollbackExecution, FiniteSetTheorems, TLAPS

Writing == pc \in {"truncate", "fill", "rename"}

\* The executor is at l, or writes the checkpoint before it goes there.
At(l) == pc = l \/ (Writing /\ ret = l)
Loop  == At("batch") \/ pc \in {"begin", "exec", "commit"}

\* A document is complete when it is renamed, and its writer knows where to go on.
WriteInv ==
  /\ file # Partial
  /\ Writing => doc # None /\ ret # "idle"
  /\ pc = "rename" => tmp = doc

\* The batches are consecutive intervals that start at 1.
Chained ==
  \A k \in DOMAIN batches :
    /\ batches[k].lo <= batches[k].hi
    /\ batches[k].hi <= N
    /\ batches[k].lo = IF k = 1 THEN 1 ELSE batches[k - 1].hi + 1

NextLo == IF batches = << >> THEN 1 ELSE batches[Len(batches)].hi + 1

\* The batch being built starts where the last one ended, and is empty only before
\* the first statement.
Building ==
  At("build") =>
    /\ cur.lo = NextLo
    /\ cur.lo <= cur.next
    /\ cur.lo = cur.next => cur.next = 1
    /\ cur.next <= N + 1
    /\ b = 1
    /\ res = NoResult

Built ==
  Loop \/ At("finish") \/ At("reply") =>
    batches # << >> /\ batches[Len(batches)].hi = N

InLoop ==
  /\ Loop => b <= Len(batches) + 1 /\ res.errors = 0
  /\ pc \in {"begin", "exec", "commit"} => b <= Len(batches) /\ size \in 1 .. Length(b)
  /\ pc = "exec" => tx < size
  /\ pc = "commit" => tx = size

Control == TypeOK /\ WriteInv /\ Chained /\ Building /\ Built /\ InLoop

-----------------------------------------------------------------------------
(* Layer 1: control.                                                       *)

LEMMA InitControl == Init => Control
<1> SUFFICES ASSUME Init PROVE Control
  OBVIOUS
<1> USE DEF Init
<1>1. TypeOK
  <2>1. inbox \in Seq(Commands) /\ batches \in Seq(Interval)
    OBVIOUS
  <2>2. cur \in [lo : Nat \ {0}, next : Nat \ {0}, bytes : Nat] /\ res \in Result
    BY DEF NoBatch, NoResult, Result
  <2>3. applied \in [Stmts -> Nat]
    OBVIOUS
  <2>4. /\ sent \subseteq Commands /\ pc \in Where
        /\ b \in Nat \ {0} /\ size \in Nat /\ tx \in Nat
        /\ crashes \in 0 .. MaxCrashes
    BY ExecAssumption DEF Where
  <2>6. running \in BOOLEAN /\ cancelled \in BOOLEAN
    OBVIOUS
  <2>5. /\ bytes \in [Stmts -> Sizes]
        /\ file \in Document \cup {None, Partial} /\ tmp \in Document \cup {None, Partial}
        /\ doc \in Document \cup {None}
        /\ ret \in {"idle", "build", "batch", "finish", "reply"}
        /\ reply = None
    OBVIOUS
  <2> HIDE DEF Init
  <2> QED BY <2>1, <2>2, <2>3, <2>4, <2>5, <2>6 DEF TypeOK
<1>2. WriteInv /\ Chained /\ Building /\ Built /\ InLoop
  BY ExecAssumption DEF WriteInv, Chained, Building, Built, InLoop, Writing, At, Loop
<1> QED BY <1>1, <1>2 DEF Control

\* What UpdateBatch does, with the control the executor gets back at l.
Updates(k, l) ==
  \/ pc' = l /\ UNCHANGED diskVars
  \/ /\ file \in Document
     /\ doc' = [file EXCEPT !.completed = k]
     /\ ret' = l
     /\ pc' = "truncate"
     /\ UNCHANGED <<file, tmp>>

LEMMA UpdateCases ==
  ASSUME Control, NEW k, NEW l, UpdateBatch(k, l)
  PROVE  Updates(k, l)
BY DEF Control, TypeOK, WriteInv, UpdateBatch, Updates, Write, NoWrite, Goto

\* How a batch that met an error goes on: given up, or shrunk.
GivenUp ==
  /\ res' = [res EXCEPT !.errors = @ + 1]
  /\ size' = size
  /\ Updates(b - 1, "finish")
Shrunk ==
  /\ pc' = "begin"
  /\ size' \in 1 .. Length(b)
  /\ UNCHANGED <<res, diskVars>>

LEMMA BatchType ==
  ASSUME Control, NEW k \in DOMAIN batches
  PROVE  batches[k] \in Interval /\ batches[k].lo \in Nat /\ batches[k].hi \in Nat
<1>1. batches[k] \in Interval
  BY DEF Control, TypeOK
<1> QED BY <1>1 DEF Interval, Stmts

LEMMA LengthType ==
  ASSUME Control, NEW k \in DOMAIN batches
  PROVE  Length(k) \in Nat \ {0}
<1>1. batches[k].lo \in Nat /\ batches[k].hi \in Nat /\ batches[k].lo <= batches[k].hi
  BY BatchType DEF Control, Chained
<1> QED BY <1>1 DEF Length

LEMMA ClampRange ==
  ASSUME Control, b \in DOMAIN batches, NEW n \in Nat
  PROVE  Clamp(n) \in 1 .. Length(b)
<1>1. Length(b) \in Nat \ {0}
  BY LengthType
<1> QED BY <1>1, ExecAssumption DEF Clamp

LEMMA ErrorCases ==
  ASSUME Control, pc \in {"begin", "exec", "commit"}, NEW r, OnError(r)
  PROVE  GivenUp \/ Shrunk
<1>1. b \in DOMAIN batches /\ size \in Nat /\ size \div 2 \in Nat
  BY DEF Control, TypeOK, InLoop
<1>2. ASSUME BatchFailed, UNCHANGED size PROVE GivenUp
  BY <1>2, UpdateCases DEF BatchFailed, GivenUp
<1>3. ASSUME Shrink PROVE GivenUp \/ Shrunk
  BY <1>1, <1>2, <1>3, ClampRange DEF Shrink, Shrunk, Goto
<1> QED BY <1>2, <1>3 DEF OnError

LEMMA DurableType == TypeOK => Durable \in [Stmts -> Nat]
BY DEF TypeOK, Durable

LEMMA UpdatesType ==
  ASSUME Control, NEW k \in Nat, Updates(k, "batch") \/ Updates(k, "finish")
  PROVE  /\ pc' \in Where
         /\ file' \in Document \cup {None, Partial} /\ tmp' \in Document \cup {None, Partial}
         /\ doc' \in Document \cup {None}
         /\ ret' \in {"idle", "build", "batch", "finish", "reply"}
BY DEF Control, TypeOK, Updates, Document, Where, diskVars

\* The steps of the loop keep the types.
LEMMA LoopType ==
  ASSUME Control, NextBatch \/ Begin \/ ExecStmt \/ Commit \/ CommitError
  PROVE  TypeOK'
<1> USE DEF vars, batchVars, execVars, diskVars, ctxVars, Goto
<1>a. TypeOK
  BY DEF Control
<1>1. CASE NextBatch
  <2>1. ASSUME b <= Len(batches) PROVE Clamp(Length(b)) \in Nat
    <3>1. b \in DOMAIN batches
      BY <2>1, <1>a DEF TypeOK
    <3>2. Clamp(Length(b)) \in 1 .. Length(b) /\ Length(b) \in Nat
      BY <3>1, LengthType, ClampRange
    <3> QED BY <3>2
  <2>2. size' \in Nat /\ pc' \in Where
    BY <1>1, <2>1, <1>a DEF NextBatch, TypeOK, Where
  <2> QED BY <2>2, <1>1, <1>a DEF NextBatch, TypeOK
<1>2. ASSUME GivenUp \/ Shrunk, pc \in {"begin", "exec", "commit"}
      PROVE  /\ pc' \in Where /\ size' \in Nat /\ res' \in Result
             /\ file' \in Document \cup {None, Partial} /\ tmp' \in Document \cup {None, Partial}
             /\ doc' \in Document \cup {None}
             /\ ret' \in {"idle", "build", "batch", "finish", "reply"}
  <2>1. CASE GivenUp
    <3>1. b - 1 \in Nat /\ size' \in Nat
      BY <2>1, <1>a DEF TypeOK, GivenUp
    <3>2. res' \in Result
      BY <1>2, <2>1 DEF Control, TypeOK, InLoop, Loop, GivenUp, Result
    <3> QED BY <3>1, <3>2, <2>1, UpdatesType DEF GivenUp
  <2>2. CASE Shrunk
    BY <2>2, <1>a DEF Shrunk, TypeOK, Where
  <2> QED BY <1>2, <2>1, <2>2
<1>3. CASE Begin
  <2>1. (pc' = "exec" /\ UNCHANGED <<size, res, diskVars>>) \/ GivenUp \/ Shrunk
    BY <1>3, ErrorCases DEF Begin
  <2> QED BY <2>1, <1>2, <1>3, <1>a DEF Begin, TypeOK, Where
<1>4. CASE ExecStmt
  <2>1. \/ tx' = tx + 1 /\ pc' \in {"exec", "commit"} /\ UNCHANGED <<size, res, diskVars>>
        \/ tx' = 0 /\ (GivenUp \/ Shrunk)
    BY <1>4, ErrorCases DEF ExecStmt
  <2> QED BY <2>1, <1>2, <1>4, <1>a DEF ExecStmt, TypeOK, Where
<1>5. CASE Commit
  <2>1. Updates(b, "batch") /\ b \in Nat
    BY <1>5, <1>a, UpdateCases DEF Commit, TypeOK
  <2>2. res' \in Result
    <3>1. res \in [rows : Nat, complete : Nat, errors : 0 .. 1] /\ size \in Nat
      BY <1>a DEF TypeOK, Result
    <3>2. res' = [[res EXCEPT !.complete = @ + 1] EXCEPT !.rows = @ + size]
      BY <1>5 DEF Commit
    <3>3. res' = [rows |-> res.rows + size, complete |-> res.complete + 1, errors |-> res.errors]
      BY <3>1, <3>2
    <3> QED BY <3>1, <3>3 DEF Result
  <2>3. applied' \in [Stmts -> Nat] /\ b' \in Nat \ {0} /\ tx' \in Nat
    BY <1>5, <1>a, DurableType DEF Commit, TypeOK
  <2> QED BY <2>1, <2>2, <2>3, <1>5, <1>a, UpdatesType DEF Commit, TypeOK
<1>6. CASE CommitError
  <2>1. (GivenUp \/ Shrunk) /\ applied' \in [Stmts -> Nat] /\ tx' = 0
    BY <1>6, <1>a, ErrorCases, DurableType DEF CommitError, TypeOK
  <2> QED BY <2>1, <1>2, <1>6, <1>a DEF CommitError, TypeOK
<1> QED BY <1>1, <1>3, <1>4, <1>5, <1>6

\* The three cases of Build: the end, a full batch, one more statement.
Ends  == cur.next > N /\ batches' = CloseBatch /\ cur' = cur /\ pc' = "batch"
Cuts  == /\ cur.next <= N
         /\ Full
         /\ batches' = CloseBatch
         /\ cur' = [lo |-> cur.next, next |-> cur.next + 1, bytes |-> bytes[cur.next]]
         /\ pc' = "build"
Grows == /\ cur.next <= N
         /\ ~Full
         /\ cur' = [lo |-> cur.lo, next |-> cur.next + 1, bytes |-> cur.bytes + bytes[cur.next]]
         /\ batches' = batches
         /\ pc' = "build"

LEMMA BuildCases == TypeOK /\ Build => Ends \/ Cuts \/ Grows
<1> SUFFICES ASSUME TypeOK, Build PROVE Ends \/ Cuts \/ Grows
  OBVIOUS
<1>1. cur \in [lo : Nat \ {0}, next : Nat \ {0}, bytes : Nat]
  BY DEF TypeOK
<1>2. CASE cur.next > N
  BY <1>2 DEF Build, Ends, Goto
<1>3. CASE ~(cur.next > N) /\ Full
  BY <1>1, <1>3, ExecAssumption DEF Build, Cuts, Goto
<1>4. CASE ~(cur.next > N) /\ ~Full
  <2>1. cur' = [[cur EXCEPT !.next = @ + 1] EXCEPT !.bytes = @ + bytes[cur.next]]
    BY <1>4 DEF Build
  <2>2. cur' = [lo |-> cur.lo, next |-> cur.next + 1, bytes |-> cur.bytes + bytes[cur.next]]
    BY <1>1, <2>1
  <2>3. cur.next <= N
    BY <1>1, <1>4, ExecAssumption
  <2> QED BY <1>4, <2>2, <2>3 DEF Build, Grows, Goto
<1> QED BY <1>2, <1>3, <1>4

\* So do all the others.
LEMMA OtherType ==
  ASSUME Control,
         \/ HandleExecute \/ HandleCancel \/ Build \/ Finish \/ Reply
         \/ Truncate \/ Fill \/ Rename \/ (\E c \in Commands : Deliver(c)) \/ Crash \/ Restart
  PROVE  TypeOK'
<1> USE DEF vars, batchVars, execVars, diskVars, ctxVars, Goto, Where
<1>a. TypeOK
  BY DEF Control
<1>1. CASE HandleExecute
  <2>1. inbox' \in Seq(Commands)
    BY <1>1, <1>a DEF HandleExecute, TypeOK
  <2>2. /\ cur' \in [lo : Nat \ {0}, next : Nat \ {0}, bytes : Nat] /\ res' \in Result
        /\ batches' \in Seq(Interval) /\ doc' \in Document
    BY <1>1 DEF HandleExecute, NoBatch, NoResult, Result, Write, Document
  <2>3. running' \in BOOLEAN /\ cancelled' \in BOOLEAN
    BY <1>1 DEF HandleExecute
  <2>4. /\ pc' = "truncate" /\ ret' = "build" /\ b' = 1 /\ size' = 0 /\ tx' = 0
        /\ UNCHANGED <<bytes, sent, applied, reply, crashes, file, tmp>>
    BY <1>1 DEF HandleExecute, Write
  <2> QED BY <2>1, <2>2, <2>3, <2>4, <1>a DEF TypeOK
<1>2. CASE HandleCancel
  <2>1. inbox' \in Seq(Commands)
    BY <1>2, <1>a DEF HandleCancel, TypeOK
  <2> QED BY <2>1, <1>2, <1>a DEF HandleCancel, TypeOK
<1>3. CASE Build
  <2>1. cur.lo \in Nat \ {0} /\ cur.next \in Nat \ {0} /\ cur.bytes \in Nat
    BY <1>a DEF TypeOK
  <2>2. cur.lo <= cur.next /\ (cur.lo = cur.next => cur.next = 1) /\ cur.next <= N + 1
    BY <1>3 DEF Build, Control, Building, At
  <2>3. ASSUME cur.next > N \/ Full PROVE CloseBatch \in Seq(Interval)
    <3>1. cur.lo < cur.next
      BY <2>1, <2>2, <2>3, ExecAssumption DEF Full, Count
    <3>2. [lo |-> cur.lo, hi |-> cur.next - 1] \in Interval
      BY <3>1, <2>1, <2>2, ExecAssumption DEF Interval, Stmts
    <3> QED BY <3>2, <1>a DEF CloseBatch, TypeOK
  <2>4. ASSUME cur.next <= N PROVE bytes[cur.next] \in Nat
    <3>1. cur.next \in Stmts
      BY <2>1, <2>4, ExecAssumption DEF Stmts
    <3> QED BY <3>1, <1>a, ExecAssumption DEF TypeOK
  <2>5. batches' \in Seq(Interval) /\ pc' \in Where
    BY <2>3, <1>3, <1>a, BuildCases DEF Ends, Cuts, Grows, TypeOK
  <2>6. cur' \in [lo : Nat \ {0}, next : Nat \ {0}, bytes : Nat]
    BY <2>1, <2>4, <1>3, <1>a, BuildCases DEF Ends, Cuts, Grows, TypeOK
  <2> QED BY <2>5, <2>6, <1>3, <1>a DEF Build, TypeOK
<1>4. CASE Finish
  BY <1>4, <1>a DEF Finish, NoWrite, Complete, Write, TypeOK, Document, Control, WriteInv
<1>5. CASE Reply
  BY <1>5, <1>a DEF Reply, TypeOK, Result, Answers
<1>6. CASE Truncate
  BY <1>6, <1>a DEF Truncate, TypeOK
<1>7. CASE Fill
  BY <1>7, <1>a DEF Fill, TypeOK
<1>8. CASE Rename
  BY <1>8, <1>a DEF Rename, TypeOK
<1>9. ASSUME NEW c \in Commands, Deliver(c) PROVE TypeOK'
  BY <1>9, <1>a DEF Deliver, TypeOK
<1>10. CASE Crash
  <2>1. applied' \in [Stmts -> Nat] /\ crashes' \in 0 .. MaxCrashes /\ inbox' \in Seq(Commands)
    BY <1>10, <1>a, DurableType, ExecAssumption DEF Crash, TypeOK
  <2>2. running' \in BOOLEAN
    BY <1>10 DEF Crash
  <2> QED BY <2>1, <2>2, <1>10, <1>a DEF Crash, TypeOK
<1>11. CASE Restart
  BY <1>11, <1>a DEF Restart, TypeOK
<1> QED BY <1>1, <1>2, <1>3, <1>4, <1>5, <1>6, <1>7, <1>8, <1>9, <1>10, <1>11

LEMMA TypeStep == Control /\ [Next]_vars => TypeOK'
<1> SUFFICES ASSUME Control, [Next]_vars PROVE TypeOK'
  OBVIOUS
<1>1. CASE Next
  BY <1>1, LoopType, OtherType DEF Next, Agent
<1>2. CASE UNCHANGED vars
  BY <1>2 DEF Control, TypeOK, vars, ctxVars, batchVars, execVars, diskVars
<1> QED BY <1>1, <1>2

\* The conjuncts of Control that say where the executor is.
Place == WriteInv /\ Chained /\ Building /\ Built /\ InLoop

LEMMA DocumentExcept ==
  ASSUME NEW d \in Document, NEW k \in Nat
  PROVE  /\ [d EXCEPT !.completed = k] \in Document
         /\ [d EXCEPT !.completed = k].completed = k
         /\ [d EXCEPT !.status = "complete"] \in Document
         /\ [d EXCEPT !.status = "complete"].completed = d.completed
BY DEF Document

\* After an error the executor is at the finish or at a smaller batch.
LEMMA ErrorPlace ==
  ASSUME Control, pc \in {"begin", "exec", "commit"}, GivenUp \/ Shrunk, UNCHANGED <<batchVars, b>>
  PROVE  Place'
<1> USE DEF Control, Place, WriteInv, Chained, Building, Built, InLoop, Writing, At, Loop,
            batchVars, diskVars
<1>1. CASE GivenUp
  <2>1. b - 1 \in Nat
    BY DEF TypeOK
  <2>2. file \in Document => [file EXCEPT !.completed = b - 1] \in Document
    BY <2>1, DocumentExcept
  <2> QED BY <1>1, <2>2, ExecAssumption DEF GivenUp, Updates
<1>2. CASE Shrunk
  <2>1. Length(b)' = Length(b)
    BY DEF Length
  <2> QED BY <1>2, <2>1 DEF Shrunk, TypeOK
<1> QED BY <1>1, <1>2

LEMMA LoopPlace ==
  ASSUME Control, NextBatch \/ Begin \/ ExecStmt \/ Commit \/ CommitError
  PROVE  Place'
<1> USE DEF batchVars, diskVars, Goto
<1>1. CASE NextBatch
  <2>1. ASSUME b <= Len(batches)
        PROVE  Clamp(Length(b)) \in 1 .. Length(b) /\ b \in DOMAIN batches
    <3>1. b \in DOMAIN batches
      BY <2>1 DEF Control, TypeOK
    <3>2. Length(b) \in Nat
      BY <3>1, LengthType
    <3> QED BY <3>1, <3>2, ClampRange
  <2>2. \/ b > Len(batches) /\ pc' = "finish"
        \/ b <= Len(batches) /\ pc' = "begin" /\ size' \in 1 .. Length(b)
    BY <1>1, <2>1 DEF NextBatch, Control, TypeOK
  <2> QED BY <1>1, <2>2 DEF NextBatch, Control, Place, WriteInv, Chained, Building, Built,
             InLoop, Writing, At, Loop, Length
<1>2. CASE Begin
  <2>1. (pc' = "exec" /\ tx' = 0 /\ UNCHANGED <<size, res, diskVars>>) \/ GivenUp \/ Shrunk
    BY <1>2, ErrorCases DEF Begin
  <2>2. CASE pc' = "exec" /\ tx' = 0 /\ UNCHANGED <<size, res, diskVars>>
    <3>1. size \in Nat \ {0}
      BY <1>2, LengthType DEF Begin, Control, TypeOK, InLoop
    <3> QED BY <1>2, <2>2, <3>1 DEF Begin, Control, Place, WriteInv, Chained, Building, Built,
               InLoop, Writing, At, Loop, Length
  <2> QED BY <1>2, <2>1, <2>2, ErrorPlace DEF Begin
<1>3. CASE ExecStmt
  <2>1. \/ /\ tx' = tx + 1 /\ UNCHANGED <<size, res, diskVars>>
           /\ pc' = IF tx + 1 = size THEN "commit" ELSE "exec"
        \/ GivenUp \/ Shrunk
    BY <1>3, ErrorCases DEF ExecStmt
  <2>2. CASE /\ tx' = tx + 1 /\ UNCHANGED <<size, res, diskVars>>
             /\ pc' = IF tx + 1 = size THEN "commit" ELSE "exec"
    BY <1>3, <2>2 DEF ExecStmt, Control, TypeOK, Place, WriteInv, Chained, Building, Built,
               InLoop, Writing, At, Loop, Length
  <2> QED BY <1>3, <2>1, <2>2, ErrorPlace DEF ExecStmt
<1>4. CASE Commit
  <2>1. Updates(b, "batch")
    BY <1>4, UpdateCases DEF Commit
  <2>2. res'.errors = res.errors /\ b' = b + 1 /\ b \in Nat /\ UNCHANGED batches /\ pc = "commit"
    BY <1>4 DEF Commit, Control, TypeOK, Result
  <2>3. file \in Document => [file EXCEPT !.completed = b] \in Document
    BY <2>2, DocumentExcept
  <2>4. TypeOK /\ UNCHANGED cur
    BY <1>4 DEF Commit, Control
  <2>5. CASE pc' = "batch" /\ UNCHANGED diskVars
    BY <2>2, <2>4, <2>5 DEF Control, Place, WriteInv, Chained, Building, Built, InLoop, Writing, At, Loop
  <2>6. CASE /\ file \in Document /\ doc' = [file EXCEPT !.completed = b]
             /\ ret' = "batch" /\ pc' = "truncate" /\ UNCHANGED <<file, tmp>>
    BY <2>2, <2>3, <2>4, <2>6, ExecAssumption
       DEF Control, Place, WriteInv, Chained, Building, Built, InLoop, Writing, At, Loop
  <2> QED BY <2>1, <2>5, <2>6 DEF Updates
<1>5. CASE CommitError
  BY <1>5, ErrorCases, ErrorPlace DEF CommitError
<1> QED BY <1>1, <1>2, <1>3, <1>4, <1>5

\* The batches stay a chain while they are built.
LEMMA BuildPlace == ASSUME Control, Build PROVE Place'
<1>1. TypeOK /\ pc = "build"
  BY DEF Control, Build
<1>2. /\ cur.lo = NextLo /\ cur.lo <= cur.next /\ (cur.lo = cur.next => cur.next = 1)
      /\ cur.next <= N + 1 /\ b = 1 /\ res = NoResult
      /\ cur.lo \in Nat \ {0} /\ cur.next \in Nat \ {0}
  BY <1>1 DEF Control, Building, At, TypeOK
<1>3. UNCHANGED <<b, res, size, tx, file, tmp, doc, ret>>
  BY DEF Build, execVars, diskVars
<1>4. ASSUME cur.next > N \/ Full PROVE cur.lo < cur.next
  BY <1>2, <1>4, ExecAssumption DEF Full, Count
<1>5. ASSUME batches' = CloseBatch, cur.lo < cur.next
      PROVE  /\ Chained'
             /\ batches' # << >> /\ batches'[Len(batches')].hi = cur.next - 1
             /\ Len(batches') = Len(batches) + 1 /\ Len(batches) \in Nat
  <2>1. batches \in Seq(Interval)
    BY <1>1 DEF TypeOK
  <2> DEFINE new == [lo |-> cur.lo, hi |-> cur.next - 1]
  <2>2. /\ Len(batches') = Len(batches) + 1 /\ Len(batches) \in Nat
        /\ batches'[Len(batches) + 1] = new
        /\ \A k \in 1 .. Len(batches) : batches'[k] = batches[k]
        /\ DOMAIN batches' = 1 .. Len(batches) + 1
    BY <1>5, <2>1 DEF CloseBatch
  <2>3. new.lo = (IF Len(batches) = 0 THEN 1 ELSE batches[Len(batches)].hi + 1)
    BY <1>2, <2>1 DEF NextLo
  <2>4. ASSUME NEW k \in 1 .. Len(batches) + 1
        PROVE  /\ batches'[k].lo <= batches'[k].hi
               /\ batches'[k].hi <= N
               /\ batches'[k].lo = IF k = 1 THEN 1 ELSE batches'[k - 1].hi + 1
    <3>1. CASE k = Len(batches) + 1
      BY <1>2, <1>5, <2>2, <2>3, <3>1, ExecAssumption
    <3>2. CASE k \in 1 .. Len(batches)
      <4>1. k = 1 \/ k - 1 \in 1 .. Len(batches)
        BY <2>2, <3>2
      <4> QED BY <2>1, <2>2, <3>2, <4>1 DEF Control, Chained
    <3> QED BY <2>2, <3>1, <3>2
  <2> QED BY <2>2, <2>4 DEF Chained
<1>6. CASE Ends
  <2>1. cur.lo < cur.next /\ cur.next - 1 = N
    BY <1>2, <1>4, <1>6, ExecAssumption DEF Ends
  <2>2. b <= Len(batches') + 1 /\ res.errors = 0
    BY <1>2, <1>5, <1>6, <2>1 DEF Ends, NoResult
  <2> QED BY <1>1, <1>2, <1>3, <1>5, <1>6, <2>1, <2>2 DEF Ends, Control, Place, WriteInv, Building,
             Built, InLoop, Writing, At, Loop
<1>7. CASE Cuts
  <2>1. cur.lo < cur.next
    BY <1>4, <1>7 DEF Cuts
  <2>2. cur'.lo = NextLo' /\ cur'.lo <= cur'.next /\ cur'.lo # cur'.next /\ cur'.next <= N + 1
    BY <1>2, <1>5, <1>7, <2>1, ExecAssumption DEF Cuts, NextLo
  <2> QED BY <1>1, <1>2, <1>3, <1>5, <1>7, <2>1, <2>2 DEF Cuts, Control, Place, WriteInv, Building,
             Built, InLoop, Writing, At, Loop
<1>8. CASE Grows
  <2>1. cur'.lo = NextLo' /\ cur'.lo <= cur'.next /\ cur'.lo # cur'.next /\ cur'.next <= N + 1
    BY <1>2, <1>8, ExecAssumption DEF Grows, NextLo
  <2> QED BY <1>1, <1>2, <1>3, <1>8, <2>1 DEF Grows, Control, Place, WriteInv, Chained, Building,
             Built, InLoop, Writing, At, Loop
<1> QED BY <1>1, <1>6, <1>7, <1>8, BuildCases

LEMMA OtherPlace ==
  ASSUME Control,
         \/ HandleExecute \/ HandleCancel \/ Finish \/ Reply
         \/ Truncate \/ Fill \/ Rename \/ (\E c \in Commands : Deliver(c)) \/ Crash \/ Restart
  PROVE  Place'
<1> USE DEF batchVars, execVars, diskVars, ctxVars, Goto, Control, Place, WriteInv, Chained,
            Building, Built, InLoop, Writing, At, Loop
<1>1. CASE HandleExecute
  <2>1. /\ pc' = "truncate" /\ ret' = "build" /\ batches' = << >> /\ cur' = NoBatch /\ b' = 1
        /\ res' = NoResult /\ doc' = [status |-> "in_progress", completed |-> 0] /\ file' = file
    BY <1>1 DEF HandleExecute, Write
  <2>2. doc' \in Document
    BY <2>1 DEF Document
  <2> QED BY <2>1, <2>2, ExecAssumption DEF NoBatch, NextLo
<1>2. CASE HandleCancel
  BY <1>2 DEF HandleCancel
<1>3. CASE Finish
  <2>1. file # None => [file EXCEPT !.status = "complete"] \in Document
    BY DEF TypeOK, Document
  <2> QED BY <1>3, <2>1, ExecAssumption DEF Finish, NoWrite, Complete, Write
<1>4. CASE Reply
  BY <1>4 DEF Reply
<1>5. CASE Truncate
  BY <1>5 DEF Truncate, NextLo, Length, TypeOK
<1>6. CASE Fill
  BY <1>6 DEF Fill, NextLo, Length, TypeOK
<1>7. CASE Rename
  <2>1. doc \in Document /\ tmp = doc /\ ret \in {"build", "batch", "finish", "reply"}
    BY <1>7 DEF Rename, TypeOK
  <2> QED BY <1>7, <2>1, ExecAssumption DEF Rename, NextLo, Length
<1>8. ASSUME NEW c \in Commands, Deliver(c) PROVE Place'
  BY <1>8 DEF Deliver, NextLo, Length
<1>9. CASE Crash
  BY <1>9 DEF Crash
<1>10. CASE Restart
  BY <1>10 DEF Restart
<1> QED BY <1>1, <1>2, <1>3, <1>4, <1>5, <1>6, <1>7, <1>8, <1>9, <1>10

LEMMA ControlStep == Control /\ [Next]_vars => Control'
<1> SUFFICES ASSUME Control, [Next]_vars PROVE Control'
  OBVIOUS
<1>1. CASE Next
  BY <1>1, TypeStep, LoopPlace, BuildPlace, OtherPlace DEF Next, Agent, Control, Place
<1>2. CASE UNCHANGED vars
  BY <1>2, TypeStep DEF vars, ctxVars, batchVars, execVars, diskVars, Control, WriteInv, Chained,
     Building, Built, InLoop, Writing, At, Loop, NextLo, Length
<1> QED BY <1>1, <1>2

LEMMA SpecControl == Spec => []Control
BY InitControl, ControlStep, PTL DEF Spec

\* The type invariant of the executor and the checkpoint file.
THEOREM TypeCorrect == Spec => []TypeOK
<1>1. Control => TypeOK
  BY DEF Control
<1> QED BY <1>1, SpecControl, PTL

-----------------------------------------------------------------------------
(* The limits of the batches.                                              *)

Adding == INSTANCE SequenceFolds WITH Op <- Plus

\* The sum of the sizes from i to j.
Bytes(sizes, i, j) == Adding!Fold(0, SubSeq(sizes, i, j))

WithinLimits(i, j, total) == j - i + 1 <= BatchSize /\ (j > i => total <= MaxBytes)

\* The batch being built knows its bytes and keeps both limits, like those before it.
Limited ==
  /\ \A k \in DOMAIN batches :
       WithinLimits(batches[k].lo, batches[k].hi, Bytes(bytes, batches[k].lo, batches[k].hi))
  /\ At("build") => /\ cur.bytes = Bytes(bytes, cur.lo, cur.next - 1)
                    /\ WithinLimits(cur.lo, cur.next - 1, cur.bytes)

\* Each statement of a batch adds its length.
LEMMA BytesAdd ==
  ASSUME TypeOK, NEW i \in Nat \ {0}
  PROVE  /\ Bytes(bytes, i, i - 1) = 0
         /\ \A j \in Stmts : i <= j => Bytes(bytes, i, j) = Bytes(bytes, i, j - 1) + bytes[j]
<1>1. bytes \in Seq(Sizes) /\ Len(bytes) = N
  BY ExecAssumption DEF TypeOK, Stmts
<1>2. Bytes(bytes, i, i - 1) = 0
  BY <1>1, Adding!FoldPart DEF Bytes
<1>3. ASSUME NEW j \in Stmts, i <= j PROVE Bytes(bytes, i, j) = Bytes(bytes, i, j - 1) + bytes[j]
  <2>1. j - 1 \in Nat /\ i <= j - 1 + 1 /\ j - 1 + 1 <= Len(bytes) /\ j - 1 + 1 = j
    BY <1>1, <1>3, ExecAssumption DEF Stmts
  <2>2. Adding!Fold(0, SubSeq(bytes, i, j - 1 + 1))
          = Plus(Adding!Fold(0, SubSeq(bytes, i, j - 1)), bytes[j - 1 + 1])
    BY <1>1, <2>1, Adding!FoldPart
  <2> QED BY <2>1, <2>2 DEF Bytes, Plus
<1> QED BY <1>2, <1>3

LEMMA BytesOfBatch == ASSUME NEW k PROVE BytesIn(k) = Bytes(bytes, batches[k].lo, batches[k].hi)
BY DEF BytesIn, Bytes, Adding!Fold, FoldLeft, MapThenFoldSet, Max,
       Adding!FoldLeft, Adding!MapThenFoldSet, Adding!Max

LEMMA InitLimited == Init => Limited
BY DEF Init, Limited, At, Writing

\* The three cases of a step of Build.
LEMMA BuildLimited == ASSUME Control, Limited, Build PROVE Limited'
<1>1. /\ batches \in Seq(Interval) /\ cur.lo \in Nat \ {0} /\ cur.next \in Nat \ {0}
      /\ cur.bytes \in Nat /\ cur.lo <= cur.next /\ cur.next <= N + 1
      /\ (cur.lo = cur.next => cur.next = 1)
      /\ cur.bytes = Bytes(bytes, cur.lo, cur.next - 1)
      /\ WithinLimits(cur.lo, cur.next - 1, cur.bytes)
  BY DEF Control, TypeOK, Building, Build, Limited, At
<1>3. bytes' = bytes
  BY DEF Build
<1>4. ASSUME batches' = CloseBatch
      PROVE  \A k \in DOMAIN batches' :
               WithinLimits(batches[k].lo, batches[k].hi, Bytes(bytes, batches[k].lo, batches[k].hi))'
  <2> DEFINE new == [lo |-> cur.lo, hi |-> cur.next - 1]
  <2>1. /\ batches' = Append(batches, new) /\ DOMAIN batches' = 1 .. Len(batches) + 1
        /\ DOMAIN batches = 1 .. Len(batches) /\ Len(batches) \in Nat
        /\ batches'[Len(batches) + 1] = new
        /\ \A k \in 1 .. Len(batches) : batches'[k] = batches[k]
    BY <1>1, <1>4 DEF CloseBatch
  <2>2. WithinLimits(new.lo, new.hi, Bytes(bytes, new.lo, new.hi))
    BY <1>1
  <2> HIDE DEF new
  <2>3. ASSUME NEW k \in DOMAIN batches'
        PROVE  WithinLimits(batches'[k].lo, batches'[k].hi, Bytes(bytes', batches'[k].lo, batches'[k].hi))
    <3>1. CASE k = Len(batches) + 1
      BY <1>3, <2>1, <2>2, <3>1
    <3>2. CASE k \in DOMAIN batches
      BY <1>3, <2>1, <3>2 DEF Limited
    <3> QED BY <2>1, <3>1, <3>2
  <2> QED BY <2>3
<1>5. ASSUME batches' = batches
      PROVE  \A k \in DOMAIN batches' :
               WithinLimits(batches[k].lo, batches[k].hi, Bytes(bytes, batches[k].lo, batches[k].hi))'
  BY <1>3, <1>5 DEF Limited
<1>6. ASSUME cur.next <= N
      PROVE  /\ cur.next \in Stmts /\ bytes[cur.next] \in Nat
             /\ Bytes(bytes, cur.next, cur.next) = bytes[cur.next]
             /\ Bytes(bytes, cur.lo, cur.next) = cur.bytes + bytes[cur.next]
  <2>1. cur.next \in Stmts
    BY <1>1, <1>6, ExecAssumption DEF Stmts
  <2>2. bytes[cur.next] \in Nat /\ TypeOK
    BY <2>1, ExecAssumption DEF Control, TypeOK
  <2>3. Bytes(bytes, cur.next, cur.next) = 0 + bytes[cur.next]
    BY <1>1, <2>1, <2>2, BytesAdd
  <2>4. Bytes(bytes, cur.lo, cur.next) = cur.bytes + bytes[cur.next]
    BY <1>1, <2>1, <2>2, BytesAdd
  <2> QED BY <2>1, <2>2, <2>3, <2>4
<1>7. CASE Ends
  BY <1>1, <1>4, <1>7 DEF Ends, Limited, At, Writing
<1>8. CASE Cuts
  <2>1. cur'.lo = cur.next /\ cur'.next - 1 = cur.next /\ cur'.bytes = bytes[cur.next]
    BY <1>1, <1>8 DEF Cuts
  <2>2. cur'.bytes = Bytes(bytes', cur'.lo, cur'.next - 1)
    BY <1>3, <1>6, <1>8, <2>1 DEF Cuts
  <2>3. WithinLimits(cur'.lo, cur'.next - 1, cur'.bytes)
    BY <1>1, <2>1, ExecAssumption DEF WithinLimits
  <2> QED BY <1>4, <1>8, <2>2, <2>3 DEF Cuts, Limited
<1>9. CASE Grows
  <2>1. cur'.lo = cur.lo /\ cur'.next - 1 = cur.next /\ cur'.bytes = cur.bytes + bytes[cur.next]
    BY <1>1, <1>9 DEF Grows
  <2>2. cur'.bytes = Bytes(bytes', cur'.lo, cur'.next - 1)
    BY <1>3, <1>6, <1>9, <2>1 DEF Grows
  <2>3. WithinLimits(cur'.lo, cur'.next - 1, cur'.bytes)
    <3>1. ~(Count >= BatchSize) /\ ~(cur.bytes + bytes[cur.next] > MaxBytes /\ Count > 0)
      BY <1>9 DEF Grows, Full
    <3>2. cur.lo \in Nat /\ cur.next \in Nat /\ cur.bytes + bytes[cur.next] \in Nat
      BY <1>1, <1>6, <1>9 DEF Grows
    <3>3. cur.next - cur.lo + 1 <= BatchSize
      BY <3>1, <3>2, ExecAssumption DEF Count
    <3>4. cur.next > cur.lo => cur.bytes + bytes[cur.next] <= MaxBytes
      BY <3>1, <3>2, ExecAssumption DEF Count
    <3> QED BY <2>1, <3>3, <3>4 DEF WithinLimits
  <2> QED BY <1>5, <1>9, <2>2, <2>3 DEF Grows, Limited
<1> QED BY <1>7, <1>8, <1>9, BuildCases DEF Control

LEMMA LimitedStep == Control /\ Limited /\ [Next]_vars => Limited'
<1> SUFFICES ASSUME Control, Limited, [Next]_vars PROVE Limited'
  OBVIOUS
<1>1. ASSUME bytes' = bytes, batches' = batches, cur' = cur, At("build")' => At("build")
      PROVE  Limited'
  BY <1>1 DEF Limited
<1>2. CASE HandleExecute
  <2>1. /\ bytes' = bytes /\ batches' = << >> /\ cur'.lo = 1 /\ cur'.next - 1 = 0 /\ cur'.bytes = 0
        /\ TypeOK
    BY <1>2 DEF HandleExecute, NoBatch, Control
  <2>2. Bytes(bytes, 1, 0) = 0
    <3>1. Bytes(bytes, 1, 1 - 1) = 0
      BY <2>1, BytesAdd
    <3> QED BY <3>1
  <2>3. cur'.bytes = Bytes(bytes', cur'.lo, cur'.next - 1)
    BY <2>1, <2>2
  <2>4. WithinLimits(cur'.lo, cur'.next - 1, cur'.bytes)
    BY <2>1, ExecAssumption DEF WithinLimits
  <2>5. DOMAIN batches' = {}
    BY <2>1
  <2> QED BY <2>3, <2>4, <2>5 DEF Limited
<1>3. CASE NextBatch \/ Begin \/ ExecStmt \/ Commit \/ CommitError
  <2>1. pc \in {"batch", "begin", "exec", "commit"} /\ UNCHANGED <<bytes, batches, cur>>
    BY <1>3 DEF NextBatch, Begin, ExecStmt, Commit, CommitError, batchVars
  <2>2. ~At("build")'
    <3>1. CASE NextBatch
      BY <3>1 DEF NextBatch, Goto, At, Writing
    <3>2. CASE Begin
      BY <2>1, <3>2, ErrorCases DEF Begin, Goto, At, Writing, GivenUp, Shrunk, Updates
    <3>3. CASE ExecStmt
      BY <2>1, <3>3, ErrorCases DEF ExecStmt, Goto, At, Writing, GivenUp, Shrunk, Updates
    <3>4. CASE Commit
      BY <3>4, UpdateCases DEF Commit, At, Writing, Updates
    <3>5. CASE CommitError
      BY <2>1, <3>5, ErrorCases DEF CommitError, At, Writing, GivenUp, Shrunk, Updates
    <3> QED BY <1>3, <3>1, <3>2, <3>3, <3>4, <3>5
  <2> QED BY <1>1, <2>1, <2>2
<1>4. CASE Finish \/ Reply \/ HandleCancel
  BY <1>1, <1>4 DEF Finish, Reply, HandleCancel, Complete, Write, NoWrite, Goto, batchVars, At, Writing
<1>5. CASE Truncate \/ Fill \/ Rename
  BY <1>1, <1>5 DEF Truncate, Fill, Rename, Goto, batchVars, At, Writing
<1>6. CASE (\E c \in Commands : Deliver(c)) \/ Crash \/ Restart \/ UNCHANGED vars
  BY <1>1, <1>6 DEF Deliver, Crash, Restart, Goto, vars, batchVars, diskVars, At, Writing
<1> QED BY <1>2, <1>3, <1>4, <1>5, <1>6, BuildLimited DEF Next, Agent

\* buildBatches keeps the limits of the options: no batch has more statements than
\* BatchSize, and only one of a single statement more bytes than MaxBatchBytes.
THEOREM KeepsTheLimits == Spec => []BatchesWithinLimits
<1>1. Control /\ Limited => BatchesWithinLimits
  <2> SUFFICES ASSUME Control, Limited, NEW k \in 1 .. Len(batches)
               PROVE  Length(k) <= BatchSize /\ (Length(k) > 1 => BytesIn(k) <= MaxBytes)
    BY DEF BatchesWithinLimits
  <2>1. k \in DOMAIN batches
    BY DEF Control, TypeOK
  <2>2. batches[k].lo \in Nat /\ batches[k].hi \in Nat
    BY <2>1, BatchType
  <2> QED BY <2>1, <2>2, BytesOfBatch DEF Limited, WithinLimits, Length
<1> QED BY <1>1, InitLimited, LimitedStep, SpecControl, PTL DEF Spec

-----------------------------------------------------------------------------
(* Layer 2: what MySQL has applied.                                        *)

Untouched ==
  Pending => /\ pc \in {"idle", "dead"}
             /\ file = None
             /\ reply = None
             /\ \A s \in Stmts : applied[s] = 0

OneExecute ==
  /\ \A i \in DOMAIN inbox : inbox[i] \in sent
  /\ \A i, j \in DOMAIN inbox : inbox[i] = "execute" /\ inbox[j] = "execute" => i = j

\* Only statements before the batch being executed are applied.
Frontier ==
  /\ At("build") => \A s \in Stmts : applied[s] = 0
  /\ Loop => \A s \in Stmts : applied[s] > 0 => b > Len(batches) \/ s < batches[b].lo

Progress == Untouched /\ OneExecute /\ Frontier /\ AppliedAtMostOnce

LEMMA InitProgress == Init => Progress
<1> SUFFICES ASSUME Init PROVE Progress
  OBVIOUS
<1>1. Untouched /\ OneExecute
  BY DEF Init, Untouched, OneExecute, Pending
<1>2. Frontier /\ AppliedAtMostOnce
  BY DEF Init, Frontier, AppliedAtMostOnce, At, Loop, Writing
<1> QED BY <1>1, <1>2 DEF Progress

\* What a commit that takes effect applies: statements not yet applied, which lie
\* between what has been applied and the next batch.
LEMMA DurableEffect ==
  ASSUME Control, Progress, pc = "commit"
  PROVE  LET lo == batches[b].lo
             hi == lo + size - 1
         IN /\ lo \in Nat \ {0} /\ size \in Nat \ {0} /\ lo .. hi \subseteq Stmts
            /\ b \in DOMAIN batches /\ hi <= batches[b].hi
            /\ \A s \in Stmts : applied[s] > 0 => s < lo
            /\ \A s \in Stmts : Durable[s] = IF s \in lo .. hi THEN 1 ELSE applied[s]
            /\ \A s \in Stmts : Durable[s] <= 1
            /\ \A s \in lo .. hi : applied[s] = 0
<1> DEFINE lo == batches[b].lo
           hi == lo + size - 1
<1>1. TypeOK /\ b \in DOMAIN batches /\ tx = size /\ size \in 1 .. Length(b)
  BY DEF Control, InLoop, TypeOK
<1>2. /\ lo \in Nat \ {0} /\ batches[b].hi \in Nat /\ batches[b].hi <= N
      /\ size \in Nat \ {0} /\ hi <= batches[b].hi
  <2>1. batches[b] \in Interval
    BY <1>1, BatchType
  <2> QED BY <1>1, <2>1, ExecAssumption DEF Interval, Stmts, Length
<1>3. lo .. hi \subseteq Stmts
  BY <1>2, ExecAssumption DEF Stmts
<1>4. \A s \in Stmts : applied[s] > 0 => s < lo
  BY <1>1 DEF Progress, Frontier, Loop, TypeOK
<1>5. \A s \in Stmts : applied[s] \in Nat /\ applied[s] <= 1
  BY <1>1 DEF Progress, AppliedAtMostOnce, TypeOK
<1>6. \A s \in lo .. hi : applied[s] = 0
  BY <1>2, <1>3, <1>4, <1>5 DEF Stmts
<1>7. \A s \in Stmts : Durable[s] = IF s \in lo .. hi THEN applied[s] + 1 ELSE applied[s]
  BY <1>1 DEF Durable
<1> QED BY <1>1, <1>2, <1>3, <1>4, <1>5, <1>6, <1>7

\* Commands arrive and are taken from the inbox in order.
LEMMA InboxStep ==
  ASSUME Control, Progress, Next
  PROVE  /\ OneExecute'
         /\ Pending' => Pending
         /\ HandleExecute => Pending /\ ~Pending'
<1>1. inbox \in Seq(Commands) /\ OneExecute
  BY DEF Control, TypeOK, Progress
<1>2. CASE UNCHANGED <<inbox, sent>> /\ ~HandleExecute
  BY <1>1, <1>2 DEF OneExecute, Pending
<1>3. ASSUME NEW c \in Commands, Deliver(c)
      PROVE  OneExecute' /\ (Pending' => Pending) /\ ~HandleExecute
  <2>1. /\ c \notin sent /\ sent' = sent \cup {c}
        /\ Len(inbox') = Len(inbox) + 1 /\ inbox'[Len(inbox) + 1] = c
        /\ \A i \in 1 .. Len(inbox) : inbox'[i] = inbox[i]
        /\ DOMAIN inbox = 1 .. Len(inbox) /\ DOMAIN inbox' = 1 .. Len(inbox) + 1
        /\ Len(inbox) \in Nat
    BY <1>1, <1>3 DEF Deliver
  <2>2. OneExecute'
    BY <1>1, <2>1 DEF OneExecute
  <2>3. ASSUME Pending' PROVE Pending
    BY <2>1, <2>3 DEF Pending
  <2>4. ~HandleExecute
    BY <1>1, <1>3 DEF Deliver, HandleExecute
  <2> QED BY <2>2, <2>3, <2>4
<1>4. ASSUME inbox # << >>, inbox' = Tail(inbox), sent' = sent
      PROVE  /\ OneExecute'
             /\ Head(inbox) = inbox[1] /\ 1 \in DOMAIN inbox
             /\ Pending' => Pending
             /\ Head(inbox) = "execute" => Pending /\ ~Pending'
  <2>1. /\ Len(inbox') = Len(inbox) - 1 /\ Len(inbox) \in Nat \ {0}
        /\ Head(inbox) = inbox[1] /\ DOMAIN inbox = 1 .. Len(inbox)
        /\ DOMAIN inbox' = 1 .. Len(inbox) - 1
        /\ \A i \in 1 .. Len(inbox) - 1 : inbox'[i] = inbox[i + 1]
    BY <1>1, <1>4
  <2>2. \A i \in DOMAIN inbox' : i + 1 \in DOMAIN inbox /\ i + 1 # 1 /\ inbox'[i] = inbox[i + 1]
    BY <2>1
  <2>3. \A i, j \in DOMAIN inbox' : i + 1 = j + 1 => i = j
    BY <2>1
  <2> QED BY <1>1, <1>4, <2>1, <2>2, <2>3 DEF OneExecute, Pending
<1>5. CASE HandleExecute
  BY <1>4, <1>5 DEF HandleExecute
<1>6. CASE HandleCancel
  BY <1>4, <1>6 DEF HandleCancel, HandleExecute
<1>7. CASE Crash
  BY <1>7 DEF Crash, OneExecute, Pending, HandleExecute, Goto
<1>8. CASE Build \/ NextBatch \/ Begin \/ ExecStmt \/ Commit \/ CommitError \/ Finish \/ Reply
           \/ Truncate \/ Fill \/ Rename \/ Restart
  BY <1>2, <1>8 DEF HandleExecute, Build, NextBatch, Begin, ExecStmt, Commit, CommitError, Finish,
     Reply, Truncate, Fill, Rename, Restart
<1> QED BY <1>3, <1>5, <1>6, <1>7, <1>8 DEF Next, Agent

\* Errors, retries and the moves between batches apply nothing.
LEMMA QuietProgress ==
  ASSUME Control, Control', Progress, Next, applied' = applied
  PROVE  Progress'
<1> USE DEF batchVars, execVars, diskVars, ctxVars, Goto
<1>1. OneExecute' /\ AppliedAtMostOnce'
  BY InboxStep DEF Progress, AppliedAtMostOnce
<1>2. Untouched'
  <2>1. CASE HandleExecute
    BY <2>1, InboxStep DEF Untouched
  <2>2. CASE Pending' /\ ~HandleExecute
    <3>1. /\ Pending /\ pc \in {"idle", "dead"} /\ file = None /\ reply = None
          /\ \A s \in Stmts : applied[s] = 0
      BY <2>2, InboxStep DEF Progress, Untouched
    <3>2. (\E c \in Commands : Deliver(c)) \/ HandleCancel \/ Crash \/ Restart
      BY <2>2, <3>1 DEF Next, Agent, Build, NextBatch, Begin, ExecStmt, Commit, CommitError, Finish,
         Reply, Truncate, Fill, Rename
    <3> QED BY <3>1, <3>2 DEF Deliver, HandleCancel, Crash, Restart, Untouched
  <2> QED BY <2>1, <2>2 DEF Untouched
<1>3. Frontier'
  <2> USE DEF Frontier, At, Loop, Writing
  <2>1. CASE HandleExecute
    BY <2>1, InboxStep DEF HandleExecute, Write, Progress, Untouched
  <2>2. CASE HandleCancel \/ Finish \/ Reply \/ Crash \/ Restart
    BY <2>2 DEF HandleCancel, Finish, Reply, Crash, Restart, NoWrite, Complete, Write
  <2>3. ASSUME NEW c \in Commands, Deliver(c) PROVE Frontier'
    BY <2>3 DEF Deliver, Progress
  <2>4. CASE Build
    BY <2>4 DEF Build, Progress
  <2>5. CASE Truncate \/ Fill \/ Rename
    BY <2>5 DEF Truncate, Fill, Rename, Progress, Control, TypeOK, WriteInv
  <2>6. CASE NextBatch
    BY <2>6 DEF NextBatch, Progress
  <2>7. ASSUME GivenUp \/ Shrunk, pc \in {"begin", "exec", "commit"}, UNCHANGED <<batches, b>>
        PROVE  Frontier'
    BY <2>7 DEF GivenUp, Shrunk, Updates, Progress
  <2>8. CASE Begin
    BY <2>7, <2>8, ErrorCases DEF Begin, Progress
  <2>9. CASE ExecStmt
    BY <2>7, <2>9, ErrorCases DEF ExecStmt, Progress
  <2>10. CASE CommitError
    BY <2>7, <2>10, ErrorCases DEF CommitError
  <2>11. CASE Commit
    <3>1. batches[b].lo \in Stmts /\ applied[batches[b].lo] = 0 /\ Durable[batches[b].lo] = 1
      BY <2>11, DurableEffect DEF Commit
    <3> QED BY <2>11, <3>1 DEF Commit
  <2> QED BY <2>1, <2>2, <2>3, <2>4, <2>5, <2>6, <2>8, <2>9, <2>10, <2>11 DEF Next, Agent
<1> QED BY <1>1, <1>2, <1>3 DEF Progress

\* A commit applies its statements for the first time.
LEMMA DurableProgress ==
  ASSUME Control, Control', Progress, Next, pc = "commit", applied' = Durable
  PROVE  Progress'
<1>1. OneExecute' /\ ~Pending'
  BY InboxStep DEF Progress, Untouched
<1>2. AppliedAtMostOnce'
  BY DurableEffect DEF AppliedAtMostOnce
<1>3. Commit \/ CommitError \/ Crash \/ \E c \in Commands : Deliver(c)
  BY DEF Next, Agent, HandleExecute, HandleCancel, Build, NextBatch, Begin, ExecStmt, Finish,
     Reply, Truncate, Fill, Rename, Restart
<1>4. CASE applied' = applied
  BY <1>4, QuietProgress
<1>5. CASE applied' # applied
  <2> USE DEF Frontier, At, Loop, Writing, Goto
  <2>1. CASE Crash
    BY <1>1, <1>2, <2>1 DEF Crash, Progress, Untouched
  <2>2. CASE CommitError
    <3>1. OnError(FALSE) /\ UNCHANGED batches
      BY <1>5, <2>2 DEF CommitError, batchVars
    <3>2. pc' = "finish" \/ (pc' = "truncate" /\ ret' = "finish")
      BY <3>1, UpdateCases DEF OnError, BatchFailed, Updates
    <3> QED BY <1>1, <1>2, <3>2 DEF Progress, Untouched
  <2>3. CASE Commit
    <3>1. /\ UNCHANGED batches /\ b' = b + 1 /\ Updates(b, "batch")
      BY <2>3, UpdateCases DEF Commit, batchVars
    <3>2. ASSUME b + 1 <= Len(batches), NEW s \in Stmts, applied'[s] > 0
          PROVE  s < batches[b + 1].lo
      <4>1. b \in DOMAIN batches /\ b + 1 \in DOMAIN batches /\ b \in Nat \ {0}
        <5>1. batches \in Seq(Interval) /\ b \in Nat \ {0}
          BY DEF Control, TypeOK
        <5>2. DOMAIN batches = 1 .. Len(batches) /\ Len(batches) \in Nat
          BY <5>1
        <5> QED BY <3>2, <5>1, <5>2
      <4>2. batches[b].hi \in Nat
        BY <4>1, BatchType
      <4>3. batches[b + 1].lo = batches[b].hi + 1
        <5>1. b + 1 # 1 /\ b + 1 - 1 = b
          BY <4>1
        <5> QED BY <4>1, <5>1 DEF Control, Chained
      <4>4. s <= batches[b].lo + size - 1
        BY <3>2, DurableEffect DEF Stmts
      <4> QED BY <4>2, <4>3, <4>4, DurableEffect DEF Stmts
    <3>3. Frontier'
      <4>1. b' = b + 1 /\ batches' = batches /\ b + 1 \in Nat /\ Len(batches) \in Nat
        BY <3>1 DEF Control, TypeOK
      <4>2. pc' = "batch" \/ (pc' = "truncate" /\ ret' = "batch")
        BY <3>1 DEF Updates
      <4>3. \A s \in Stmts : applied'[s] > 0 => b' > Len(batches') \/ s < batches'[b'].lo
        BY <3>2, <4>1
      <4> QED BY <4>2, <4>3
    <3> QED BY <1>1, <1>2, <3>3 DEF Progress, Untouched
  <2> QED BY <1>3, <1>5, <2>1, <2>2, <2>3 DEF Deliver
<1> QED BY <1>4, <1>5

\* Only a commit applies anything.
LEMMA AppliedBy == ASSUME Next PROVE applied' = applied \/ (pc = "commit" /\ applied' = Durable)
BY DEF Next, Agent, HandleExecute, HandleCancel, Build, NextBatch, Begin, ExecStmt, Commit,
   CommitError, Finish, Reply, Truncate, Fill, Rename, Deliver, Crash, Restart

LEMMA ProgressStep == Control /\ Control' /\ Progress /\ [Next]_vars => Progress'
<1> SUFFICES ASSUME Control, Control', Progress, [Next]_vars PROVE Progress'
  OBVIOUS
<1>1. CASE Next
  BY <1>1, AppliedBy, QuietProgress, DurableProgress
<1>2. CASE UNCHANGED vars
  BY <1>2 DEF vars, ctxVars, batchVars, execVars, diskVars, Progress, Untouched, Pending, OneExecute,
     Frontier, AppliedAtMostOnce, At, Loop, Writing
<1> QED BY <1>1, <1>2

LEMMA SpecProgress == Spec => [](Control /\ Progress)
<1>1. Init => Control /\ Progress
  BY InitControl, InitProgress
<1>2. Control /\ Progress /\ [Next]_vars => (Control /\ Progress)'
  BY ControlStep, ProgressStep
<1> QED BY <1>1, <1>2, PTL DEF Spec

\* buildBatches: in every state of the loop the batches are the statements, each
\* once and in order.
THEOREM BatchesArePartition == Spec => []BatchesPartition
<1>1. Control => BatchesPartition
  BY DEF Control, TypeOK, Chained, Built, Loop, At, BatchesPartition
<1> QED BY <1>1, SpecControl, PTL

\* executeWithRetry: no retry, lost answer, crash or restart applies a statement twice.
THEOREM NeverTwice == Spec => []AppliedAtMostOnce
<1>1. Progress => AppliedAtMostOnce
  BY DEF Progress
<1> QED BY <1>1, SpecProgress, PTL

\* The order of the undo statements survives batching, retries and crashes.
THEOREM InOrder == Spec => AppliedInOrder
<1>1. ASSUME Control, Progress, [Next]_vars
      PROVE  [\A s, t \in Stmts : applied'[s] > applied[s] /\ applied[t] > 0 => t < s]_vars
  <2>1. CASE UNCHANGED vars
    BY <2>1
  <2>2. CASE Next /\ applied' = applied
    <3>1. \A s \in Stmts : applied[s] \in Nat
      BY <1>1 DEF Control, TypeOK
    <3>2. \A s \in Stmts : ~(applied'[s] > applied[s])
      BY <2>2, <3>1
    <3> QED BY <3>2
  <2>3. CASE Next /\ pc = "commit" /\ applied' = Durable
    <3>1. ASSUME NEW s \in Stmts, NEW t \in Stmts, applied'[s] > applied[s], applied[t] > 0
          PROVE  t < s
      <4>1. applied[s] \in Nat
        BY <1>1, <3>1 DEF Control, TypeOK
      <4>2. /\ Durable[s] = (IF s \in batches[b].lo .. batches[b].lo + size - 1 THEN 1 ELSE applied[s])
            /\ t < batches[b].lo /\ batches[b].lo \in Nat
        BY <1>1, <2>3, <3>1, DurableEffect
      <4> QED BY <2>3, <3>1, <4>1, <4>2 DEF Stmts
    <3> QED BY <3>1
  <2> QED BY <1>1, <2>1, <2>2, <2>3, AppliedBy
<1> QED BY <1>1, SpecProgress, PTL DEF Spec, AppliedInOrder

-----------------------------------------------------------------------------
(* Layer 3: what the checkpoint file and the answer say of it.             *)

Touched(k) == k \in DOMAIN batches /\ \E s \in Batch(k) : s \in Stmts /\ applied[s] > 0
Counted(n) == \A k \in 1 .. n : Touched(k)

\* Whatever is or will be in the file counts batches of which something is applied.
Recorded ==
  /\ file # None => Counted(file.completed)
  /\ Writing => Counted(doc.completed)
  /\ Loop => Counted(b - 1)
  /\ At("build") => (file # None => file.completed = 0) /\ (Writing => doc.completed = 0)

LEMMA InitRecorded == Init => Recorded
BY DEF Init, Recorded, At, Loop, Writing

LEMMA TouchedStays ==
  ASSUME Control, Progress, Next, UNCHANGED batches, NEW k, Touched(k)
  PROVE  Touched(k)'
<1>1. ASSUME NEW s \in Stmts, applied[s] > 0 PROVE applied'[s] > 0
  <2>1. CASE applied' = applied
    BY <1>1, <2>1
  <2>2. CASE pc = "commit" /\ applied' = Durable
    BY <1>1, <2>2, DurableEffect
  <2> QED BY <2>1, <2>2, AppliedBy
<1> QED BY <1>1 DEF Touched, Batch

LEMMA RecordedStep == Control /\ Control' /\ Progress /\ Recorded /\ [Next]_vars => Recorded'
<1> SUFFICES ASSUME Control, Control', Progress, Recorded, [Next]_vars PROVE Recorded'
  OBVIOUS
<1> USE DEF batchVars, execVars, diskVars, ctxVars, Goto
<1>a. TypeOK /\ WriteInv
  BY DEF Control
<1>b. file # None => file \in Document /\ file.completed \in Nat
  BY <1>a DEF TypeOK, WriteInv, Document
<1>1. CASE UNCHANGED vars
  BY <1>1 DEF vars, Recorded, Counted, Touched, Batch, At, Loop, Writing
<1>2. CASE HandleExecute
  <2>1. file = None
    BY <1>2, InboxStep DEF Next, Agent, Progress, Untouched
  <2>2. file' = None /\ doc'.completed = 0 /\ pc' = "truncate" /\ ret' = "build"
    BY <1>2, <2>1 DEF HandleExecute, Write
  <2> QED BY <2>2 DEF Recorded, Counted, At, Loop, Writing
<1>3. CASE Build
  <2>1. (file # None => file.completed = 0) /\ b = 1 /\ UNCHANGED <<file, doc, b>>
    BY <1>3 DEF Build, Recorded, At, Control, Building
  <2>2. pc' \in {"build", "batch"}
    BY <1>3, <1>a, BuildCases DEF Ends, Cuts, Grows
  <2>3. Counted(0)'
    BY DEF Counted
  <2> QED BY <2>1, <2>2, <2>3 DEF Recorded, At, Loop, Writing
<1>4. ASSUME Next, UNCHANGED batches, NEW n, Counted(n) PROVE Counted(n)'
  BY <1>4, TouchedStays DEF Counted
<1>5. CASE HandleCancel \/ Reply \/ Crash \/ Restart \/ NextBatch
  <2>1. /\ UNCHANGED <<batches, b, file, doc>> /\ pc' \notin {"build", "truncate", "fill", "rename"}
        /\ Next /\ (pc' \in {"batch", "begin", "exec", "commit"} => pc = "batch")
    BY <1>5 DEF HandleCancel, Reply, Crash, Restart, NextBatch, Next, Agent
  <2> QED BY <2>1, <1>4 DEF Recorded, At, Loop, Writing
<1>6. ASSUME NEW c \in Commands, Deliver(c) PROVE Recorded'
  <2>1. Next /\ UNCHANGED <<batches, b, file, doc, pc, ret>>
    BY <1>6 DEF Deliver, Next
  <2> QED BY <2>1, <1>4 DEF Recorded, At, Loop, Writing
<1>7. CASE Truncate \/ Fill
  <2>1. /\ Next /\ Writing /\ UNCHANGED <<batches, b, file, doc, ret>>
        /\ pc' \in {"fill", "rename", ret} /\ ret \in {"build", "batch", "finish", "reply"}
    BY <1>7, <1>a DEF Truncate, Fill, Next, Agent, Writing, TypeOK, WriteInv
  <2> QED BY <2>1, <1>4 DEF Recorded, At, Loop, Writing
<1>8. CASE Rename
  <2>1. /\ Next /\ Writing /\ UNCHANGED <<batches, b, doc, ret>> /\ file' \in {file, doc}
        /\ pc' = ret /\ ret \in {"build", "batch", "finish", "reply"}
    BY <1>8, <1>a DEF Rename, Next, Agent, Writing, TypeOK, WriteInv
  <2> QED BY <2>1, <1>4 DEF Recorded, At, Loop, Writing
<1>9. CASE Finish
  <2>1. /\ Next /\ UNCHANGED <<batches, b, file>>
        /\ \/ pc' = "reply"
           \/ /\ pc' = "truncate" /\ ret' = "reply" /\ file # None
              /\ doc' = [file EXCEPT !.status = "complete"]
    BY <1>9 DEF Finish, NoWrite, Complete, Write, Next, Agent
  <2>2. pc' = "truncate" => doc'.completed = file.completed
    BY <2>1, <1>b, DocumentExcept
  <2> QED BY <2>1, <2>2, <1>4 DEF Recorded, At, Loop, Writing
<1>10. ASSUME Next, GivenUp \/ Shrunk, pc \in {"begin", "exec", "commit"}, UNCHANGED <<batches, b>>
       PROVE  Recorded'
  <2>1. file' = file /\ Counted(b - 1)' /\ (file # None => Counted(file.completed)')
    BY <1>4, <1>10 DEF Recorded, Loop, GivenUp, Shrunk, Updates
  <2>2. CASE Shrunk
    BY <2>1, <2>2, <1>10 DEF Shrunk, Recorded, At, Loop, Writing
  <2>3. CASE GivenUp
    <3>1. b - 1 \in Nat
      BY <1>a DEF TypeOK
    <3>2. /\ file' = file
          /\ \/ pc' = "finish"
             \/ pc' = "truncate" /\ ret' = "finish" /\ doc'.completed = b - 1
      BY <2>3, <3>1, DocumentExcept DEF GivenUp, Updates
    <3> QED BY <2>1, <3>2, <1>10 DEF Recorded, At, Loop, Writing
  <2> QED BY <2>2, <2>3, <1>10
<1>11. CASE Begin
  <2>1. Next /\ UNCHANGED <<batches, b, file>> /\ pc = "begin"
    BY <1>11, ErrorCases DEF Begin, Next, Agent, GivenUp, Shrunk, Updates
  <2>2. (pc' = "exec" /\ UNCHANGED diskVars) \/ GivenUp \/ Shrunk
    BY <1>11, ErrorCases DEF Begin
  <2> QED BY <2>1, <2>2, <1>4, <1>10 DEF Recorded, At, Loop, Writing
<1>12. CASE ExecStmt
  <2>1. Next /\ UNCHANGED <<batches, b>> /\ pc = "exec"
    BY <1>12 DEF ExecStmt, Next, Agent
  <2>2. (pc' \in {"exec", "commit"} /\ UNCHANGED diskVars) \/ GivenUp \/ Shrunk
    BY <1>12, ErrorCases DEF ExecStmt
  <2> QED BY <2>1, <2>2, <1>4, <1>10 DEF Recorded, At, Loop, Writing
<1>13. CASE CommitError
  BY <1>10, <1>13, ErrorCases DEF CommitError, Next, Agent
<1>14. CASE Commit
  <2>1. /\ Next /\ UNCHANGED batches /\ b' = b + 1 /\ b \in Nat \ {0} /\ pc = "commit"
        /\ applied' = Durable
    BY <1>14, <1>a DEF Commit, Next, Agent, TypeOK
  <2>2. Updates(b, "batch")
    BY <1>14, UpdateCases DEF Commit
  <2>3. ASSUME NEW k, k = b PROVE Touched(k)'
    <3>1. batches[b].lo \in Stmts /\ Durable[batches[b].lo] = 1 /\ b \in DOMAIN batches
      BY <2>1, DurableEffect DEF Stmts
    <3>2. batches[b].lo \in Batch(b)
      BY <3>1, BatchType DEF Batch, Control, Chained
    <3> QED BY <2>1, <2>3, <3>1, <3>2 DEF Touched, Batch
  <2>4. Counted(b - 1)'
    <3>1. \A k \in 1 .. b - 1 : Touched(k)'
      BY <2>1, TouchedStays DEF Recorded, Loop, Counted
    <3>2. \A k \in 1 .. b' - 1 : k = b \/ k \in 1 .. b - 1
      BY <2>1
    <3> QED BY <2>3, <3>1, <3>2 DEF Counted
  <2>5. /\ file' = file
        /\ \/ pc' = "batch"
           \/ pc' = "truncate" /\ ret' = "batch" /\ doc'.completed = b
    BY <2>1, <2>2, DocumentExcept DEF Updates
  <2>6. file # None => Counted(file.completed)'
    BY <2>1, <2>5, <1>4 DEF Recorded
  <2>7. b' - 1 = b
    BY <2>1
  <2>8. pc' = "truncate" => Counted(doc.completed)'
    BY <2>4, <2>5, <2>7 DEF Counted
  <2> QED BY <2>4, <2>5, <2>6, <2>8 DEF Recorded, At, Loop, Writing
<1> QED BY <1>1, <1>2, <1>3, <1>5, <1>6, <1>7, <1>8, <1>9, <1>11, <1>12, <1>13, <1>14 DEF Next, Agent

LEMMA SpecRecorded == Spec => [](Control /\ Progress /\ Recorded)
<1>1. Init => Control /\ Progress /\ Recorded
  BY InitControl, InitProgress, InitRecorded
<1>2. Control /\ Progress /\ Recorded /\ [Next]_vars => (Control /\ Progress /\ Recorded)'
  BY ControlStep, ProgressStep, RecordedStep
<1> QED BY <1>1, <1>2, PTL DEF Spec

\* A crash leaves a checkpoint that counts no batch of which nothing is applied.
THEOREM NeverAhead == Spec => []CheckpointNotAhead
<1>1. Recorded => CheckpointNotAhead
  BY DEF Recorded, Counted, Touched, Applied, CheckpointNotAhead
<1> QED BY <1>1, SpecRecorded, PTL

\* A crash at any point of atomicWrite leaves a whole document, or none.
THEOREM AlwaysReadable == Spec => []CheckpointReadable
<1>1. Control => CheckpointReadable
  BY DEF Control, WriteInv, CheckpointReadable
<1> QED BY <1>1, SpecControl, PTL

\* The result counts what is applied, and all of it unless it has an error.
Rows(r) == LET n == Cardinality(Applied)
           IN r.rows <= n /\ (r.errors = 0 => r.rows = n)

Answering == Loop \/ At("finish") \/ At("reply")

Honest ==
  /\ Answering => Rows(res)
  /\ reply # None => pc \in {"idle", "dead"} /\ Rows(reply)

LEMMA AppliedFinite ==
  ASSUME Control
  PROVE  IsFiniteSet(Applied) /\ Cardinality(Applied) \in Nat
<1>1. IsFiniteSet(1 .. N)
  BY FS_Interval, ExecAssumption
<1>2. Applied \in SUBSET (1 .. N)
  BY DEF Applied, Stmts
<1> QED BY <1>1, <1>2, FS_Subset, FS_CardinalityType

\* A commit adds as many statements as the transaction has.
LEMMA CommitCounts ==
  ASSUME Control, Control', Progress, pc = "commit", applied' = Durable
  PROVE  Cardinality(Applied') = Cardinality(Applied) + size
<1> DEFINE lo == batches[b].lo
           new == lo .. lo + size - 1
<1>1. /\ lo \in Nat \ {0} /\ size \in Nat \ {0} /\ new \subseteq Stmts
      /\ \A s \in Stmts : Durable[s] = IF s \in new THEN 1 ELSE applied[s]
      /\ \A s \in new : applied[s] = 0
  BY DurableEffect
<1>2. Applied' = Applied \cup new
  BY <1>1 DEF Applied
<1>3. Applied \cap new = {}
  BY <1>1 DEF Applied
<1>4. IsFiniteSet(new) /\ Cardinality(new) = size
  <2>1. lo \in Int /\ lo + size - 1 \in Int /\ lo <= lo + size - 1
        /\ (lo + size - 1) - lo + 1 = size
    BY <1>1
  <2> HIDE DEF lo
  <2> QED BY <2>1, FS_Interval
<1>5. IsFiniteSet(Applied) /\ Cardinality(Applied) \in Nat
  BY AppliedFinite
<1>6. Cardinality(Applied \cup new) = Cardinality(Applied) + Cardinality(new) - Cardinality(Applied \cap new)
  BY <1>4, <1>5, FS_Union
<1>7. Cardinality(Applied \cap new) = 0
  BY <1>3, FS_EmptySet
<1> QED BY <1>1, <1>2, <1>4, <1>5, <1>6, <1>7

LEMMA HonestStep == Control /\ Control' /\ Progress /\ Progress' /\ Honest /\ [Next]_vars => Honest'
<1> SUFFICES ASSUME Control, Control', Progress, Progress', Honest, [Next]_vars PROVE Honest'
  OBVIOUS
<1> USE DEF batchVars, execVars, diskVars, ctxVars, Goto
<1>a. TypeOK /\ WriteInv
  BY DEF Control
<1>b. ASSUME UNCHANGED applied, NEW r PROVE Rows(r) => /\ r.rows <= Cardinality(Applied')
                                                       /\ r.errors = 0 => r.rows = Cardinality(Applied')
  BY <1>b DEF Rows, Applied
<1>1. CASE UNCHANGED vars
  BY <1>1 DEF vars, Honest, Rows, Applied, Answering, Loop, At, Writing
<1>2. CASE HandleExecute
  <2>1. reply = None
    BY <1>2, InboxStep DEF Next, Agent, Progress, Untouched
  <2> QED BY <1>2, <2>1 DEF HandleExecute, Write, Honest, Answering, Loop, At, Writing
<1>3. CASE HandleCancel \/ Restart
  BY <1>3, <1>b DEF HandleCancel, Restart, Honest, Answering, Loop, At, Writing, Rows
<1>4. CASE Build
  <2>1. res = NoResult /\ \A s \in Stmts : applied[s] = 0
    BY <1>4 DEF Build, Control, Building, Progress, Frontier, At
  <2>2. Cardinality(Applied') = 0
    <3>1. Applied' = {}
      BY <1>4, <2>1 DEF Build, Applied
    <3> QED BY <3>1, FS_EmptySet
  <2>3. res' = NoResult /\ reply' = reply /\ pc = "build"
    BY <1>4, <2>1 DEF Build
  <2> QED BY <2>2, <2>3 DEF Honest, Rows, NoResult
<1>5. CASE Finish \/ NextBatch \/ Truncate \/ Fill \/ Rename
  <2>1. /\ UNCHANGED <<applied, res, reply>> /\ pc \notin {"idle", "dead"}
        /\ Answering' => Answering
    BY <1>5, <1>a DEF Finish, NextBatch, Truncate, Fill, Rename, NoWrite, Complete, Write,
       Answering, Loop, At, Writing, TypeOK, WriteInv
  <2> QED BY <2>1, <1>b DEF Honest, Rows
<1>6. CASE Reply
  <2>1. /\ reply'.rows = res.rows /\ reply'.errors = res.errors /\ pc' = "idle"
        /\ UNCHANGED applied /\ Answering
    BY <1>6 DEF Reply, Answering, At
  <2> QED BY <2>1, <1>b DEF Honest, Rows, Answering, Loop, At, Writing
<1>7. ASSUME NEW c \in Commands, Deliver(c) PROVE Honest'
  BY <1>7, <1>b DEF Deliver, Honest, Answering, Loop, At, Writing, Rows
<1>8. CASE Crash
  <2>1. pc' = "dead" /\ UNCHANGED reply
    BY <1>8 DEF Crash
  <2>2. reply # None => applied' = applied
    BY <1>8 DEF Crash, Honest
  <2> QED BY <2>1, <2>2, <1>b DEF Honest, Rows, Answering, Loop, At, Writing
<1>9. ASSUME pc \in {"begin", "exec", "commit"}, UNCHANGED reply,
             \/ UNCHANGED <<applied, res>>
             \/ UNCHANGED applied /\ (GivenUp \/ Shrunk)
             \/ applied' = Durable /\ pc = "commit" /\ GivenUp
      PROVE  Honest'
  <2>1. reply = None /\ Rows(res) /\ res.errors = 0 /\ res \in Result
    BY <1>9, <1>a DEF Honest, Answering, Loop, Control, InLoop, TypeOK
  <2>2. res.rows \in Nat /\ size \in Nat /\ Cardinality(Applied) \in Nat
    BY <2>1, <1>a, AppliedFinite DEF TypeOK, Result
  <2>3. CASE UNCHANGED <<applied, res>>
    BY <1>9, <1>b, <2>1, <2>3 DEF Honest, Rows
  <2>4. CASE UNCHANGED applied /\ Shrunk
    BY <1>9, <1>b, <2>1, <2>4 DEF Honest, Rows, Shrunk
  <2>5. CASE GivenUp
    <3>1. res'.errors # 0 /\ res'.rows = res.rows
      BY <2>1, <2>5 DEF GivenUp, Result
    <3>2. res.rows <= Cardinality(Applied')
      BY <1>9, <1>b, <2>1, <2>2, CommitCounts DEF Rows
    <3> QED BY <1>9, <2>1, <3>1, <3>2 DEF Honest, Rows
  <2> QED BY <1>9, <2>3, <2>4, <2>5
<1>10. CASE Begin
  BY <1>9, <1>10, ErrorCases DEF Begin
<1>11. CASE ExecStmt
  BY <1>9, <1>11, ErrorCases DEF ExecStmt
<1>12. CASE CommitError
  <2>1. OnError(FALSE) => GivenUp
    BY <1>12, UpdateCases DEF CommitError, OnError, BatchFailed, GivenUp
  <2> QED BY <1>9, <1>12, <2>1, ErrorCases DEF CommitError
<1>13. CASE Commit
  <2>1. /\ pc = "commit" /\ applied' = Durable /\ reply' = reply
        /\ res' = [[res EXCEPT !.complete = @ + 1] EXCEPT !.rows = @ + size]
    BY <1>13 DEF Commit
  <2>2. reply = None /\ Rows(res) /\ res.errors = 0 /\ res \in Result
    BY <2>1, <1>a DEF Honest, Answering, Loop, Control, InLoop, TypeOK
  <2>3. res'.rows = res.rows + size /\ res'.errors = 0
    BY <2>1, <2>2 DEF Result
  <2>4. Cardinality(Applied') = Cardinality(Applied) + size
    BY <2>1, CommitCounts
  <2>5. res.rows \in Nat /\ size \in Nat /\ Cardinality(Applied) \in Nat
    BY <2>2, <1>a, AppliedFinite DEF TypeOK, Result
  <2>6. res'.rows <= Cardinality(Applied') /\ res'.rows = Cardinality(Applied')
    BY <2>2, <2>3, <2>4, <2>5 DEF Rows
  <2> QED BY <2>1, <2>2, <2>3, <2>6 DEF Honest, Rows
<1> QED BY <1>1, <1>2, <1>3, <1>4, <1>5, <1>6, <1>7, <1>8, <1>10, <1>11, <1>12, <1>13 DEF Next, Agent

\* The answer never claims more rows than MySQL has applied, and claims all of them
\* unless it reports an error (handlePITRExecute's response).
AnswerIsHonest ==
  reply # None =>
    LET n == Cardinality(Applied)
    IN reply.rows <= n /\ (reply.errors = 0 => reply.rows = n)

\* The answer to pitr_execute (handlePITRExecute): what RollbackPromise says of it at the
\* moment it is given holds in every later state too.
THEOREM NeverOverclaims == Spec => []AnswerIsHonest
<1>1. Init => Honest
  BY DEF Init, Honest, Answering, Loop, At, Writing
<1>2. Honest => AnswerIsHonest
  BY DEF Honest, Rows, AnswerIsHonest
<1> QED BY <1>1, <1>2, SpecProgress, HonestStep, PTL DEF Spec

-----------------------------------------------------------------------------
(* The refinement of RollbackPromise.                                      *)

View == <<Life, Applied, Told>>

\* The operation is in d.cancels as long as the goroutine is at work on it.
Serving == running <=> pc \notin {"idle", "dead"}

LEMMA ServingStep == Control /\ Serving /\ [Next]_vars => Serving'
<1> SUFFICES ASSUME Control, Serving, [Next]_vars PROVE Serving'
  OBVIOUS
<1> USE DEF Serving, Goto, ctxVars
<1>a. ret \notin {"idle", "dead"} \/ ~Writing
  BY DEF Control, WriteInv, TypeOK
<1>1. CASE UNCHANGED vars \/ HandleCancel \/ Crash \/ Restart \/ Reply
  BY <1>1 DEF vars, HandleCancel, Crash, Restart, Reply
<1>2. ASSUME NEW c \in Commands, Deliver(c) PROVE Serving'
  BY <1>2 DEF Deliver
<1>3. CASE HandleExecute
  BY <1>3 DEF HandleExecute, Write
<1>4. CASE Build \/ NextBatch
  BY <1>4 DEF Build, NextBatch
<1>5. CASE Finish
  BY <1>5 DEF Finish, NoWrite, Complete, Write
<1>6. CASE Truncate \/ Fill \/ Rename
  BY <1>6, <1>a DEF Truncate, Fill, Rename, Writing
<1>7. ASSUME GivenUp \/ Shrunk, pc \in {"begin", "exec", "commit"}, UNCHANGED running
      PROVE  Serving'
  BY <1>7 DEF GivenUp, Shrunk, Updates
<1>8. CASE Begin
  BY <1>7, <1>8, ErrorCases DEF Begin
<1>9. CASE ExecStmt
  BY <1>7, <1>9, ErrorCases DEF ExecStmt
<1>10. CASE Commit
  BY <1>10, UpdateCases DEF Commit, Updates
<1>11. CASE CommitError
  BY <1>7, <1>11, ErrorCases DEF CommitError
<1> QED BY <1>1, <1>2, <1>3, <1>4, <1>5, <1>6, <1>8, <1>9, <1>10, <1>11 DEF Next, Agent

\* A commit that takes effect is a part of at most BatchSize, behind what is applied.
LEMMA CommitTakesEffect ==
  ASSUME Control, Limited, Progress, pc = "commit", applied' = Durable
  PROVE  Promise!TakeEffect
<1> DEFINE lo == batches[b].lo
           hi == lo + size - 1
<1>1. /\ lo \in Nat \ {0} /\ size \in Nat \ {0} /\ lo .. hi \subseteq Stmts
      /\ b \in DOMAIN batches /\ hi <= batches[b].hi
      /\ \A s \in Stmts : applied[s] > 0 => s < lo
      /\ \A s \in Stmts : Durable[s] = IF s \in lo .. hi THEN 1 ELSE applied[s]
  BY DurableEffect
<1>2. batches[b].hi \in Nat /\ batches[b].hi - lo + 1 <= BatchSize
  BY <1>1, BatchType DEF Limited, WithinLimits
<1>3. Applied' = Applied \cup lo .. hi
  BY <1>1 DEF Applied
<1>4. \A s \in Applied : s < lo
  BY <1>1 DEF Applied
<1>5. lo \in 1 .. N /\ hi \in 1 .. N /\ lo <= hi /\ hi - lo + 1 <= BatchSize
  BY <1>1, <1>2, ExecAssumption DEF Stmts
<1> HIDE DEF lo, hi
<1> QED BY <1>3, <1>4, <1>5 DEF Promise!TakeEffect

\* While the executor is at work the command is no longer pending, nor will it be again.
LEMMA TakenUp == ASSUME Control, Progress, Next, Serving, running PROVE ~Pending /\ ~Pending'
BY InboxStep DEF Progress, Untouched, Serving

\* A step that applies, starts and answers nothing can only lose the command.
LEMMA NothingSeen ==
  ASSUME Control, Progress, Next, UNCHANGED <<applied, reply, running>>
  PROVE  Promise!Lose \/ UNCHANGED View
<1>1. UNCHANGED <<Applied, Told>>
  BY DEF Applied, Told
<1>2. Pending' => Pending
  BY InboxStep
<1>3. UNCHANGED Life \/ (Life = "new" /\ Life' = "over")
  BY <1>2 DEF Life
<1> QED BY <1>1, <1>3 DEF Promise!Lose, Promise!Become, View

\* The promise counts the statements as the executor does.
LEMMA SameCount == Promise!Cardinality(Applied) = Cardinality(Applied)
BY DEF Promise!Cardinality, Cardinality

LEMMA AnswerStep ==
  ASSUME Control, Progress, Honest, Serving, Next, Reply
  PROVE  Promise!Answer
<1>1. running /\ ~running' /\ ~Pending'
  BY TakenUp DEF Reply, Serving
<1>2. Life = "working" /\ Life' = "over"
  BY <1>1 DEF Life
<1>3. Rows(res) /\ res \in Result /\ Cardinality(Applied) \in Nat
  BY AppliedFinite DEF Honest, Answering, At, Reply, Control, TypeOK
<1>4. Told' = [rows |-> res.rows, failed |-> res.errors > 0]
  <2>1. reply' = [rows |-> res.rows, complete |-> res.complete, errors |-> res.errors,
                  cancelled |-> cancelled]
    BY DEF Reply
  <2>2. reply' # None
    BY <1>3, <2>1, ExecAssumption DEF Control, TypeOK, Result, Answers
  <2>3. /\ reply'.rows = res.rows
        /\ reply'.errors = res.errors
    BY <2>1
  <2> QED BY <2>2, <2>3 DEF Told
<1>5. /\ res.rows \in 0 .. Cardinality(Applied)
      /\ (res.errors > 0) \in BOOLEAN
      /\ res.errors > 0 \/ res.rows = Cardinality(Applied)
  BY <1>3 DEF Rows, Result
<1>6. Applied' = Applied
  BY DEF Reply, Applied
<1>7. \E rows \in 0 .. Cardinality(Applied), failed \in BOOLEAN :
        /\ failed \/ rows = Cardinality(Applied)
        /\ Told' = [rows |-> rows, failed |-> failed]
  <2> DEFINE bad == res.errors > 0
  <2> HIDE DEF bad
  <2>1. bad \in BOOLEAN /\ (bad \/ res.rows = Cardinality(Applied))
        /\ Told' = [rows |-> res.rows, failed |-> bad]
    BY <1>4, <1>5 DEF bad
  <2> QED BY <1>5, <2>1, Zenon
<1> QED BY <1>2, <1>6, <1>7, SameCount, Zenon DEF Promise!Answer, Promise!Become

LEMMA PromiseStep ==
  Control /\ Limited /\ Progress /\ Honest /\ Serving /\ [Next]_vars => [Promise!Next]_View
<1> SUFFICES ASSUME Control, Limited, Progress, Honest, Serving, [Next]_vars
             PROVE  Promise!Next \/ UNCHANGED View
  OBVIOUS
<1> USE DEF ctxVars, Goto
<1>1. CASE UNCHANGED vars
  BY <1>1 DEF vars, View, Life, Pending, Applied, Told
<1>2. CASE Next /\ HandleExecute
  <2>1. Pending /\ ~Pending' /\ ~running /\ running' /\ UNCHANGED <<applied, reply>>
    BY <1>2, InboxStep DEF HandleExecute, Serving
  <2> QED BY <2>1 DEF Promise!Next, Promise!TakeUp, Promise!Become, Life, Applied, Told
<1>3. CASE Next /\ Reply
  BY <1>3, AnswerStep DEF Promise!Next
<1>4. CASE Next /\ Crash
  <2>1. ~running' /\ UNCHANGED Told
    BY <1>4 DEF Crash, Told
  <2>2. CASE running
    <3>1. Life = "working" /\ Life' = "over"
      BY <1>4, <2>1, <2>2, TakenUp DEF Life
    <3>2. Promise!TakeEffect \/ UNCHANGED Applied
      BY <1>4, CommitTakesEffect DEF Crash, Applied
    <3> QED BY <2>1, <3>1, <3>2 DEF Promise!Next, Promise!Die, Promise!Become
  <2>3. CASE ~running
    <3>1. UNCHANGED <<applied, reply, running>>
      BY <1>4, <2>1, <2>3 DEF Crash, Serving, Control, TypeOK
    <3> QED BY <1>4, <3>1, NothingSeen DEF Promise!Next
  <2> QED BY <2>2, <2>3
<1>5. CASE Next /\ (Commit \/ CommitError)
  <2>1. CASE applied' = applied
    BY <1>5, <2>1, NothingSeen DEF Promise!Next, Commit, CommitError
  <2>2. CASE applied' = Durable
    <3>1. pc = "commit" /\ running /\ UNCHANGED <<running, reply>>
      BY <1>5 DEF Commit, CommitError, Serving
    <3>2. Life = "working" /\ Life' = "working" /\ UNCHANGED Told
      BY <3>1 DEF Life, Told
    <3> QED BY <2>2, <3>1, <3>2, CommitTakesEffect DEF Promise!Next, Promise!Work, Promise!Become
  <2> QED BY <1>5, <2>1, <2>2, AppliedBy
<1>6. CASE Next /\ UNCHANGED <<applied, reply, running>>
  BY <1>6, NothingSeen DEF Promise!Next
<1> QED BY <1>1, <1>2, <1>3, <1>4, <1>5, <1>6 DEF Next, Agent, HandleCancel, Build, NextBatch,
           Begin, ExecStmt, Finish, Truncate, Fill, Rename, Deliver, Restart

\* Execute, handlePITRExecute and the dispatch implement the promise: every step of the
\* executor is a step of it or a stutter.
THEOREM PromiseKept == Spec => ImplementsPromise
<1>1. Init => Honest /\ Serving
  BY DEF Init, Honest, Answering, Loop, At, Writing, Serving
<1>2. Init => Promise!Init
  <2> SUFFICES ASSUME Init PROVE Promise!Init
    OBVIOUS
  <2>1. Applied = {} /\ Life = "new" /\ Told = None
    BY DEF Init, Applied, Life, Pending, Told
  <2> QED BY <2>1 DEF Promise!Init
<1>3. Spec => [](Control /\ Limited /\ Progress /\ Honest /\ Serving)
  BY <1>1, InitLimited, LimitedStep, HonestStep, ServingStep, SpecProgress, PTL DEF Spec
<1> QED BY <1>2, <1>3, PromiseStep, PTL DEF Spec, ImplementsPromise, Promise!Spec, View

==============================================================================
