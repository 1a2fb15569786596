--------------------------- MODULE PitrServer_proofs ---------------------------
(***************************************************************************)
(* Proofs about PitrServer for any operations, agents and number of        *)
(* concurrent requests.                                                    *)
(***************************************************************************)
EXTENDS PitrServer, TLAPS

\* An operation that has not been created has nobody at work on it.
AbsentIsQuiet == \A o \in Ops : opState[o] = "none" => Quiet(o)

\* ExecutePrecededByPreview with the step before execution on the path of
\* runOperation.
ParsedBefore ==
  \A o \in Ops, w \in Workers :
    pc[o][w] \in Executing \cup {"auditPreview"} => parsed[o]

\* Between the write of "completed" and the audit entry its writer is about to
\* make the entry.
CompletedIsReported ==
  \A o \in Ops : opState[o] = "completed" =>
    \/ reported[o] /\ "completed" \in audit[o]
    \/ \E w \in Workers : pc[o][w] = "report"

Inv == TypeOK /\ AbsentIsQuiet /\ NoneStranded /\ ParsedBefore /\ CompletedIsReported

LEMMA RunIsWorker == Run \in Workers /\ ExecReqs \subseteq Workers
BY DEF Workers

\* The actions of Next, one case each, for a worker in its range.
LEMMA Cases ==
  ASSUME Next
  PROVE  \/ \E o \in Ops : Start(o)
         \/ \E o \in Ops : Preflight(o) \/ Parse(o) \/ Publish(o) \/ AuditPreview(o)
         \/ \E o \in Ops, e \in ExecReqs : ExecuteRequest(o, e) \/ ExecuteSpawn(o, e)
         \/ \E o \in Ops, w \in Workers : executeOperation(o, w)
         \/ \E o \in Ops, c \in CancelReqs :
              CancelCheck(o, c) \/ CancelWrite(o, c) \/ CancelAudit(o, c)
         \/ \E a \in Agents : AgentFlips(a)
BY DEF Next, Request, Work, runOperation

\* Init establishes the invariant.
LEMMA InitInv == Init => Inv
BY DEF Init, Inv, TypeOK, AbsentIsQuiet, NoneStranded, Attended, ParsedBefore,
       CompletedIsReported, Quiet, OpState, Working, Terminal, Label, Workers,
       Executing, Driving, RunSteps

-----------------------------------------------------------------------------
(* Type correctness.                                                       *)

LEMMA TypeStep == TypeOK /\ [Next]_vars => TypeOK'
<1> SUFFICES ASSUME TypeOK, [Next]_vars PROVE TypeOK'
  OBVIOUS
<1> USE RunIsWorker
<1> USE DEF TypeOK, OpState, Working, Terminal, Label, Executing, Driving, RunSteps, Data
<1>1. ASSUME NEW o \in Ops, NEW w \in Workers, NEW l \in Label, Pass(o, w, l)
      PROVE  TypeOK'
  BY <1>1 DEF Pass, Goto
<1>2. ASSUME NEW o \in Ops, NEW w \in Workers, NEW l \in Label,
             NEW s \in OpState, Write(o, w, s, l)
      PROVE  TypeOK'
  BY <1>2 DEF Write, Goto, SetState
<1>3. ASSUME NEW o \in Ops, Start(o) PROVE TypeOK'
  BY <1>2, <1>3 DEF Start
<1>4. ASSUME NEW o \in Ops, Preflight(o) PROVE TypeOK'
  BY <1>1, <1>2, <1>4 DEF Preflight, CheckAgent, Answer, Refusal, TryRead, TryWrite
<1>5. ASSUME NEW o \in Ops, Parse(o) PROVE TypeOK'
  BY <1>1, <1>2, <1>5 DEF Parse, Answer, Refusal, TryRead, TryWrite
<1>6. ASSUME NEW o \in Ops, Publish(o) PROVE TypeOK'
  BY <1>6 DEF Publish, Goto
<1>7. ASSUME NEW o \in Ops, AuditPreview(o) PROVE TypeOK'
  BY <1>7 DEF AuditPreview, Goto, Record
<1>8. ASSUME NEW o \in Ops, NEW e \in ExecReqs, ExecuteRequest(o, e) \/ ExecuteSpawn(o, e)
      PROVE  TypeOK'
  BY <1>1, <1>8 DEF ExecuteRequest, ExecuteSpawn
<1>9. ASSUME NEW o \in Ops, NEW w \in Workers, executeOperation(o, w)
      PROVE  TypeOK'
  <2>1. CASE Report(o, w)
    BY <2>1 DEF Report, Goto, Record
  <2>2. CASE ~Report(o, w)
    BY <1>1, <1>2, <1>9, <2>2
    DEF executeOperation, CheckAgent, Answer, Refusal, TryRead, TryWrite,
        Finish, failOperation
  <2> QED BY <2>1, <2>2
<1>10. ASSUME NEW o \in Ops, NEW c \in CancelReqs,
              CancelCheck(o, c) \/ CancelWrite(o, c) \/ CancelAudit(o, c)
       PROVE  TypeOK'
  <2>1. CASE CancelCheck(o, c)
    BY <2>1 DEF CancelCheck, CancelGoto
  <2>2. CASE CancelWrite(o, c)
    BY <2>2 DEF CancelWrite, CancelGoto, SetState
  <2>3. CASE CancelAudit(o, c)
    BY <2>3 DEF CancelAudit, CancelGoto, Record
  <2> QED BY <1>10, <2>1, <2>2, <2>3
<1>11. ASSUME NEW a \in Agents, AgentFlips(a) PROVE TypeOK'
  BY <1>11 DEF AgentFlips
<1>12. CASE UNCHANGED vars
  BY <1>12 DEF vars
<1> QED
  BY <1>3, <1>4, <1>5, <1>6, <1>7, <1>8, <1>9, <1>10, <1>11, <1>12, Cases

-----------------------------------------------------------------------------
(* The inductive invariant.  A step that moves one worker disturbs nothing *)
(* but that worker's operation, so it is enough to look at Attended there. *)

\* A worker that moves without writing op.State.
LEMMA PassKeeps ==
  ASSUME Inv, TypeOK', NEW o \in Ops, NEW w \in Workers, NEW l \in Label,
         Pass(o, w, l), opState[o] # "none", pc[o][w] # "report",
         l \in Executing \cup {"auditPreview"} => parsed[o],
         Attended(o)'
  PROVE  Inv'
<1> USE DEF Inv, TypeOK, Pass, Goto, Data
<1>1. AbsentIsQuiet'
  BY DEF AbsentIsQuiet, Quiet
<1>2. NoneStranded'
  BY DEF NoneStranded, Attended
<1>3. ParsedBefore'
  BY DEF ParsedBefore
<1>4. CompletedIsReported'
  BY DEF CompletedIsReported
<1> QED BY <1>1, <1>2, <1>3, <1>4

\* A worker that writes op.State.
LEMMA WriteKeeps ==
  ASSUME Inv, TypeOK', NEW o \in Ops, NEW w \in Workers, NEW l \in Label,
         NEW s \in OpState, Write(o, w, s, l), pc[o][w] # "report",
         l \in Executing \cup {"auditPreview"} => parsed[o],
         s = "completed" => l = "report",
         Attended(o)'
  PROVE  Inv'
<1> USE DEF Inv, TypeOK, Write, SetState, Goto, Data
<1>1. AbsentIsQuiet'
  BY DEF AbsentIsQuiet, Quiet, OpState, Working, Terminal
<1>2. NoneStranded'
  BY DEF NoneStranded, Attended
<1>3. ParsedBefore'
  BY DEF ParsedBefore
<1>4. CompletedIsReported'
  BY DEF CompletedIsReported
<1> QED BY <1>1, <1>2, <1>3, <1>4

\* Moving a worker that is not driving, or that goes on driving, leaves the
\* operation's driver in place.
LEMMA DriverStays ==
  ASSUME TypeOK, NEW o \in Ops, NEW w \in Workers, NEW l \in Label, Goto(o, w, l),
         pc[o][w] \in Driving => l \in Driving,
         NEW p \in Ops, \E v \in Workers : pc[p][v] \in Driving
  PROVE  \E v \in Workers : pc'[p][v] \in Driving
<1> PICK v \in Workers : pc[p][v] \in Driving
  OBVIOUS
<1> pc'[p][v] = IF p = o /\ v = w THEN l ELSE pc[p][v]
  BY DEF TypeOK, Goto
<1> QED OBVIOUS

\* The steps of the goroutine runOperation.
LEMMA RunStep ==
  ASSUME Inv, TypeOK', NEW o \in Ops,
         Preflight(o) \/ Parse(o) \/ Publish(o) \/ AuditPreview(o)
  PROVE  Inv'
<1> USE RunIsWorker
<1> USE DEF Label, RunSteps, Executing, Driving
<1>1. TypeOK /\ Attended(o) /\ opState[o] \in OpState \cup {"none"}
  BY DEF Inv, NoneStranded, TypeOK
<1>2. opState[o] = "none" => pc[o][Run] = "idle"
  BY DEF Inv, AbsentIsQuiet, Quiet
<1>3. ASSUME NEW at, NEW l \in Label, pc[o][Run] = at, Pass(o, Run, l),
             at # "idle", at # "report",
             l \in Executing \cup {"auditPreview"} => parsed[o],
             Attended(o)'
      PROVE  Inv'
  BY <1>2, <1>3, PassKeeps
<1>4. ASSUME NEW l \in Label, NEW s \in OpState, pc[o][Run] # "report",
             Write(o, Run, s, l), s # "completed", l \notin Executing \cup {"auditPreview"},
             Attended(o)'
      PROVE  Inv'
  BY <1>4, WriteKeeps
<1>5. ASSUME Preflight(o) PROVE Inv'
  <2>1. ASSUME CheckAgent(o, Run, "start", "preflight") PROVE Inv'
    <3>1. PICK l \in {"preflight", "fail"} : Pass(o, Run, l) /\ pc[o][Run] = "start"
      BY <2>1 DEF CheckAgent, At
    <3>2. Attended(o)'
      BY <1>1, <3>1, <2>1 DEF CheckAgent, Pass, Goto, Attended, TypeOK
    <3> QED BY <1>3, <3>1, <3>2
  <2>2. ASSUME Answer(o, Run, "preflight", "tryConfirm") PROVE Inv'
    <3>1. Attended(o)'
      BY <1>1, <2>2 DEF Answer, At, Pass, Goto, Attended, TypeOK
    <3> QED BY <1>3, <3>1, <2>2 DEF Answer, At
  <2>3. ASSUME Refusal(o, Run, "preflight") PROVE Inv'
    <3>1. Attended(o)'
      BY <1>1, <2>3 DEF Refusal, At, Pass, Goto, Attended, TypeOK
    <3> QED BY <1>3, <3>1, <2>3 DEF Refusal, At
  <2>4. ASSUME TryRead(o, Run, "tryConfirm", "confirmed", "setConfirmed") PROVE Inv'
    <3>1. PICK l \in {"setConfirmed", "idle"} : Pass(o, Run, l) /\ pc[o][Run] = "tryConfirm"
      BY <2>4 DEF TryRead, TransitionValid, validTransitions, At
    <3>2. Attended(o)'
      BY <1>1, <3>1, <2>4 DEF TryRead, TransitionValid, validTransitions, Pass, Goto, Attended, TypeOK
    <3> QED BY <1>3, <3>1, <3>2
  <2>5. ASSUME TryWrite(o, Run, "setConfirmed", "confirmed", "tryParse") PROVE Inv'
    <3>1. Attended(o)'
      BY <1>1, <2>5 DEF TryWrite, Write, SetState, Goto, Attended, TypeOK
    <3> QED BY <1>4, <3>1, <2>5 DEF TryWrite, At, OpState, Working
  <2> QED BY <1>5, <2>1, <2>2, <2>3, <2>4, <2>5 DEF Preflight
<1>6. ASSUME Parse(o) PROVE Inv'
  <2>1. ASSUME TryRead(o, Run, "tryParse", "parsing", "setParsing") PROVE Inv'
    <3>1. PICK l \in {"setParsing", "idle"} : Pass(o, Run, l) /\ pc[o][Run] = "tryParse"
      BY <2>1 DEF TryRead, TransitionValid, validTransitions, At
    <3>2. Attended(o)'
      BY <1>1, <3>1, <2>1 DEF TryRead, TransitionValid, validTransitions, Pass, Goto, Attended, TypeOK
    <3> QED BY <1>3, <3>1, <3>2
  <2>2. ASSUME TryWrite(o, Run, "setParsing", "parsing", "parse") PROVE Inv'
    <3>1. Attended(o)'
      BY <1>1, <2>2 DEF TryWrite, Write, SetState, Goto, Attended, TypeOK
    <3> QED BY <1>4, <3>1, <2>2 DEF TryWrite, At, OpState, Working
  <2>3. ASSUME Answer(o, Run, "parse", "tryPreview") PROVE Inv'
    <3>1. Attended(o)'
      BY <1>1, <2>3 DEF Answer, At, Pass, Goto, Attended, TypeOK
    <3> QED BY <1>3, <3>1, <2>3 DEF Answer, At
  <2>4. ASSUME Refusal(o, Run, "parse") PROVE Inv'
    <3>1. Attended(o)'
      BY <1>1, <2>4 DEF Refusal, At, Pass, Goto, Attended, TypeOK
    <3> QED BY <1>3, <3>1, <2>4 DEF Refusal, At
  <2>5. ASSUME TryRead(o, Run, "tryPreview", "previewed", "setPreviewed") PROVE Inv'
    <3>1. PICK l \in {"setPreviewed", "idle"} : Pass(o, Run, l) /\ pc[o][Run] = "tryPreview"
      BY <2>5 DEF TryRead, TransitionValid, validTransitions, At
    <3>2. Attended(o)'
      BY <1>1, <3>1, <2>5 DEF TryRead, TransitionValid, validTransitions, Pass, Goto, Attended, TypeOK
    <3> QED BY <1>3, <3>1, <3>2
  <2>6. ASSUME TryWrite(o, Run, "setPreviewed", "previewed", "publish") PROVE Inv'
    <3>1. Attended(o)'
      BY <1>1, <2>6 DEF TryWrite, Write, SetState, Goto, Attended, TypeOK
    <3> QED BY <1>4, <3>1, <2>6 DEF TryWrite, At, OpState, Working
  <2> QED BY <1>6, <2>1, <2>2, <2>3, <2>4, <2>5, <2>6 DEF Parse
<1>7. ASSUME Publish(o) PROVE Inv'
  <2> USE <1>7 DEF Publish, At, Goto, Inv, TypeOK
  <2>1. AbsentIsQuiet'
    BY DEF AbsentIsQuiet, Quiet
  <2>2. NoneStranded'
    <3> SUFFICES ASSUME NEW p \in Ops PROVE Attended(p)'
      BY DEF NoneStranded
    <3>1. Attended(p)
      BY DEF NoneStranded
    <3>2. CASE opState[p] = "executing"
      BY <1>1, <3>1, <3>2, DriverStays DEF Attended
    <3>3. CASE opState[p] # "executing"
      BY <3>1, <3>3 DEF Attended
    <3> QED BY <3>2, <3>3
  <2>3. ParsedBefore'
    BY DEF ParsedBefore
  <2>4. CompletedIsReported'
    BY DEF CompletedIsReported
  <2> QED BY <2>1, <2>2, <2>3, <2>4
<1>8. ASSUME AuditPreview(o) PROVE Inv'
  <2> USE <1>8 DEF AuditPreview, At, Goto, Record, Inv, TypeOK
  <2>1. AbsentIsQuiet'
    BY DEF AbsentIsQuiet, Quiet
  <2>2. NoneStranded'
    <3> SUFFICES ASSUME NEW p \in Ops PROVE Attended(p)'
      BY DEF NoneStranded
    <3>1. Attended(p)
      BY DEF NoneStranded
    <3>2. CASE opState[p] = "executing"
      BY <1>1, <3>1, <3>2, DriverStays DEF Attended
    <3>3. CASE opState[p] # "executing"
      BY <3>1, <3>3 DEF Attended
    <3> QED BY <3>2, <3>3
  <2>3. ParsedBefore'
    BY DEF ParsedBefore
  <2>4. CompletedIsReported'
    BY DEF CompletedIsReported
  <2> QED BY <2>1, <2>2, <2>3, <2>4
<1> QED BY <1>5, <1>6, <1>7, <1>8

\* The steps of executeOperation, of whichever worker runs it.
LEMMA ExecuteStep ==
  ASSUME Inv, TypeOK', NEW o \in Ops, NEW w \in Workers, executeOperation(o, w)
  PROVE  Inv'
<1> USE RunIsWorker
<1> USE DEF Label, RunSteps, Executing, Driving
<1>1. TypeOK /\ Attended(o) /\ opState[o] \in OpState \cup {"none"}
  BY DEF Inv, NoneStranded, TypeOK
<1>2. /\ opState[o] = "none" => pc[o][w] = "idle"
      /\ pc[o][w] \in Executing => parsed[o]
  BY DEF Inv, AbsentIsQuiet, Quiet, ParsedBefore
<1>3. ASSUME NEW at \in Label \ {"idle", "report"}, NEW l \in Label, pc[o][w] = at,
             Pass(o, w, l), l = "fail" \/ l = "idle" \/ at \in Executing,
             l # "auditPreview", at \notin RunSteps,
             at \in Driving => l \in Driving, at # "fail"
      PROVE  Inv'
  <2>1. opState'[o] = opState[o] /\ Goto(o, w, l)
    BY <1>3 DEF Pass
  <2>2. CASE opState[o] = "executing"
    <3>1. \E v \in Workers : pc'[o][v] \in Driving
      BY <1>1, <1>3, <2>1, <2>2, DriverStays DEF Attended
    <3>2. Attended(o)'
      BY <2>1, <2>2, <3>1 DEF Attended
    <3> QED BY <1>2, <1>3, <3>2, PassKeeps
  <2>3. CASE opState[o] # "executing"
    <3>1. Attended(o)'
      BY <1>1, <1>3, <2>1, <2>3 DEF Attended, Goto, TypeOK
    <3> QED BY <1>2, <1>3, <3>1, PassKeeps
  <2> QED BY <2>2, <2>3
<1>4. ASSUME NEW l \in Label, NEW s \in Terminal, pc[o][w] # "report",
             Write(o, w, s, l), s = "completed" => l = "report",
             l \in Executing \cup {"auditPreview"} => parsed[o]
      PROVE  Inv'
  <2>1. Attended(o)'
    BY <1>1, <1>4 DEF Write, SetState, Attended, TypeOK, Terminal
  <2> QED BY <1>4, <2>1, WriteKeeps DEF OpState
<1>5. ASSUME CheckAgent(o, w, "execStart", "tryExecute") PROVE Inv'
  BY <1>3, <1>5 DEF CheckAgent, At
<1>6. ASSUME TryRead(o, w, "tryExecute", "executing", "setExecuting") PROVE Inv'
  BY <1>3, <1>6 DEF TryRead, At
<1>7. ASSUME TryWrite(o, w, "setExecuting", "executing", "execute") PROVE Inv'
  <2>1. pc'[o][w] = "execute" /\ opState'[o] = "executing"
    BY <1>1, <1>7 DEF TryWrite, Write, SetState, Goto, TypeOK
  <2>2. Attended(o)'
    BY <2>1 DEF Attended
  <2> QED BY <1>2, <1>7, <2>2, WriteKeeps DEF TryWrite, At, OpState, Working
<1>8. ASSUME Answer(o, w, "execute", "finish") PROVE Inv'
  BY <1>3, <1>8 DEF Answer, At
<1>9. ASSUME Refusal(o, w, "execute") PROVE Inv'
  BY <1>3, <1>9 DEF Refusal, At
<1>10. ASSUME Finish(o, w) PROVE Inv'
  BY <1>3, <1>10 DEF Finish, At
<1>11. ASSUME At(o, w, "setCancelled"), Write(o, w, "cancelled", "idle") PROVE Inv'
  BY <1>4, <1>11 DEF At, Terminal
<1>12. ASSUME At(o, w, "setCompleted"), Write(o, w, "completed", "report") PROVE Inv'
  BY <1>2, <1>4, <1>12 DEF At, Terminal
<1>13. ASSUME failOperation(o, w) PROVE Inv'
  BY <1>4, <1>13 DEF failOperation, At, Terminal
<1>14. ASSUME Report(o, w) PROVE Inv'
  <2> USE <1>14 DEF Report, At, Record, TypeOK
  <2>1. AbsentIsQuiet'
    BY <1>2 DEF Inv, AbsentIsQuiet, Quiet, Goto
  <2>2. NoneStranded'
    <3> SUFFICES ASSUME NEW p \in Ops PROVE Attended(p)'
      BY DEF NoneStranded
    <3>1. Attended(p)
      BY DEF Inv, NoneStranded
    <3>2. CASE opState[p] = "executing"
      BY <1>1, <3>1, <3>2, DriverStays DEF Attended
    <3>3. CASE opState[p] # "executing"
      BY <1>1, <3>1, <3>3 DEF Attended, Goto
    <3> QED BY <3>2, <3>3
  <2>3. ParsedBefore'
    BY <1>1 DEF Inv, ParsedBefore, Goto
  <2>4. CompletedIsReported'
    BY <1>1 DEF Inv, CompletedIsReported, Goto
  <2> QED BY <2>1, <2>2, <2>3, <2>4 DEF Inv
<1> QED
  BY <1>5, <1>6, <1>7, <1>8, <1>9, <1>10, <1>11, <1>12, <1>13, <1>14 DEF executeOperation

\* The Start and Execute requests.
LEMMA RequestStep ==
  ASSUME Inv, TypeOK', NEW o \in Ops,
         Start(o) \/ \E e \in ExecReqs : ExecuteRequest(o, e) \/ ExecuteSpawn(o, e)
  PROVE  Inv'
<1> USE RunIsWorker
<1> USE DEF Label, RunSteps, Executing, Driving
<1>1. TypeOK /\ Attended(o) /\ opState[o] \in OpState \cup {"none"}
  BY DEF Inv, NoneStranded, TypeOK
<1>2. ASSUME Start(o) PROVE Inv'
  <2>1. pc[o][Run] = "idle"
    BY <1>2 DEF Inv, AbsentIsQuiet, Quiet, Start
  <2>2. Attended(o)'
    BY <1>1, <1>2 DEF Start, Write, SetState, Goto, Attended, TypeOK
  <2> QED BY <1>2, <2>1, <2>2, WriteKeeps DEF Start, OpState, Working
<1>3. ASSUME NEW e \in ExecReqs, ExecuteRequest(o, e) PROVE Inv'
  <2>1. Attended(o)'
    BY <1>3 DEF ExecuteRequest, Pass, Attended
  <2> QED BY <1>3, <2>1, PassKeeps DEF ExecuteRequest, At
<1>4. ASSUME NEW e \in ExecReqs, ExecuteSpawn(o, e) PROVE Inv'
  <2> DEFINE l == IF parsed[o] /\ agentConnected(o) THEN "execStart" ELSE "idle"
  <2>1. e \in Workers /\ e # Run /\ pc[o][e] = "accepted" /\ Pass(o, e, l) /\ l \in Label
    BY <1>4, RunAssumption DEF ExecuteSpawn, At
  <2>2. opState[o] # "none"
    BY <2>1 DEF Inv, AbsentIsQuiet, Quiet
  <2>3. Goto(o, e, l) /\ opState'[o] = opState[o] /\ pc'[o][Run] = pc[o][Run]
    BY <1>1, <2>1 DEF Pass, Goto, TypeOK
  <2>4. Attended(o)'
    <3>1. CASE opState[o] = "executing"
      BY <1>1, <2>1, <2>3, <3>1, DriverStays DEF Attended
    <3>2. CASE opState[o] # "executing"
      BY <1>1, <2>3, <3>2 DEF Attended
    <3> QED BY <3>1, <3>2
  <2> QED BY <2>1, <2>2, <2>4, PassKeeps
<1> QED BY <1>2, <1>3, <1>4

\* The Cancel request.
LEMMA CancelStep ==
  ASSUME Inv, TypeOK', NEW o \in Ops, NEW c \in CancelReqs,
         CancelCheck(o, c) \/ CancelWrite(o, c) \/ CancelAudit(o, c)
  PROVE  Inv'
<1>1. TypeOK
  BY DEF Inv
<1>2. pc' = pc /\ parsed' = parsed /\ reported' = reported
      /\ \A p \in Ops : audit[p] \subseteq audit'[p]
  BY <1>1 DEF CancelCheck, CancelWrite, CancelAudit, Record, TypeOK
<1>3. opState[o] # "none"
  BY DEF Inv, AbsentIsQuiet, Quiet, CancelCheck, CancelWrite, CancelAudit,
         TransitionValid, validTransitions
<1>4. \A p \in Ops : opState'[p] = opState[p] \/ (p = o /\ opState'[p] = "cancelled")
  BY <1>1 DEF CancelCheck, CancelWrite, CancelAudit, SetState, TypeOK
<1>5. \A p \in Ops : p # o => cpc'[p] = cpc[p]
  BY <1>1 DEF CancelCheck, CancelWrite, CancelAudit, CancelGoto, TypeOK
<1>6. AbsentIsQuiet'
  BY <1>2, <1>3, <1>4, <1>5 DEF Inv, AbsentIsQuiet, Quiet
<1>7. NoneStranded'
  BY <1>2, <1>4 DEF Inv, NoneStranded, Attended
<1>8. ParsedBefore'
  BY <1>2 DEF Inv, ParsedBefore
<1>9. CompletedIsReported'
  BY <1>2, <1>4 DEF Inv, CompletedIsReported
<1> QED BY <1>6, <1>7, <1>8, <1>9 DEF Inv

\* Every step keeps the invariant.
LEMMA NextInv == Inv /\ [Next]_vars => Inv'
<1> SUFFICES ASSUME Inv, [Next]_vars PROVE Inv'
  OBVIOUS
<1>1. TypeOK'
  BY TypeStep DEF Inv
<1>2. CASE UNCHANGED vars
  BY <1>2 DEF vars, Inv, TypeOK, AbsentIsQuiet, NoneStranded, Attended, ParsedBefore,
              CompletedIsReported, Quiet
<1>3. ASSUME NEW a \in Agents, AgentFlips(a) PROVE Inv'
  BY <1>1, <1>3 DEF AgentFlips, Inv, AbsentIsQuiet, NoneStranded, Attended, ParsedBefore,
                    CompletedIsReported, Quiet
<1> QED
  BY <1>1, <1>2, <1>3, RunStep, ExecuteStep, RequestStep, CancelStep, Cases

LEMMA SpecInv == Spec => []Inv
BY InitInv, NextInv, PTL DEF Spec

\* The handlers keep every field of an operation within its type.
THEOREM TypeCorrect == Spec => []TypeOK
<1>1. Inv => TypeOK
  BY DEF Inv
<1> QED BY <1>1, SpecInv, PTL

\* However Start, Execute and Cancel requests and the agent's connection
\* interleave, an operation in a working state has a goroutine that will write
\* its state once more (runOperation, executeOperation).
THEOREM NeverStranded == Spec => []NoneStranded
<1>1. Inv => NoneStranded
  BY DEF Inv
<1> QED BY <1>1, SpecInv, PTL

\* No statement is sent to an agent for an operation without a parse result
\* (Execute, runOperation).
THEOREM NeverBlind == Spec => []ExecutePrecededByPreview
<1>1. Inv => ExecutePrecededByPreview
  BY DEF Inv, ParsedBefore, ExecutePrecededByPreview
<1> QED BY <1>1, SpecInv, PTL

\* A completed operation at rest has its audit entry and its result
\* (executeOperation, recordAudit).
THEOREM CompletionAudited == Spec => []CompletedIsAudited
<1>1. Inv => CompletedIsAudited
  BY DEF Inv, CompletedIsReported, CompletedIsAudited, Quiet
<1> QED BY <1>1, SpecInv, PTL

-----------------------------------------------------------------------------
(* The refinement of OperationPromise.                                     *)

PhaseOf == [o \in Ops |-> Phase(o)]

\* The phases the invariant leaves an operation, before a step and after it.
FourPhases(o) == /\ Phase(o) \in {"absent", "busy", "ready", "over"}
                 /\ Phase(o) = "absent" <=> opState[o] = "none"
                 /\ Phase(o) = "busy" <=> ~Quiet(o)

LEMMA NoFifthPhase == Inv => \A o \in Ops : FourPhases(o)
<1> SUFFICES ASSUME Inv, NEW o \in Ops PROVE FourPhases(o)
  OBVIOUS
<1>1. ~Quiet(o) => opState[o] # "none"
  BY DEF Inv, AbsentIsQuiet
<1>2. Quiet(o) => opState[o] \notin Working
  BY RunIsWorker DEF Inv, NoneStranded, Attended, Quiet, Working, Driving
<1>3. opState[o] \in Working \cup Terminal \cup {"previewed", "none"}
  BY DEF Inv, TypeOK, OpState
<1> QED BY <1>1, <1>2, <1>3 DEF FourPhases, Phase, IsTerminal, Terminal

LEMMA NoFifthPhaseNext == Inv' => (\A o \in Ops : FourPhases(o))'
BY NoFifthPhase, PTL

\* Only a request is accepted at an operation at rest, and only at one that is
\* absent or ready, which then is no longer at rest.
LEMMA OnlyRequestsWake ==
  ASSUME Inv, NEW o \in Ops, Request(o) \/ Work(o), Quiet(o)
  PROVE  opState[o] \in {"none", "previewed"} /\ ~Quiet(o)'
<1> USE RunIsWorker DEF Quiet
<1>1. TypeOK
  BY DEF Inv
<1>2. opState[o] \notin Working
  BY DEF Inv, NoneStranded, Attended, Working, Driving
<1>3. ASSUME Start(o) PROVE opState[o] \in {"none", "previewed"} /\ ~Quiet(o)'
  BY <1>1, <1>3 DEF Start, Write, Goto, TypeOK
<1>4. ASSUME NEW e \in ExecReqs, ExecuteRequest(o, e)
      PROVE  opState[o] \in {"none", "previewed"} /\ ~Quiet(o)'
  BY <1>1, <1>4 DEF ExecuteRequest, Pass, Goto, TypeOK
<1>5. ASSUME NEW c \in CancelReqs, CancelCheck(o, c)
      PROVE  opState[o] \in {"none", "previewed"} /\ ~Quiet(o)'
  BY <1>1, <1>2, <1>5
  DEF CancelCheck, CancelGoto, TypeOK, TransitionValid, validTransitions, Working
<1>6. ~runOperation(o)
  BY DEF runOperation, Preflight, Parse, Publish, AuditPreview, CheckAgent, Answer,
         Refusal, TryRead, TryWrite, At
<1>7. ASSUME NEW e \in ExecReqs PROVE ~ExecuteSpawn(o, e)
  BY <1>7 DEF ExecuteSpawn, At
<1>8. ASSUME NEW w \in Workers PROVE ~executeOperation(o, w)
  BY <1>8 DEF executeOperation, CheckAgent, Answer, Refusal, TryRead, TryWrite,
              Finish, Report, failOperation, At
<1>9. ASSUME NEW c \in CancelReqs PROVE ~(CancelWrite(o, c) \/ CancelAudit(o, c))
  BY <1>9 DEF CancelWrite, CancelAudit
<1> QED BY <1>3, <1>4, <1>5, <1>6, <1>7, <1>8, <1>9 DEF Request, Work

\* A step at one operation leaves the others as they are, and never undoes the
\* creation of its own.
LEMMA StepIsLocal ==
  ASSUME Inv, NEW o \in Ops, Request(o) \/ Work(o)
  PROVE  /\ \A p \in Ops \ {o} : /\ opState'[p] = opState[p]
                                 /\ pc'[p] = pc[p]
                                 /\ cpc'[p] = cpc[p]
         /\ opState'[o] = "none" => opState[o] = "none"
<1> DEFINE Local == /\ \A p \in Ops \ {o} : /\ opState'[p] = opState[p]
                                            /\ pc'[p] = pc[p]
                                            /\ cpc'[p] = cpc[p]
                    /\ opState'[o] = "none" => opState[o] = "none"
<1>1. TypeOK
  BY DEF Inv
<1>2. ASSUME NEW w, NEW l, Pass(o, w, l) PROVE Local
  BY <1>1, <1>2 DEF Pass, Goto, Data, TypeOK
<1>3. ASSUME NEW w, NEW l, NEW s, s # "none", Write(o, w, s, l) PROVE Local
  BY <1>1, <1>3 DEF Write, SetState, Goto, Data, TypeOK
<1>4. ASSUME Start(o) PROVE Local
  BY <1>3, <1>4 DEF Start
<1>5. ASSUME Preflight(o) \/ Parse(o) PROVE Local
  BY <1>2, <1>3, <1>5 DEF Preflight, Parse, CheckAgent, Answer, Refusal, TryRead, TryWrite
<1>6. ASSUME Publish(o) \/ AuditPreview(o) PROVE Local
  BY <1>1, <1>6 DEF Publish, AuditPreview, Goto, TypeOK
<1>7. ASSUME NEW e \in ExecReqs, ExecuteRequest(o, e) \/ ExecuteSpawn(o, e) PROVE Local
  BY <1>2, <1>7 DEF ExecuteRequest, ExecuteSpawn
<1>8. ASSUME NEW w \in Workers, executeOperation(o, w) PROVE Local
  <2>1. CASE Report(o, w)
    BY <1>1, <2>1 DEF Report, Goto, TypeOK
  <2>2. CASE ~Report(o, w)
    BY <1>2, <1>3, <1>8, <2>2
    DEF executeOperation, CheckAgent, Answer, Refusal, TryRead, TryWrite, Finish,
        failOperation
  <2> QED BY <2>1, <2>2
<1>9. ASSUME NEW c \in CancelReqs,
             CancelCheck(o, c) \/ CancelWrite(o, c) \/ CancelAudit(o, c)
      PROVE  Local
  BY <1>1, <1>9 DEF CancelCheck, CancelWrite, CancelAudit, CancelGoto, SetState, TypeOK
<1> QED
  BY <1>4, <1>5, <1>6, <1>7, <1>8, <1>9 DEF Request, Work, runOperation

\* Every step of the server is a step of the promise or a stutter.
LEMMA PromiseStep == Inv /\ Inv' /\ [Next]_vars => [Promise!Next]_PhaseOf
<1> SUFFICES ASSUME Inv, Inv', [Next]_vars PROVE [Promise!Next]_PhaseOf
  OBVIOUS
<1>1. ASSUME \A p \in Ops : Phase(p)' = Phase(p) PROVE UNCHANGED PhaseOf
  BY <1>1 DEF PhaseOf
<1>2. ASSUME opState' = opState, pc' = pc, cpc' = cpc PROVE [Promise!Next]_PhaseOf
  BY <1>1, <1>2 DEF Phase, Quiet
<1>3. ASSUME NEW o \in Ops, Request(o) \/ Work(o) PROVE [Promise!Next]_PhaseOf
  <2>1. \A p \in Ops \ {o} : Phase(p)' = Phase(p)
    BY <1>3, StepIsLocal DEF Phase, Quiet
  <2>2. ASSUME Phase(o)' # Phase(o)
        PROVE  \/ Phase(o) = "absent" /\ Phase(o)' = "busy"
               \/ Phase(o) = "ready" /\ Phase(o)' = "busy"
               \/ Phase(o) = "busy" /\ Phase(o)' \in {"ready", "over"}
    <3>1. /\ Phase(o) \in {"absent", "busy", "ready", "over"}
          /\ Phase(o) = "absent" <=> opState[o] = "none"
          /\ Phase(o) = "busy" <=> ~Quiet(o)
      BY NoFifthPhase DEF FourPhases
    <3>2. /\ Phase(o)' \in {"absent", "busy", "ready", "over"}
          /\ Phase(o)' = "absent" <=> opState'[o] = "none"
          /\ Phase(o)' = "busy" <=> ~Quiet(o)'
      BY NoFifthPhaseNext DEF FourPhases
    <3>3. opState'[o] = "none" => opState[o] = "none"
      BY <1>3, StepIsLocal
    <3>4. Quiet(o) => Phase(o) \in {"absent", "ready"} /\ Phase(o)' = "busy"
      BY <1>3, <3>2, OnlyRequestsWake DEF Phase
    <3> QED BY <2>2, <3>1, <3>2, <3>3, <3>4
  <2>3. CASE Phase(o)' = Phase(o)
    BY <1>1, <2>1, <2>3
  <2>4. CASE Phase(o)' # Phase(o)
    <3>1. PhaseOf' = [PhaseOf EXCEPT ![o] = Phase(o)']
      BY <2>1 DEF PhaseOf
    <3>2. PhaseOf[o] = Phase(o)
      BY DEF PhaseOf
    <3> QED
      BY <2>2, <2>4, <3>1, <3>2
      DEF PhaseOf, Promise!Next, Promise!Begin, Promise!Resume, Promise!Finish, Promise!Move
  <2> QED BY <2>3, <2>4
<1>4. ASSUME NEW a \in Agents, AgentFlips(a) PROVE [Promise!Next]_PhaseOf
  BY <1>2, <1>4 DEF AgentFlips
<1>5. CASE UNCHANGED vars
  BY <1>2, <1>5 DEF vars
<1> QED BY <1>3, <1>4, <1>5 DEF Next

\* The workflow implements the promise a polling client relies on: an operation
\* is absent, busy, ready or over, and over for good once nobody works on it
\* (Start, Execute, Cancel, runOperation, executeOperation).
THEOREM PromiseKept == Spec => ImplementsPromise
<1>1. Init => Promise!Init
  BY DEF Init, Promise!Init, Phase
<1>2. Inv /\ Inv' /\ [Next]_vars => [Promise!Next]_PhaseOf
  BY PromiseStep
<1> QED BY <1>1, <1>2, SpecInv, PTL DEF Spec, ImplementsPromise, Promise!Spec, PhaseOf

==============================================================================
