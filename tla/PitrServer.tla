------------------------------ MODULE PitrServer ------------------------------
(***************************************************************************)
(* The server's recovery workflow (internal/server/pitr/handler.go): the   *)
(* goroutine runOperation of every operation, the goroutines that Execute  *)
(* requests launch, and Cancel requests.  All of them hold the same        *)
(* *Operation and read and write its fields without a lock, so a check of  *)
(* op.State and the write that follows it are separate steps.              *)
(*                                                                         *)
(* The hub and the agent appear only through what SendToAgent returns and  *)
(* what IsConnected answers.                                               *)
(***************************************************************************)
EXTENDS OpStates

CONSTANTS Ops,         \* operations
          Agents,      \* agents
          AgentOf,     \* the agent an operation is started against
          Run,         \* the worker that executes runOperation
          ExecReqs,    \* slots for concurrent POST .../execute requests
          CancelReqs   \* slots for concurrent POST .../cancel requests

ASSUME AgentOfAssumption == AgentOf \in [Ops -> Agents]
ASSUME RunAssumption     == Run \notin ExecReqs

VARIABLES opState,   \* op.State, "none" before Create
          mode,      \* op.Mode
          parsed,    \* op.ParseRes # nil
          reported,  \* op.ExecRes # nil
          audit,     \* statuses of the operation's audit entries
          online,    \* hub.IsConnected, per agent
          pc,        \* where each worker of an operation is
          cpc        \* where each Cancel request of an operation is

vars == <<opState, mode, parsed, reported, audit, online, pc, cpc>>

Workers == {Run} \cup ExecReqs

\* Steps of executeOperation from the accepted transition to the last write of
\* op.State: whoever is at one of them will still write op.State.
Driving == {"execute", "finish", "setCancelled", "setCompleted", "fail"}
\* Every step of executeOperation proper.
Executing == {"execStart", "tryExecute", "setExecuting", "execute", "finish",
              "setCancelled", "setCompleted", "report"}
RunSteps == {"start", "preflight", "tryConfirm", "setConfirmed", "tryParse",
             "setParsing", "parse", "tryPreview", "setPreviewed", "publish",
             "auditPreview"}
Label == {"idle", "accepted"} \cup RunSteps \cup Executing \cup Driving

TypeOK ==
  /\ opState  \in [Ops -> OpState \cup {"none"}]
  /\ mode     \in [Ops -> {"preview", "execute"}]
  /\ parsed   \in [Ops -> BOOLEAN]
  /\ reported \in [Ops -> BOOLEAN]
  /\ audit    \in [Ops -> SUBSET {"previewed", "completed", "cancelled"}]
  /\ online   \in [Agents -> BOOLEAN]
  /\ pc       \in [Ops -> [Workers -> Label]]
  /\ cpc      \in [Ops -> [CancelReqs -> {"idle", "write", "notify"}]]

Init ==
  /\ opState  = [o \in Ops |-> "none"]
  /\ mode     \in [Ops -> {"preview", "execute"}]
  /\ parsed   = [o \in Ops |-> FALSE]
  /\ reported = [o \in Ops |-> FALSE]
  /\ audit    = [o \in Ops |-> {}]
  /\ online   \in [Agents -> BOOLEAN]
  /\ pc       = [o \in Ops |-> [w \in Workers |-> "idle"]]
  /\ cpc      = [o \in Ops |-> [c \in CancelReqs |-> "idle"]]

-----------------------------------------------------------------------------
(* Steps shared by the workers.                                            *)

agentConnected(o) == online[AgentOf[o]]

At(o, w, l)    == pc[o][w] = l
Goto(o, w, l)  == pc' = [pc EXCEPT ![o][w] = l]
SetState(o, s) == opState' = [opState EXCEPT ![o] = s]
Record(o, s)   == audit' = [audit EXCEPT ![o] = @ \cup {s}]

Data == <<mode, parsed, reported, audit, online, cpc>>

\* A step that only moves the worker.
Pass(o, w, l) == Goto(o, w, l) /\ UNCHANGED <<opState, Data>>
\* A step that writes op.State and moves the worker.
Write(o, w, s, l) == SetState(o, s) /\ Goto(o, w, l) /\ UNCHANGED Data

\* tryTransition, first half: the guard reads op.State; on a refusal the
\* goroutine returns.
TryRead(o, w, at, to, next) ==
  /\ At(o, w, at)
  /\ Pass(o, w, IF TransitionValid(opState[o], to) THEN next ELSE "idle")

\* tryTransition, second half: op.State is assigned whatever it is by now.
TryWrite(o, w, at, to, next) == At(o, w, at) /\ Write(o, w, to, next)

\* A command to the agent returns an answer the handler goes on with, or an
\* error, an error answer or an unusable one, each of which ends in
\* failOperation.
Answer(o, w, at, next) == At(o, w, at) /\ Pass(o, w, next)
Refusal(o, w, at)      == At(o, w, at) /\ Pass(o, w, "fail")

\* Both goroutines first ask the hub whether the agent is there.
CheckAgent(o, w, at, next) ==
  /\ At(o, w, at)
  /\ Pass(o, w, IF agentConnected(o) THEN next ELSE "fail")

\* Mutation: the failure is logged and op.State is not written.
failOperation_Lost(o, w) == At(o, w, "fail") /\ Pass(o, w, "idle")

\* failOperation overwrites op.State unconditionally.
failOperation(o, w) == At(o, w, "fail") /\ Write(o, w, "failed", "idle")

-----------------------------------------------------------------------------
(* The Start request and the goroutine it launches.                        *)

Start(o) ==
  /\ opState[o] = "none"
  /\ agentConnected(o)
  /\ Write(o, Run, "preflight", "start")

Preflight(o) ==
  \/ CheckAgent(o, Run, "start", "preflight")
  \/ Answer(o, Run, "preflight", "tryConfirm")
  \/ Refusal(o, Run, "preflight")
  \/ TryRead(o, Run, "tryConfirm", "confirmed", "setConfirmed")
  \/ TryWrite(o, Run, "setConfirmed", "confirmed", "tryParse")

Parse(o) ==
  \/ TryRead(o, Run, "tryParse", "parsing", "setParsing")
  \/ TryWrite(o, Run, "setParsing", "parsing", "parse")
  \/ Answer(o, Run, "parse", "tryPreview")
  \/ Refusal(o, Run, "parse")
  \/ TryRead(o, Run, "tryPreview", "previewed", "setPreviewed")
  \/ TryWrite(o, Run, "setPreviewed", "previewed", "publish")

\* op.ParseRes is set after op.State already reads "previewed".
Publish(o) ==
  /\ At(o, Run, "publish")
  /\ parsed' = [parsed EXCEPT ![o] = TRUE]
  /\ Goto(o, Run, "auditPreview")
  /\ UNCHANGED <<opState, mode, reported, audit, online, cpc>>

\* The preview is recorded; an operation in mode "execute" goes straight on.
AuditPreview(o) ==
  /\ At(o, Run, "auditPreview")
  /\ Record(o, "previewed")
  /\ Goto(o, Run, IF mode[o] = "preview" THEN "idle" ELSE "execStart")
  /\ UNCHANGED <<opState, mode, parsed, reported, online, cpc>>

runOperation(o) == Preflight(o) \/ Parse(o) \/ Publish(o) \/ AuditPreview(o)

-----------------------------------------------------------------------------
(* The Execute request and the goroutine it launches.                      *)

ExecuteRequest(o, e) ==
  /\ At(o, e, "idle")
  /\ opState[o] = "previewed"
  /\ Pass(o, e, "accepted")

\* Mutation: the ParseRes check is dropped.
ExecuteSpawn_Unparsed(o, e) ==
  /\ At(o, e, "accepted")
  /\ Pass(o, e, IF agentConnected(o) THEN "execStart" ELSE "idle")

\* The remaining checks of the handler, after which the goroutine starts.
ExecuteSpawn(o, e) ==
  /\ At(o, e, "accepted")
  /\ Pass(o, e, IF parsed[o] /\ agentConnected(o) THEN "execStart" ELSE "idle")

\* Mutation: a cancelled answer ends the goroutine without a write.
Finish_Dropped(o, w) ==
  /\ At(o, w, "finish")
  /\ \E cancelled, errors \in BOOLEAN :
       Pass(o, w, IF opState[o] = "cancelled" \/ cancelled THEN "idle"
                  ELSE IF errors THEN "fail" ELSE "setCompleted")

\* The agent's answer is read together with op.State.
Finish(o, w) ==
  /\ At(o, w, "finish")
  /\ \E cancelled, errors \in BOOLEAN :
       Pass(o, w, IF opState[o] = "cancelled" \/ cancelled THEN "setCancelled"
                  ELSE IF errors THEN "fail" ELSE "setCompleted")

\* Mutation: the completion is not recorded.
Report_Unrecorded(o, w) ==
  /\ At(o, w, "report")
  /\ reported' = [reported EXCEPT ![o] = TRUE]
  /\ Goto(o, w, "idle")
  /\ UNCHANGED <<opState, mode, parsed, audit, online, cpc>>

\* ExecRes and the audit entry follow the write of op.State.
Report(o, w) ==
  /\ At(o, w, "report")
  /\ reported' = [reported EXCEPT ![o] = TRUE]
  /\ Record(o, "completed")
  /\ Goto(o, w, "idle")
  /\ UNCHANGED <<opState, mode, parsed, online, cpc>>

executeOperation(o, w) ==
  \/ CheckAgent(o, w, "execStart", "tryExecute")
  \/ TryRead(o, w, "tryExecute", "executing", "setExecuting")
  \/ TryWrite(o, w, "setExecuting", "executing", "execute")
  \/ Answer(o, w, "execute", "finish")
  \/ Refusal(o, w, "execute")
  \/ Finish(o, w)
  \/ At(o, w, "setCancelled") /\ Write(o, w, "cancelled", "idle")
  \/ At(o, w, "setCompleted") /\ Write(o, w, "completed", "report")
  \/ Report(o, w)
  \/ failOperation(o, w)

-----------------------------------------------------------------------------
(* The Cancel request.                                                     *)

CancelGoto(o, c, l) == cpc' = [cpc EXCEPT ![o][c] = l]

\* Mutation: the state is not checked.
CancelCheck_Unchecked(o, c) ==
  /\ cpc[o][c] = "idle"
  /\ opState[o] # "none"
  /\ CancelGoto(o, c, "write")
  /\ UNCHANGED <<opState, mode, parsed, reported, audit, online, pc>>

CancelCheck(o, c) ==
  /\ cpc[o][c] = "idle"
  /\ TransitionValid(opState[o], "cancelled")
  /\ CancelGoto(o, c, "write")
  /\ UNCHANGED <<opState, mode, parsed, reported, audit, online, pc>>

CancelWrite(o, c) ==
  /\ cpc[o][c] = "write"
  /\ SetState(o, "cancelled")
  /\ CancelGoto(o, c, "notify")
  /\ UNCHANGED <<mode, parsed, reported, audit, online, pc>>

\* Mutation: the status the console's specification names, unknown elsewhere.
CancelAudit_Renamed(o, c) ==
  /\ cpc[o][c] = "notify"
  /\ Record(o, "cancelled_by_user")
  /\ CancelGoto(o, c, "idle")
  /\ UNCHANGED <<opState, mode, parsed, reported, online, pc>>

\* pitr_cancel is sent with its outcome ignored, then the audit entry is made.
CancelAudit(o, c) ==
  /\ cpc[o][c] = "notify"
  /\ Record(o, "cancelled")
  /\ CancelGoto(o, c, "idle")
  /\ UNCHANGED <<opState, mode, parsed, reported, online, pc>>

\* The hub registers or drops the agent's connection.
AgentFlips(a) ==
  /\ online' = [online EXCEPT ![a] = ~@]
  /\ UNCHANGED <<opState, mode, parsed, reported, audit, pc, cpc>>

Request(o) ==
  \/ Start(o)
  \/ \E e \in ExecReqs : ExecuteRequest(o, e)
  \/ \E c \in CancelReqs : CancelCheck(o, c)

Work(o) ==
  \/ runOperation(o)
  \/ \E e \in ExecReqs : ExecuteSpawn(o, e)
  \/ \E w \in Workers : executeOperation(o, w)
  \/ \E c \in CancelReqs : CancelWrite(o, c) \/ CancelAudit(o, c)

Next == \/ \E o \in Ops : Request(o) \/ Work(o)
        \/ \E a \in Agents : AgentFlips(a)

Spec == Init /\ [][Next]_vars

\* Goroutines are scheduled, and every SendToAgent returns: preflight, parse
\* and cancel carry a timeout, execute ends with the agent's answer or with
\* its connection.  Nothing is assumed of the users or of the agent's link.
Fairness ==
  \A o \in Ops :
    /\ WF_vars(runOperation(o))
    /\ \A w \in Workers : WF_vars(executeOperation(o, w))
    /\ \A e \in ExecReqs : WF_vars(ExecuteSpawn(o, e))
    /\ \A c \in CancelReqs : WF_vars(CancelWrite(o, c) \/ CancelAudit(o, c))

FairSpec == Spec /\ Fairness

-----------------------------------------------------------------------------
(* Properties.                                                             *)

\* Nothing in the server is at work on the operation.
Quiet(o) == /\ \A w \in Workers : pc[o][w] = "idle"
            /\ \A c \in CancelReqs : cpc[o][c] = "idle"

\* No step of any goroutine can leave an operation stranded: whenever its
\* state is a working one, a goroutine is at work whose way out writes the
\* state.  The races on op.State overwrite each other, yet none of them loses
\* the last write (runOperation, executeOperation, tryTransition, Cancel).
Attended(o) ==
  /\ opState[o] = "preflight" =>
       pc[o][Run] \in {"start", "preflight", "tryConfirm", "setConfirmed", "fail"}
  /\ opState[o] = "confirmed" => pc[o][Run] \in {"tryParse", "setParsing"}
  /\ opState[o] = "parsing" =>
       pc[o][Run] \in {"parse", "tryPreview", "setPreviewed", "fail"}
  /\ opState[o] = "executing" => \E w \in Workers : pc[o][w] \in Driving
NoneStranded == \A o \in Ops : Attended(o)

\* Statements reach an agent (pitr_execute is sent) only for an operation
\* whose parse result is there to be reviewed, on the path of mode "execute"
\* and on the path of the Execute request, whatever overwrites op.State.
ExecutePrecededByPreview ==
  \A o \in Ops, w \in Workers : pc[o][w] \in Executing => parsed[o]

\* A completed operation that is left alone has its audit entry and its
\* result: the entry is made after op.State is written, by the goroutine that
\* wrote it, and nothing that happens in between may lose it (recordAudit).
CompletedIsAudited ==
  \A o \in Ops : opState[o] = "completed" /\ Quiet(o)
                   => reported[o] /\ "completed" \in audit[o]

\* What a polling client sees of an operation.
Phase(o) == IF opState[o] = "none" THEN "absent"
            ELSE IF ~Quiet(o) THEN "busy"
            ELSE IF opState[o] = "previewed" THEN "ready"
            ELSE IF IsTerminal(opState[o]) THEN "over"
            ELSE "stranded"

Promise == INSTANCE OperationPromise WITH phase <- [o \in Ops |-> Phase(o)]

\* The handlers implement the promise of OperationPromise: in particular the
\* guards of Cancel and Execute never take up an operation that is over.
ImplementsPromise == Promise!Spec

\* Every operation leaves each working state: no phase of runOperation or
\* executeOperation waits for ever.
WorkEnds == \A o \in Ops : opState[o] \in Working ~> opState[o] \notin Working

(* What the documents say and the code does not do.                        *)

\* web-console/spec.md:42-44: when the user cancels after preflight and before
\* execution, no SQL is executed.  Cancel's write can fall between the two
\* halves of tryTransition, which overwrites it.
NoExecuteAfterCancel ==
  [][\A o \in Ops, w \in Workers :
       pc[o][w] = "setExecuting" /\ pc'[o][w] = "execute"
         => "cancelled" \notin audit[o]]_vars

==============================================================================
