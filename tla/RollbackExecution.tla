--------------------------- MODULE RollbackExecution ---------------------------
(***************************************************************************)
(* The agent executing a rollback: the serial dispatch of commands         *)
(* (internal/ws/agent/client.go), handlePITRExecute and handlePITRCancel   *)
(* (cmd/agent/serve.go), the batch executor (internal/rollback/executor.go) *)
(* and the checkpoint file (internal/checkpoint/manager.go), against a     *)
(* MySQL that can fail at every call and a process that can be killed.     *)
(*                                                                         *)
(* One operation: the reverse SQL is statements 1..N.  One goroutine does  *)
(* all of it, so pc is the process.                                        *)
(***************************************************************************)
EXTENDS Naturals, FiniteSets, SequencesExt

CONSTANTS N,          \* statements of the operation
          BatchSize,  \* opts.BatchSize
          MaxBytes,   \* opts.MaxBatchBytes
          Sizes,      \* possible lengths of a statement
          MinBatch,   \* the minimum of the retry, 10 in the code
          MaxCrashes, \* bound on the times the process is killed
          None,       \* no file, no answer
          Partial     \* the content of a file that is not a document

Document == [status : {"in_progress", "complete"}, completed : Nat]
Answers  == [rows : Nat, complete : Nat, errors : 0 .. 1, cancelled : BOOLEAN]

ASSUME ExecAssumption ==
  /\ N \in Nat \ {0}
  /\ BatchSize \in Nat \ {0}
  /\ MaxBytes \in Nat \ {0}
  /\ Sizes \subseteq Nat \ {0}
  /\ MinBatch \in Nat \ {0}
  /\ MaxCrashes \in Nat
  /\ None # Partial
  /\ None \notin Document \cup Answers /\ Partial \notin Document

Stmts == 1 .. N

VARIABLES bytes,      \* the length of each statement
          sent,       \* commands the platform has sent
          inbox,      \* commands the agent's socket holds, oldest first
          pc,
          running,    \* d.cancels has the operation
          cancelled,  \* the operation's context is cancelled
          batches,    \* the batches built so far, as intervals
          cur,        \* the batch being built: its first statement, the next one, its bytes
          b,          \* the batch being executed
          size,       \* executeWithRetry's size
          tx,         \* statements of the batch the open transaction has executed
          applied,    \* how often MySQL has durably applied each statement
          res,        \* the ExecResult
          file, tmp,  \* the checkpoint file and its temporary
          doc, ret,   \* atomicWrite's argument and where it returns to
          reply,      \* the answer to pitr_execute
          crashes

batchVars == <<batches, cur>>
execVars  == <<b, size, tx, res>>
diskVars  == <<file, tmp, doc, ret>>
ctxVars   == <<running, cancelled>>
vars == <<bytes, sent, inbox, pc, ctxVars, batchVars, execVars, applied, diskVars,
          reply, crashes>>

Commands == {"execute", "cancel"}
Interval == [lo : Stmts, hi : Stmts]
Result   == [rows : Nat, complete : Nat, errors : 0 .. 1]
Where == {"idle", "build", "batch", "begin", "exec", "commit", "finish", "reply",
          "truncate", "fill", "rename", "dead"}

TypeOK ==
  /\ bytes \in [Stmts -> Sizes]
  /\ sent \subseteq Commands
  /\ inbox \in Seq(Commands)
  /\ pc \in Where
  /\ running \in BOOLEAN
  /\ cancelled \in BOOLEAN
  /\ batches \in Seq(Interval)
  /\ cur \in [lo : Nat \ {0}, next : Nat \ {0}, bytes : Nat]
  /\ b \in Nat \ {0}
  /\ size \in Nat
  /\ tx \in Nat
  /\ applied \in [Stmts -> Nat]
  /\ res \in Result
  /\ file \in Document \cup {None, Partial}
  /\ tmp \in Document \cup {None, Partial}
  /\ doc \in Document \cup {None}
  /\ ret \in {"idle", "build", "batch", "finish", "reply"}
  /\ reply \in Answers \cup {None}
  /\ crashes \in 0 .. MaxCrashes

NoBatch  == [lo |-> 1, next |-> 1, bytes |-> 0]
NoResult == [rows |-> 0, complete |-> 0, errors |-> 0]

Init ==
  /\ bytes \in [Stmts -> Sizes]
  /\ sent = {}
  /\ inbox = << >>
  /\ pc = "idle"
  /\ running = FALSE
  /\ cancelled = FALSE
  /\ batches = << >>
  /\ cur = NoBatch
  /\ b = 1
  /\ size = 0
  /\ tx = 0
  /\ applied = [s \in Stmts |-> 0]
  /\ res = NoResult
  /\ file = None
  /\ tmp = None
  /\ doc = None
  /\ ret = "idle"
  /\ reply = None
  /\ crashes = 0

Goto(l) == pc' = l

-----------------------------------------------------------------------------
(* atomicWrite: a temporary file, then a rename.  Each call can fail, and  *)
(* every caller goes on whether it failed or not.                          *)

Write(d, l) == doc' = d /\ ret' = l /\ Goto("truncate") /\ UNCHANGED <<file, tmp>>
NoWrite(l)  == Goto(l) /\ UNCHANGED diskVars

\* Mutation: the document is written in place.
Truncate_InPlace ==
  /\ pc = "truncate"
  /\ \/ file' = Partial /\ Goto("fill")
     \/ UNCHANGED file /\ Goto(ret)
  /\ UNCHANGED <<bytes, sent, inbox, ctxVars, batchVars, execVars, applied,
                 tmp, doc, ret, reply, crashes>>

\* os.WriteFile opens the temporary and empties it.
Truncate ==
  /\ pc = "truncate"
  /\ \/ tmp' = Partial /\ Goto("fill")
     \/ UNCHANGED tmp /\ Goto(ret)
  /\ UNCHANGED <<bytes, sent, inbox, ctxVars, batchVars, execVars, applied,
                 file, doc, ret, reply, crashes>>

\* ... and writes the document.
Fill ==
  /\ pc = "fill"
  /\ \/ tmp' = doc /\ Goto("rename")
     \/ UNCHANGED tmp /\ Goto(ret)
  /\ UNCHANGED <<bytes, sent, inbox, ctxVars, batchVars, execVars, applied,
                 file, doc, ret, reply, crashes>>

\* os.Rename; on an error the temporary is removed.
Rename ==
  /\ pc = "rename"
  /\ file' = tmp \/ UNCHANGED file
  /\ tmp' = None
  /\ Goto(ret)
  /\ UNCHANGED <<bytes, sent, inbox, ctxVars, batchVars, execVars, applied,
                 doc, ret, reply, crashes>>

\* UpdateBatch and Complete read the file first and fail without one.
UpdateBatch(k, l) ==
  IF file = None THEN NoWrite(l) ELSE Write([file EXCEPT !.completed = k], l)
Complete(l) ==
  IF file = None THEN NoWrite(l) ELSE Write([file EXCEPT !.status = "complete"], l)

-----------------------------------------------------------------------------
(* The dispatch: readPump handles a message to its end before the next.    *)

Deliver(c) ==
  /\ c \notin sent
  /\ pc # "dead"
  /\ sent' = sent \cup {c}
  /\ inbox' = Append(inbox, c)
  /\ UNCHANGED <<bytes, pc, ctxVars, batchVars, execVars, applied, diskVars, reply, crashes>>

\* handlePITRExecute up to CreateCheckpoint.
HandleExecute ==
  /\ pc = "idle"
  /\ inbox # << >> /\ Head(inbox) = "execute"
  /\ inbox' = Tail(inbox)
  /\ running' = TRUE
  /\ cancelled' = FALSE
  /\ batches' = << >>
  /\ cur' = NoBatch
  /\ b' = 1
  /\ size' = 0
  /\ tx' = 0
  /\ res' = NoResult
  /\ Write([status |-> "in_progress", completed |-> 0], "build")
  /\ UNCHANGED <<bytes, sent, applied, reply, crashes>>

\* handlePITRCancel cancels the operation's context if it finds the operation.
HandleCancel ==
  /\ pc = "idle"
  /\ inbox # << >> /\ Head(inbox) = "cancel"
  /\ inbox' = Tail(inbox)
  /\ cancelled' = (cancelled \/ running)
  /\ UNCHANGED <<bytes, sent, pc, running, batchVars, execVars, applied, diskVars, reply, crashes>>

-----------------------------------------------------------------------------
(* buildBatches, one statement at a time.                                  *)

Count == cur.next - cur.lo

\* Mutation: a batch takes one statement more than BatchSize.
Full_OffByOne == \/ Count > BatchSize
                 \/ cur.bytes + bytes[cur.next] > MaxBytes /\ Count > 0

\* The current batch has to end before the next statement.
Full == \/ Count >= BatchSize
        \/ cur.bytes + bytes[cur.next] > MaxBytes /\ Count > 0

\* Mutation: the batches end up in the opposite order.
CloseBatch_Prepended == <<[lo |-> cur.lo, hi |-> cur.next - 1]>> \o batches

CloseBatch == Append(batches, [lo |-> cur.lo, hi |-> cur.next - 1])

\* Mutation: the batch being built when the statements end is forgotten.
Build_DropsLast ==
  /\ pc = "build"
  /\ IF cur.next > N
     THEN UNCHANGED batchVars /\ Goto("batch")
     ELSE /\ Goto("build")
          /\ IF Full
             THEN /\ batches' = CloseBatch
                  /\ cur' = [lo |-> cur.next, next |-> cur.next + 1, bytes |-> bytes[cur.next]]
             ELSE /\ cur' = [cur EXCEPT !.next = @ + 1, !.bytes = @ + bytes[cur.next]]
                  /\ UNCHANGED batches
  /\ UNCHANGED <<bytes, sent, inbox, ctxVars, execVars, applied, diskVars, reply, crashes>>

Build ==
  /\ pc = "build"
  /\ IF cur.next > N
     THEN batches' = CloseBatch /\ UNCHANGED cur /\ Goto("batch")
     ELSE /\ Goto("build")
          /\ IF Full
             THEN /\ batches' = CloseBatch
                  /\ cur' = [lo |-> cur.next, next |-> cur.next + 1, bytes |-> bytes[cur.next]]
             ELSE /\ cur' = [cur EXCEPT !.next = @ + 1, !.bytes = @ + bytes[cur.next]]
                  /\ UNCHANGED batches
  /\ UNCHANGED <<bytes, sent, inbox, ctxVars, execVars, applied, diskVars, reply, crashes>>

-----------------------------------------------------------------------------
(* Execute, executeWithRetry and executeBatch.                             *)

Length(k)  == batches[k].hi - batches[k].lo + 1
Clamp(n)   == LET m == IF n < MinBatch THEN MinBatch ELSE n
              IN IF m > Length(b) THEN Length(b) ELSE m

\* The loop over the batches.
NextBatch ==
  /\ pc = "batch"
  /\ IF b > Len(batches)
     THEN Goto("finish") /\ UNCHANGED size
     ELSE Goto("begin") /\ size' = Clamp(Length(b))
  /\ UNCHANGED <<bytes, sent, inbox, ctxVars, batchVars, b, tx, res, applied, diskVars, reply, crashes>>

\* Mutation: the failed batch is counted in the checkpoint.
BatchFailed_Counted ==
  /\ res' = [res EXCEPT !.errors = @ + 1]
  /\ UpdateBatch(b, "finish")

\* Mutation: the loop goes on after an error.
BatchFailed_GoesOn ==
  /\ res' = [res EXCEPT !.errors = @ + 1]
  /\ UpdateBatch(b - 1, "batch")

\* The batch's error is recorded, OnBatch called with it, and the loop left.
BatchFailed ==
  /\ res' = [res EXCEPT !.errors = @ + 1]
  /\ UpdateBatch(b - 1, "finish")

\* Mutation: the size is halved below the minimum.
Shrink_Forever ==
  /\ size' = Clamp(size \div 2)
  /\ Goto("begin")
  /\ UNCHANGED <<res, diskVars>>

\* A retryable error halves the size, or ends the batch at the minimum.
Shrink ==
  IF size \div 2 < MinBatch
  THEN BatchFailed /\ UNCHANGED size
  ELSE size' = Clamp(size \div 2) /\ Goto("begin") /\ UNCHANGED <<res, diskVars>>

\* Mutation: every error is retryable.
OnError_RetryAll(retryable) == Shrink

OnError(retryable) == IF retryable THEN Shrink ELSE BatchFailed /\ UNCHANGED size

\* BeginTx; a cancelled context fails it.
Begin ==
  /\ pc = "begin"
  /\ \/ ~cancelled /\ Goto("exec") /\ UNCHANGED <<size, res, diskVars>>
     \/ OnError(FALSE)
  /\ tx' = 0
  /\ UNCHANGED <<bytes, sent, inbox, ctxVars, batchVars, b, applied, reply, crashes>>

\* One statement; an error rolls the transaction back.
ExecStmt ==
  /\ pc = "exec"
  /\ \/ /\ ~cancelled
        /\ tx' = tx + 1
        /\ Goto(IF tx + 1 = size THEN "commit" ELSE "exec")
        /\ UNCHANGED <<size, res, diskVars>>
     \/ /\ tx' = 0
        /\ \E retryable \in BOOLEAN : OnError(retryable)
  /\ UNCHANGED <<bytes, sent, inbox, ctxVars, batchVars, b, applied, reply, crashes>>

Durable ==
  LET lo == batches[b].lo
  IN [s \in Stmts |-> IF s \in lo .. lo + tx - 1 THEN applied[s] + 1 ELSE applied[s]]

\* Mutation: the size of the whole batch is counted.
Commit_WholeBatch ==
  /\ pc = "commit"
  /\ applied' = Durable
  /\ tx' = 0
  /\ res' = [res EXCEPT !.complete = @ + 1, !.rows = @ + Length(b)]
  /\ b' = b + 1
  /\ UpdateBatch(b, "batch")
  /\ UNCHANGED <<bytes, sent, inbox, ctxVars, batchVars, size, reply, crashes>>

\* The commit succeeds; OnBatch updates the checkpoint.
Commit ==
  /\ pc = "commit"
  /\ applied' = Durable
  /\ tx' = 0
  /\ res' = [res EXCEPT !.complete = @ + 1, !.rows = @ + size]
  /\ b' = b + 1
  /\ UpdateBatch(b, "batch")
  /\ UNCHANGED <<bytes, sent, inbox, ctxVars, batchVars, size, reply, crashes>>

\* The commit fails, or it succeeds and its answer is lost, which is no MySQL
\* error and so not retryable.
CommitError ==
  /\ pc = "commit"
  /\ tx' = 0
  /\ \/ UNCHANGED applied /\ \E retryable \in BOOLEAN : OnError(retryable)
     \/ applied' = Durable /\ OnError(FALSE)
  /\ UNCHANGED <<bytes, sent, inbox, ctxVars, batchVars, b, reply, crashes>>

\* After Execute: Complete unless the context is cancelled.
Finish ==
  /\ pc = "finish"
  /\ IF cancelled THEN NoWrite("reply") ELSE Complete("reply")
  /\ UNCHANGED <<bytes, sent, inbox, ctxVars, batchVars, execVars, applied, reply, crashes>>

Reply ==
  /\ pc = "reply"
  /\ reply' = [rows |-> res.rows, complete |-> res.complete, errors |-> res.errors,
               cancelled |-> cancelled]
  /\ running' = FALSE
  /\ Goto("idle")
  /\ UNCHANGED <<bytes, sent, inbox, cancelled, batchVars, execVars, applied, diskVars, crashes>>

-----------------------------------------------------------------------------
(* The process is killed, at any point: a signal exits it half a second    *)
(* later whatever the handler does.  MySQL rolls the open transaction back, *)
(* unless it was about to commit and the commit had reached it.            *)

Crash ==
  /\ pc # "dead"
  /\ crashes < MaxCrashes
  /\ crashes' = crashes + 1
  /\ Goto("dead")
  /\ inbox' = << >>
  /\ running' = FALSE
  /\ applied' = applied \/ (pc = "commit" /\ applied' = Durable)
  /\ UNCHANGED <<bytes, sent, cancelled, batchVars, execVars, diskVars, reply>>

\* serve reads no checkpoint.  What was in memory is gone, and HandleExecute sets
\* every variable of an execution before it is read.
Restart ==
  /\ pc = "dead"
  /\ Goto("idle")
  /\ UNCHANGED <<bytes, sent, inbox, ctxVars, batchVars, execVars, applied, diskVars,
                 reply, crashes>>

Agent == \/ HandleExecute \/ HandleCancel \/ Build \/ NextBatch \/ Begin \/ ExecStmt
         \/ Commit \/ CommitError \/ Finish \/ Reply \/ Truncate \/ Fill \/ Rename

Next == Agent \/ (\E c \in Commands : Deliver(c)) \/ Crash \/ Restart

Spec == Init /\ [][Next]_vars

\* The goroutine runs and MySQL's and the file system's calls return; the
\* process is started again (systemd).
FairSpec == Spec /\ WF_vars(Agent) /\ WF_vars(Restart)

-----------------------------------------------------------------------------
(* Properties.                                                             *)

Applied == {s \in Stmts : applied[s] > 0}
Batch(k) == batches[k].lo .. batches[k].hi
Plus(m, n) == m + n
BytesIn(k) == FoldLeft(Plus, 0, SubSeq(bytes, batches[k].lo, batches[k].hi))

\* The batches are the statements, each once and in order (buildBatches).
BatchesPartition ==
  pc \in {"batch", "begin", "exec", "commit", "finish"} =>
    /\ batches[1].lo = 1 /\ batches[Len(batches)].hi = N
    /\ \A k \in 1 .. Len(batches) :
         /\ batches[k].lo <= batches[k].hi
         /\ k > 1 => batches[k].lo = batches[k - 1].hi + 1

\* They keep both limits; only a statement that is too long by itself exceeds one,
\* and then alone.
BatchesWithinLimits ==
  \A k \in 1 .. Len(batches) :
    /\ Length(k) <= BatchSize
    /\ Length(k) > 1 => BytesIn(k) <= MaxBytes

\* No statement is applied twice, whatever was retried (executeWithRetry) and
\* whatever answer of a commit was lost.
AppliedAtMostOnce == \A s \in Stmts : applied[s] <= 1

\* Statements take effect newest change first, as ReverseSQLBatch ordered them:
\* nothing is applied before what a commit has already applied.
AppliedInOrder ==
  [][\A s, t \in Stmts : applied'[s] > applied[s] /\ applied[t] > 0 => t < s]_vars

\* The checkpoint counts no batch of which nothing is committed, in every state a
\* crash can leave (OnBatch after the commit, BatchNum after a failure).
CheckpointNotAhead ==
  file \notin {None, Partial} =>
    \A k \in 1 .. file.completed : Batch(k) \cap Applied # {}

\* The checkpoint file is a whole document after a crash at any point of atomicWrite.
CheckpointReadable == file # Partial

\* pitr_execute has not been handled yet.
Pending == "execute" \notin sent \/ \E i \in DOMAIN inbox : inbox[i] = "execute"

\* What the server sees of the rollback.
Life == IF running THEN "working" ELSE IF Pending THEN "new" ELSE "over"
Told == IF reply = None THEN None ELSE [rows |-> reply.rows, failed |-> reply.errors > 0]

Promise == INSTANCE RollbackPromise WITH life <- Life, done <- Applied, told <- Told

\* The executor implements the promise of RollbackPromise: whatever fails, is retried or
\* is killed (Execute, handlePITRExecute), what takes effect does so in parts of at most
\* one batch, in order and before the answer, and no command is executed twice.
ImplementsPromise == Promise!Spec

\* An execution ends: halving reaches the minimum (executeWithRetry).
ExecutionEnds == running ~> ~running

(* What the documents say and the code does not do.                        *)

\* executor.go:29-33: after a retry at a smaller size the remaining statements of
\* the batch are processed in subsequent batches.
RetryKeepsTheRest ==
  reply # None /\ reply.errors = 0 /\ ~reply.cancelled => Applied = Stmts

==============================================================================
