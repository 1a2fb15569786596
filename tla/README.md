# Verification of mysql-pitr (database-flashback)

The program recovers MySQL rows to an earlier point in time. A **server** keeps
PITR operations and a web console; an **agent** on the database host connects to
it over a WebSocket, parses binlogs into reverse SQL and executes that SQL in
batches. This directory models the parts where order, failure and concurrency
decide whether a table is recovered correctly, checks them with TLC, and proves
the central invariants with TLAPS.

## 1. Inventory

| component | state | operations | made hard by |
|---|---|---|---|
| PITR operations, `internal/server/pitr` | an `Operation` per request: `State`, `ParseRes`, `ExecRes`; audit entries | `Start`, `Execute`, `Cancel` handlers; the goroutines `runOperation`, `executeOperation`; `tryTransition`, `failOperation` | `op.State` is read and written by handlers and goroutines through a shared pointer with no lock |
| agent hub, `internal/ws/hub` | `conns` (agent -> connection), each connection's `pending` table | `HandleConnection`, `readPump`, `SendToAgent`, `Close`, lifecycle hooks | reconnection, timeouts, closing while a call is on its way |
| agent client, `internal/ws/agent/client.go` | `conn`, `pending`, contexts, `connMu`, `writeMu` | `connectionManager`, `reconnect`, `readPump`, `SendCommand`, `Close` | two locks, three goroutines, shutdown at any time |
| reconnection backoff, same file | `reconnectAttempt` | `nextBackoff` | fixed-width arithmetic |
| certificate renewal, `internal/ws/agent/renewal.go` | the TLS certificate | `AutoRenew` every 24 h | waits for an answer over a connection that may go |
| rollback executor, `internal/rollback/executor.go` | batches, result | `buildBatches`, `Execute`, `executeWithRetry`, `executeBatch` | partial failure, lost commit answers, retry at half the size |
| checkpoint file, `internal/checkpoint` | one JSON document | `CreateCheckpoint`, `UpdateBatch`, `Complete`, `atomicWrite` | crash between any two file operations |
| agent daemon, `cmd/agent/serve.go` | `cancels`, the handlers | `pitr_preflight/parse/execute/cancel`, `shutdown`, signals | serial dispatch, crash, restart |
| command line flashback, `cmd/agent/flashback.go` | none; files, `mysqlbinlog`'s text | `RunFlashback`, `parseBinlogWithMySQLBinlog` | the scan of a text, a tool that breaks off, a table that changes meanwhile |
| certificate authority, `internal/ws/ca` | serial, revocation cache and file | `SignCSR`, `Revoke`, `IsRevoked` | a cache over a file, restarts |
| agent registry, `internal/server/agent` | agent records | `Register`, `Approve`, `Reject`, automatic registration in `OnConnect` | records deleted while the agent is connected |
| organisations, `internal/server/org` | members, invitations | `Create`, `Invite`, `AcceptInvite` | check and use in separate steps |
| audit log, `internal/server/audit` | append-only entries | `Log`, `Query`, CSV export | - |
| binlog parser, `internal/parser` | table map, events of the file | `ParseFiles`, `Parse`, `ReverseSQLBatch` | files that break off; order of the undo statements |
| connector, `internal/connector` | none | `Preflight`, `GetBinlogFiles`, `ExecuteRollback` | batches that fail among others that rest on them |
| authentication, `internal/server/auth` | accounts by email | `Register`, the middleware's `ValidateToken` | tokens that outlive the accounts |
| preflight runner, `internal/rollback/preflight.go`; configuration; web console | - | no caller; parsing, I/O; rendering | - |

How they interact: a REST handler launches a goroutine that calls
`hub.SendToAgent`; the hub writes a command on the agent's connection and waits
on a channel that `readPump` fills; the client reads it and runs the handler *on
its reading goroutine*; `pitr_execute` runs the executor, writes a checkpoint
after each batch and pushes progress; the answer travels back. The hub's hooks
create and update the records of the agent registry, which the console's requests
approve and reject. On the database host the command line and `pitr_parse` share the
scan of `mysqlbinlog`'s text and the reverse SQL. `PROJECT.json` lists the hazards of each part.

## 2. Modules

| module | models | implements |
|---|---|---|
| `OpStates` | the operation states and `validTransitions` (`state.go`) | |
| `OperationPromise` | what polling shows: absent, busy, ready, over; never over to busy without a request | |
| `PitrServer` | the handlers and the two goroutines, one action per read or write of `op.State` | `OperationPromise` |
| `PitrServer_proofs` | theorems about `PitrServer` | |
| `CommandPromise` | a call is issued and is answered or fails, once | |
| `AgentHub` | `HandleConnection`, `readPump` with its deferred function, `SendToAgent`, `Close`, the hooks | `CommandPromise` |
| `AgentHub_proofs` | theorems about `AgentHub` | |
| `RollbackPromise` | a rollback is taken up once, takes effect in parts, in order, and is answered once | |
| `RollbackExecution` | dispatch, `handlePITRExecute`, executor, checkpoint file, crash and restart | `RollbackPromise` |
| `RollbackExecution_proofs` | theorems about `RollbackExecution` | |
| `AgentClient` | connection manager, `Close`, `SendCommand`, over the two locks | |
| `AgentClient_proofs` | theorems about `AgentClient` | |
| `Backoff` | `reconnect` and `nextBackoff` with the wrap of an `int64` | |
| `CertAuthority` | the root, the serials, `IsRevoked` and `Revoke` over the file, restarts | |
| `CertAuthority_proofs` | theorems about `CertAuthority` | |
| `BinlogParser` | `Parse`, `dispatch` and `ParseFiles` as functions of the files | |
| `Flashback` | log, text, row events, reverse SQL, preview, batches and the table, for the command line and `pitr_parse`; extends `BinlogParser` | |
| `Flashback_proofs` | theorems about the scan, the reverse SQL, its batches, the table they leave and the preview | |
| `SequenceFolds` | what follows by induction for a `FoldLeft` of any operator; instantiated by the two modules of proofs above that need it | |
| `Organisations` | accounts, members, invitations, each request in its locked steps | |
| `AgentRegistry` | agent records, requests and hooks; extends `Organisations` | |
| `AgentRegistry_proofs` | theorems about `AgentRegistry` and `Organisations` | |

`MC*` modules give the constants values. Operators named `X_Something`, each
after a comment `Mutation:`, are faulty variants of the definition `X` that
follows them; substituted for it they make a property fail. They are used nowhere.

### PitrServer
`opState` is `op.State`, `parsed` is `op.ParseRes # nil`, `reported` is
`op.ExecRes # nil`, `audit` the statuses recorded. `pc[o][w]` is where the
goroutine `w` is that works on `o`: `Run` (launched by `Start`) or an Execute
request. `tryTransition` is two actions, `TryRead` (handler.go:974) and
`TryWrite` (978), since nothing keeps another goroutine out between them; `Cancel`
is `CancelCheck`, `CancelWrite` and `CancelAudit` for the same reason. A call to
the agent is `Answer` or `Refusal` (error, offline, timeout). A torn read of the
string `State` can only make a guard fail, which is a `Refusal` of the guard the
model has anyway. The recovery from panics is left out: no statement of the two
goroutines panics.

### AgentHub
`registry` is `conns`; `hpc[c]` where the connection's handler is, from the
handshake to the deferred function, whose four steps (delete, close, drain, hook)
are four actions; `kpc[k]` where a caller is in `SendToAgent`, whose look-up,
insertion, write and wait are four actions; `chan[k]` is the caller's channel:
empty, filled or closed. The link can be lost at any time.

### RollbackExecution
Statements are `1 .. N` in the order of the reverse SQL; a batch is an interval.
`buildBatches` takes a statement per action, and so do `executeBatch` and the
transaction (`tx`). `applied[s]` counts how often MySQL has made statement `s`
durable. Every call to MySQL can fail with a retryable or another error; a commit
can succeed and its answer be lost. `atomicWrite` is `Truncate`, `Fill`,
`Rename`, each of which can fail, and the process can be killed between any two
actions. The minimum of the retry is the constant `MinBatch` (10 in the code).
The server sees of it what has taken effect (`Applied`), the answer (`Told`) and
whether the command waits, is at work or is over (`Life`); that is the refinement
mapping to `RollbackPromise`. A command is at work as long as `d.cancels` has it, and
one that dies with the process is over.

### AgentClient
`mpc`, `cpc`, `rpc` are the places of the connection manager, of `Close` and of
the renewal's `SendCommand`. `connMu` is held across actions by `Close` alone;
everybody else only needs it free. `writeMu` is held by whoever writes. Handlers
run on the manager's goroutine, which reads no pongs meanwhile: `ReadError` can end a
connection that is up.

### Backoff
Waits are counted in quarters of a second. `1 << attempt` seconds in nanoseconds
is reduced modulo 2^64 as the code's `time.Duration` is (`Clamped`, `Negative`,
`Vanishes`); `rand.Int63n` of a number that is not positive panics.

### CertAuthority
`cache` is `ca.revoked`, `disk` the JSON document (a missing file is the empty one),
`mu` the revoker that holds `FileStorage.mu`. `IsRevoked` is `CheckCache` (ca.go:243),
`Lookup` (the file, under the lock) and `Keep` (258), since Revoke may run between
them; a hit in the cache changes nothing. `Revoke` is `CacheRevoked`, `ReadDocument` and `WriteDocument`,
the last two one critical section. A write is one step, because a temporary file is
renamed into place. `Start` is what `New` does before anything else runs. `revoking`,
`promised` and `misread` are history. Nothing in the server calls `Revoke` yet; the
model holds for any caller.

### BinlogParser and Flashback
An event of a binlog is its kind, its second and what its payload says; a row is a key
and a value. `Statement`, `Truncate` and `Rotate` are the application and MySQL: they
change `rows`, append to `log`, and keep in `past` what the table was before each entry
(history). `Text` is what `mysqlbinlog --verbose` prints, a line of the model for a line
that the scan tells apart: the head of a row, a column, anything else. `Scan` is the loop
of flashback.go:335-391 over these lines. `StartCLI`, `Preflight`, `ListFiles`,
`ParseText`, `Undo`, `ExecuteBatch` and `FinishExecute` are `RunFlashback` in its order;
`StartDaemon`, `ParseText` and `Undo` are `handlePITRParse`, whose execution is
`RollbackExecution`. A batch is a transaction, one action: it commits as a whole or rolls
back. `Kill` can end the command line between two of them. The application writes until
the operation has ended, also between two batches.
`BinlogParser` is the library's own parser, which the program does not call in
production: the same logs are given to it, whole or broken off, in `LibraryFaithful`.

### Organisations and AgentRegistry
A request is in `call[p]`, from its first locked step to its last; what it looked up
before a lock was released it carries along (`user`, `org`, `code`, `agent`, `rec`). A
record is a pointer: `store[a]` is the map's, `heap[r]` what it says, `conn[c].rec` and
`call[p].rec` are pointers that hooks and requests still hold after the store's lock was
released. `Begin` is the token's check. `CheckAdmin` is `Get` and `ListMembers` in one
step, and `Approve` the mark and `Update` in one: nothing another step does can come
between and be told apart, since a record keeps its organisation and members are only
added (a record that others see marked before it is stored is the one they have already).
`hub[a]` and `conn[c].at` are a smaller `AgentHub`: connection, hook, registration gone,
hook. `drawn` are the identifiers drawn so far, none of which is drawn again; an agent
in it at the start has a certificate from before the server's start. The stores are in
memory, so that a restart of the server leads back to an initial state, and none is
modelled.

## 3. Runs

| run | module | properties | what it shows |
|---|---|---|---|
| `PitrServer` | `MCPitrServer` | `TypeOK`, `NoneStranded`, `ExecutePrecededByPreview`, `CompletedIsAudited`, `ImplementsPromise`, `WorkEnds` | Whatever the unlocked reads and writes of op.State interleave (two Execute and two Cancel requests at once): no operation is left in a working state with nobody at work, nothing is executed before its preview exists, a completed operation has its result and audit entry, the handlers implement OperationPromise, and every working state is left. |
| `AgentHub` | `MCAgentHub` | `TypeOK`, `NoCallerAbandoned`, `NoDanglingRegistration`, `ImplementsPromise`, `CallsEnd` | Over all interleavings of two connections of one agent, a caller with and one without a timeout, and Close: no caller is left waiting on a connection whose handler is gone, every registration will be removed by the connection that holds it, SendToAgent implements CommandPromise, and a call on a connection that is no longer up returns. |
| `RollbackExecution` | `MCRollbackExecution` | `TypeOK`, `BatchesPartition`, `BatchesWithinLimits`, `AppliedAtMostOnce`, `AppliedInOrder`, `CheckpointNotAhead`, `CheckpointReadable`, `ImplementsPromise`, `ExecutionEnds` | With errors at every MySQL and file call, lost commit answers and a crash at any point: batches partition the statements within the limits, each statement takes effect at most once and in order, the checkpoint is readable and never ahead, the executor implements RollbackPromise (the answer claims what was applied), and the halving of a failing batch ends. |
| `AgentClient` | `MCAgentClient` | `TypeOK`, `ConnectionsReleased`, `Redials`, `ClosingUnblocks` | The manager, Close and a waiting SendCommand over connMu and writeMu, three connections: no connection is left open after the shutdown, even one dialled while Close ran; a lost connection is dialled again; and a waiting caller returns once the client is closing. |
| `CertAuthority` | `MCCertAuthority` | `TypeOK`, `PromisedIsStored`, `RefusedWasRevoked`, `RootIsStored`, `CallsReturn` | A handshake and two revocations at a time, file operations that fail and a server that is killed and started again: a revocation that was promised is in the file and a running server signs with the root in it, unless a document was made anew after a failed read; nobody is refused whose serial was never revoked; every call returns. |
| `Flashback` | `MCFlashback` | `FlashbackTypeOK`, `EventsAreTheWindow`, `Undoes`, `Restored`, `LaterChangesSurvive`, `PreviewMirrors`, `LibraryFaithful` | From the application's statements through binary log, mysqlbinlog's text, row events, reverse SQL and batches back into the table, for the command line and the daemon, with a tool that breaks off, batches that fail, a killed process and an application that goes on writing: the events are the changes in the window, the reverse SQL undoes them, a row written later survives, the preview shows each event's own statement, and the parser in Go returns the same changes or says what it lost. |
| `AgentRegistry` | `MCAgentRegistry` | `TypeOK`, `JoinedByInvitation`, `ApprovedByAdmin`, `NoResurrection` | Two users, two organisations, two requests at a time and two connections of an agent, from a server that has just started, with certificates from before or without: membership comes only from creating the organisation or from an invitation of its admin, an approved record from an admin of its organisation or a certificate, and a record that was deleted does not come back although requests and hooks hold pointers to it. |

Bounds. *PitrServer*: operations share nothing but their agent's connection, so
one operation with two Execute and two Cancel requests meets every race there is
on its state. *AgentHub*: two connections of one agent (the old and the new one)
and two callers, one with a timeout. *RollbackExecution*: five statements of
lengths 1 and 3, batches of at most four statements and five bytes, and a minimum
of two, so that batches close by count and by length, the first can be retried at
half its size, a long statement stands alone, and an operation has up to five
batches; one crash, since a restarted agent runs nothing that a second crash
could interrupt. *AgentClient*: three connections, so that two can be lost.
*CertAuthority*: two revocations at a time can lose one, one handshake can race with
them, two client serials (the first is the server's) and two starts, so that a
revocation is looked up in the file by a server that did not make it.
*Flashback*: two keys; a value, NULL and the text 'NULL'; three row changes, as one
statement of two rows or several of one, with a trigger's row of another table or
without; two files; batches of one statement; a preview of two entries. Three changes are
the least that show an order, a row changed twice and a row of another statement between;
a batch size of one makes every undo cross batches (`InOneBatch` covers the others), and
the preview's limit of two lies below three. *AgentRegistry*: two organisations, two
users, two requests at a time, one invitation, one agent with two connections and two
records: two users meet on one invitation, two requests or a request and a hook on one
agent, and a record that was replaced is still in somebody's hand.
*Backoff*: at most 60 failures in a row; the counterexample needs 34.

Deadlock is checked in the runs of `PitrServer`. Elsewhere the system may stop:
the hub is closed and every call has returned, all commands have been handled, the client
is closed, the operation has ended, every record has been used, the bound on starts is
reached.

Fairness. Goroutines are scheduled, and each is given weak fairness on its own
steps, nothing else. In `PitrServer` a call to the agent returns: preflight, parse
and cancel carry timeouts, and execute ends with the agent's answer or with its
connection, which is what `CallsEnd` of `AgentHub` shows. Nothing is assumed of
users, of links, or of the agent's answers. In `RollbackExecution` MySQL's and
the file system's calls return and the service manager starts the process again.
In `CertAuthority` file operations return and whoever waits for `FileStorage.mu` gets it in the
end (a `sync.Mutex` hands itself to a goroutine that has waited for a millisecond).
In `AgentClient` there is no fairness on the network and none on signals.
`Flashback` and `AgentRegistry` state none: their properties are about what may never
happen.

## 4. Where the code departs from its documents

Runs that end in a counterexample, with the line that promises otherwise:

- `PitrServer_NoExecuteAfterCancel` (internal/server/pitr/handler.go:978): tryTransition reads op.State and writes it in two steps without a lock; a Cancel that is accepted, written and audited between them is overwritten with executing and pitr_execute is sent. openspec/changes/mysql-pitr-mvp/specs/web-console/spec.md:42-44 says a cancelled operation executes no SQL, and handler.go:971-972 that tryTransition returns false when another goroutine cancelled.
- `AgentHub_LiveIsConnected` (internal/ws/hub/hub.go:168): Delete removes the agent's entry whichever connection it holds: after a failed write deleted the entry and the agent reconnected, the old connection's readPump deletes the new registration. hub.go:93 says IsConnected reports whether the agent has an active connection.
- `RollbackExecution_RetryKeepsTheRest` (internal/rollback/executor.go:125): executeWithRetry returns after the first smaller prefix commits and Execute goes on with the next batch: the rest of the shrunken batch is never executed and the result shows no error. executor.go:29-33 says the remaining statements from the original batch are processed in subsequent batches.
- `AgentClient_CloseReturns` (internal/ws/agent/client.go:217): Close holds connMu while it waits for writeMu; SendCommand, Send and handleIncomingCommand hold writeMu while getConn waits for connMu. A Close that meets a sender deadlocks; client.go:207-208 says Close gracefully shuts down the client.
- `Backoff_KeepsRetrying` (internal/ws/agent/client.go:353): After 34 failures in a row 1<<attempt seconds overflows int64, the clamp lets the negative value pass and rand.Int63n panics; openspec/changes/mysql-pitr-agent/specs/agent-daemon/spec.md:25 says the agent retries until it reconnects.

Smaller divergences met while modelling, for which no run is kept:
- `failOperation` (handler.go:737) can overwrite a terminal state, which
  state.go:21-22 says has no transitions; and it makes no audit entry, where
  web-console/spec.md:51-52 asks for one with status failed.
- a confirmed operation can be cancelled and a parsing one cannot, against the
  comment handler.go:464-465.
- the late `Delete` and the hooks also allow two live connections of one agent
  (agent-communication/spec.md:32) and a connected agent marked offline (server.go:72).
- the checkpoint of a failed execution is marked complete (serve.go:422 against
  agent-rollback/spec.md:56), and a restarted agent reads no checkpoint
  (against agent-rollback/spec.md:18-20).
- `SendCommand` returns neither a response nor an error when the client is closed
  (client.go:164 against 126-127), `Done` does not wait for the goroutines (237
  against 241-242), and a renewal whose connection is lost waits for ever (163).
- `IsRevoked` caches what it read from the file even when `Revoke` has cached and
  stored the revocation meanwhile (ca.go:259), and caches "not revoked" when the file
  could not be read (storage.go:69): the certificate is accepted until the next
  start, against ca.go:228-229 and agent-communication/spec.md:46.
- a root and revocations are said to persist (server.go:48-49), but a read that fails
  makes `AddRevoked` write a document without the root and `StoreRootCA` one without the
  revocations (storage.go:54, 86).
- a command whose handler runs for more than 90 s, as an execution may, costs the agent its
  connection, though pongs arrive: the reading goroutine runs the handler and reads none
  (client.go:386-394, against agent-daemon/spec.md:29).
- the renewal assigns the certificate without a lock while the manager may be dialling with
  it (renewal.go:131): a race between two certificates that are both valid.
- the jitter comes after the clamp (client.go:359 against 346-347).
- an execution is not held back by a cancel: the command waits on the reading goroutine
  until the execution has ended (client.go:394), against the comment serve.go:330.
- after a batch that failed the next ones are still executed (mysql.go:280, as in the
  daemon), against agent-rollback/spec.md:7, and `RunFlashback` returns nil, whatever
  failed.
- the text 'NULL' in a column is taken for NULL (flashback.go:486), so that the reverse
  SQL of such a row restores, or looks for, another value. `Undoable` excludes it.
- a `mysqlbinlog` that fails after it has printed a row is taken for one that succeeded
  (flashback.go:393-401): the operation goes on with a part of the window, the last row
  of it perhaps without all its columns.
- the columns of a row of another table, as a trigger writes one in the same statement,
  are taken for columns of the target's row before it (flashback.go:345-386): no line
  ends that row. `OneTablePerStatement` excludes it.
- what the log holds as a statement and not as rows (TRUNCATE, or a session whose format is
  not ROW) is passed over in silence; the reverse SQL of what was before it does not fit
  the table.
- the reverse SQL names the table without its schema.
- `Preflight` passes although the check of the column metadata failed (mysql.go:311-374).
- the command line undoes what came *before* the recovery time, as README.md:93 has it;
  statements whose rows the application has changed later find none, in silence.
- `ParseFiles` keeps, without an error, what it has read of a file that breaks off and is
  not the last, and drops the events of the last one with its error, although its comment
  says that they are returned (parser.go:147-158).
- the library's events of a DELETE have their image in `After` and none in `Before`
  (rows_event.go:18-26 says otherwise), so that `ReverseSQL` fails on them; its window
  includes `EndTime`, which `--stop-datetime` excludes.
- two users can accept one invitation, which is deleted "so it cannot be reused" only when
  both have joined (org/handler.go:230). `JoinedByInvitation` holds nevertheless.
- an agent that was rejected is registered again as approved when it connects next
  (server.go:84-103), and one that connects to a server that has just started, before
  anybody has made an organisation, gets a record in organisation "" that nobody sees.
- `OnDisconnect` of an old connection can come after `OnConnect` of the new one and leave a
  connected agent offline; a record that `Approve` or a hook has looked up can replace,
  under the agent's id, one that a hook made in another organisation meanwhile.
- tokens outlive the accounts, which are in memory.

## 5. Proofs

`PitrServer_proofs` assumes of the constants only what `PitrServer` states (every
operation has an agent, `Run` is no Execute request). The invariants are not
inductive by themselves: a state is attended because of *where* its goroutine is, so
the inductive invariant `Inv` adds that an absent operation has no goroutine
(`AbsentIsQuiet`), that a goroutine past the preview has `ParseRes` (`ParsedBefore`),
and that a goroutine on its way from the completed state to the audit entry will
still report (`CompletedIsReported`). The delicate case is the write half of
`tryTransition`, which overwrites whatever was written since the read: the proof
shows that the overwriting goroutine itself attends the state it writes. The
refinement maps an operation to a phase by its state and by who is at work on it;
each step is a `Begin`, `Resume`, `Finish` or a stutter.

`RollbackExecution_proofs` holds for any number of statements, any lengths and
limits, any minimum of the retry and any number of crashes. Its invariant has three
layers, each inductive relative to those below it. *Control* says where the executor
is and how the batches lie: consecutive intervals from 1 (`Chained`), the one being
built beginning where the last one ended (`Building`), all statements covered before
the loop starts (`Built`), the retried size never zero and never longer than the
batch (`InLoop`), and a document renamed only when it is complete (`WriteInv`).
*Progress* says what MySQL has applied: nothing before the execution (`Untouched`),
then only statements before the batch at hand (`Frontier`); this makes a commit
apply fresh statements only, later than all applied ones, also when its answer is
lost. It needs that a commit whose answer is lost is not retried, which is so because
`executeWithRetry` retries MySQL errors only. *Record* relates
the checkpoint, the document being written and the answer to the applied statements:
a counted batch is touched (`Counted`), and rows are counted with each commit
(`Honest`, by the cardinality of the interval a commit adds). A crash keeps
all three, because what is lost is not spoken of and MySQL rolls back. Beside them
`Limited` follows `buildBatches`: the bytes it counts for the batch being built are those of
its statements, which is an induction over the statements (`SequenceFolds`).
The refinement (`PromiseKept`) puts the layers together: a commit that takes effect is a
part behind what is applied (`Progress`) of at most `BatchSize` (`Limited`), the answer
follows from `Honest`, and a command once taken up is never pending again
(`Untouched`). It adds that the operation is in `d.cancels` exactly while the goroutine
is at work (`Serving`); and it needs that the absent answer, `None`, is no answer, which
`ExecAssumption` says. `NeverOverclaims` states what the promise says of the answer for every
later state.

`CertAuthority_proofs` holds for any number of callers, serials and starts. Its
invariant adds to the properties that a writer holds `FileStorage.mu` and its document
is the file as it is (`WriterHolds`), that what a call has read or will add was given to
`Revoke` (`Justified`), and that nothing runs in a server that is down (`DownIsQuiet`).

`AgentHub_proofs` holds for any number of agents, connections and calls. A caller may
add itself to a table that has been drained already, so that `NoCallerAbandoned` is not
inductive: the invariant adds that a connection is closed before its table is drained
(`LinkOK`), that until then a call which waits is in the table (`PendingOK`), and that after
it a call can no longer write and so does not begin to wait. A connection that was refused
has no callers, because only registered ones are loaded (`LoadedOK`, `RegistrationOK`). For
the refinement, `DeliveryOK` follows a command: on one connection at most, performed once,
answered after that. Without the closing in `CloseConn` the proof of `LinkOK` fails, as the
mutant of the run does.

`AgentClient_proofs` holds for any number of connections. An open connection is the
current one or was just dialled (`OpenIsOwned`); the manager lets go only of a closed one
(`ForgetsClosed`).

`AgentRegistry_proofs` holds for any number of users, organisations, requests, agents,
records and connections. `CallOK` says what a request still knows when it takes its next
step, although others have run since it looked: its user is still an admin of the
organisation, because memberships only grow (`Grows`, `AdminStays`), and the record it has in
hand is still in that organisation, because only a record that nobody has in hand is made
anew (`RecordsStay`). `RecordOK` and `MemberOK` hold of every record and member, in the store
or not. `Frame` gives each action what it leaves alone, so that a proof of an action speaks
of what it changes.

`SequenceFolds` is about `FoldLeft` of any operator. The library defines a fold by
recursion over sets of indices; from that, and the well-founded order of the naturals,
the module proves that a fold over nothing is its base, one over `Append(s, e)` is one
step more, one over `s \o t` the fold of `t` from that of `s`, and an induction over sets
of naturals. An `INSTANCE` of it gives these facts for an operator of the model. This is
how what the models compute with folds is proved for every input, although a theorem
that takes a property as a parameter cannot be cited.

`Flashback_proofs` holds for any keys, values, batch size, limit of the preview and
number of changes. Its first theorems are about the operators: what one reverse statement
does to a table (`UndoesChange`), what the preview pairs (`PreviewIsMirrored`), where the
batches cut (`InOneBatch`, arithmetic of `\div`). The properties of the specification rest
on `FlashbackInv`:

- `LogOK`: every row entry is a change of the table before it, `past` holds the tables in
  between, times do not go back, and the last entry of a statement ends it. That a commit keeps this is
  an induction over its changes.
- `Operation`: the files, events, statements and batches of each state of the program.
- `FromTheWindow`: the events are those of the window, as far as the log went when the
  tool read it. Its proof is the one of the scanner: after the lines of an entry,
  `ScanLine` has collected the row changes so far, but for the last one, which stays open
  until a line ends it (`Reached`, `EntryRead`, `ScansAll`); of a text that breaks off anywhere,
  also within an entry, the scan is a beginning whose last event alone may be cut
  (`ScansPart`). Without `OneTablePerStatement` it is false, because the header of the next
  table does not end the rows of the one before it.
- `MadeBySql`: what the log has of the operation was made by a statement of the reverse
  SQL that found the row. A change of the log cannot be told from its image alone.
- `Replayed`: while nobody else writes, and no batch fails, the batches up to `tried` are one run of
  their statements from the table the tool has seen the end of; `Undoes` speaks of such a run,
  `Restored` of the table that the batches have left.

`Undoes` is an induction over the length of the window: the first statement of
`ReverseSQLBatch` undoes the last entry, and what follows it undoes the window without that
entry. `LaterChangesSurvive` follows from `MadeBySql`: between a write of the application
and the next write to its row the row does not change (`ChangeSurvives`), and a statement
that found it would have had its image as an after image. The invariants were checked with
TLC on the instance of the run before they were proved.

`LibraryFaithful` compares two computations on the same log: the parser's nested folds,
over the files and over the events of each, and a definition that only says which entries
are sought. The proof goes inside out. A row is logged as its table map and itself, at one time,
so that a window that has the row has the table map too (`RowParsed`): a row that is sought
is never taken for one of an unknown table. Over the entries of a file, an event after
EndTime ends the loop, and loses nothing because times do not go back (`EntriesParsed`,
from `InOrder`). What is read first stays at the beginning (`PartParsed`), so that a file that
breaks off gives a beginning of its rows (`PartOfFileParsed`). Over the files, `FilesParsed`
follows the three ways it can go: all whole so far, given up with an error, or one cut. That
the rows of one file after the other are the rows of the log in its order needs that
the files only go up along the log (`SplitFiles`), which is an invariant of its own (`Filed`).
The theorem holds in every state, also where the log has entries of the operation; the run
evaluates the property while the operation is idle, because it is slow.

All theorems rest on the assumptions that the modules state of their constants (`ASSUME`),
which TLC evaluates in the runs; these say that `None` and its like are no members of
the sets beside them, that limits are positive, and that agents are assigned.


| module | theorem | establishes |
|---|---|---|
| `PitrServer_proofs` | `TypeCorrect` (`TypeOK`) | The type invariant, for any number of operations, agents and requests. |
| `PitrServer_proofs` | `NeverStranded` (`NoneStranded`) | No operation stays in a working state without a goroutine that will leave it, whatever the unlocked checks and writes interleave. |
| `PitrServer_proofs` | `NeverBlind` (`ExecutePrecededByPreview`) | Nothing is executed before its preview exists, although the state is published before ParseRes. |
| `PitrServer_proofs` | `CompletionAudited` (`CompletedIsAudited`) | Every operation whose execution was recorded has its result and audit entry. |
| `PitrServer_proofs` | `PromiseKept` (`ImplementsPromise`) | PitrServer implements OperationPromise: every step of a handler is a step of the promise or a stutter. |
| `RollbackExecution_proofs` | `TypeCorrect` (`TypeOK`) | The type invariant, for any reverse SQL, limits, minimum of the retry and number of crashes. |
| `RollbackExecution_proofs` | `BatchesArePartition` (`BatchesPartition`) | However the statements fall into batches, every statement is in exactly one and the order is kept. |
| `RollbackExecution_proofs` | `NeverTwice` (`AppliedAtMostOnce`) | No statement is made durable twice, whatever fails, is retried at half the size, or crashes. |
| `RollbackExecution_proofs` | `InOrder` (`AppliedInOrder`) | Nothing is applied before a statement that a commit has already applied: the reverse SQL takes effect in its order. |
| `RollbackExecution_proofs` | `NeverAhead` (`CheckpointNotAhead`) | The checkpoint never counts a batch of which nothing is committed, in every state a crash can leave. |
| `RollbackExecution_proofs` | `AlwaysReadable` (`CheckpointReadable`) | The checkpoint file is always a complete document, whichever file operation fails or is cut off by a crash. |
| `RollbackExecution_proofs` | `NeverOverclaims` | In every state after it is given, the answer claims no more rows than MySQL has applied, and without an error exactly those. |
| `RollbackExecution_proofs` | `PromiseKept` (`ImplementsPromise`) | RollbackExecution implements RollbackPromise: what takes effect does so in parts of at most a batch, in order and before the one answer, which is exact unless it reports an error. |
| `RollbackExecution_proofs` | `KeepsTheLimits` (`BatchesWithinLimits`) | For any reverse SQL and limits, no batch has more statements than BatchSize, and none of two or more statements is longer in bytes than MaxBatchBytes. |
| `CertAuthority_proofs` | `TypeCorrect` (`TypeOK`) | The type invariant, for any number of callers, serials and starts. |
| `CertAuthority_proofs` | `RevocationsKept` (`PromisedIsStored`) | A revocation that was promised is in the file through crashes and concurrent revocations, unless a document was made anew after a failed read. |
| `CertAuthority_proofs` | `NoneRefusedByMistake` (`RefusedWasRevoked`) | No serial is refused, from the cache or from the file, that was never given to Revoke. |
| `CertAuthority_proofs` | `RootKept` (`RootIsStored`) | A running server signs with the root it will find again, under the same condition on reads. |
| `AgentHub_proofs` | `TypeCorrect` (`TypeOK`) | The type invariant, for any number of agents, connections and calls. |
| `AgentHub_proofs` | `NoneAbandoned` (`NoCallerAbandoned`) | No call waits with an open channel on a connection whose handler has ended, although it may add its entry after the drain; it is the order of closing and draining that the invariant needs. |
| `AgentHub_proofs` | `NeverLockedOut` (`NoDanglingRegistration`) | A registration belongs to a connection of its agent whose handler will still remove it, whoever else deletes or replaces it. |
| `AgentHub_proofs` | `PromiseKept` (`ImplementsPromise`) | AgentHub implements CommandPromise: a call returns once, answered only if performed, and nothing is performed twice. |
| `AgentClient_proofs` | `TypeCorrect` (`TypeOK`) | The type invariant, for any number of connections: no lock is held by anyone but its users. |
| `AgentClient_proofs` | `NothingLeftOpen` (`ConnectionsReleased`) | When Close has returned and the manager is gone, no connection is open, not even one dialled while Close ran. |
| `AgentRegistry_proofs` | `TypeCorrect` (`TypeOK`) | The type invariant, for any number of users, organisations, requests, agents, records and connections: a hook that is about to write a status has a record. |
| `AgentRegistry_proofs` | `MembersInvited` (`JoinedByInvitation`) | Nobody is in an organisation twice, and whoever did not create it came by an invitation of one of its admins, however look-up, membership and deletion of the invitation interleave. |
| `AgentRegistry_proofs` | `AdminsApprove` (`ApprovedByAdmin`) | An approved record was approved by an admin of the organisation it is in or made for a certificate, although Approve works on a record it looked up before. |
| `AgentRegistry_proofs` | `RejectedStayGone` (`NoResurrection`) | No request or hook brings back a record that was deleted: where the store has none, only a new one appears. |
| `Flashback_proofs` | `UndoesChange` | For every table, key and value but the text 'NULL': the reverse statement of a change, run where the change was made, succeeds, finds that row alone and restores the table. |
| `Flashback_proofs` | `PreviewIsMirrored` | For every sequence of events and every limit, entry i of Preview is event i with its own reverse statement: the step Undo makes of PreviewMirrors. |
| `Flashback_proofs` | `InOneBatch` | For every number of statements and batch size, each statement is in one batch, at its place, and no batch exceeds the size. |
| `Flashback_proofs` | `FlashbackTypeCorrect` (`FlashbackTypeOK`) | The type invariant, for any keys, values, batch size and limits: the log is as long as the tables it goes through, what failed was tried, and the preview stays within its limit. |
| `Flashback_proofs` | `PreviewAlwaysMirrors` (`PreviewMirrors`) | Whatever was scanned, entry i of the preview that the daemon answers is event i with its own reverse statement. |
| `Flashback_proofs` | `EventsAreAlwaysTheWindow` (`EventsAreTheWindow`) | The line scanner returns the row changes of the target in the window, images and order included, for any log of statements that keep to one table, and of a text that breaks off a beginning whose last event alone may differ. |
| `Flashback_proofs` | `AlwaysUndoes` (`Undoes`) | For any log: the reverse SQL, run on the table the tool has seen the end of, has no failing statement and gives the table before the window, when the window is the rest of the log, holds only row changes and none of them the text 'NULL'. |
| `Flashback_proofs` | `AlwaysRestored` (`Restored`) | The command that ends without a failed batch, on a table nobody wrote to since the parse, has restored it, in however many batches. |
| `Flashback_proofs` | `LaterChangesAlwaysSurvive` (`LaterChangesSurvive`) | A row that the application wrote after the tool read the log is not touched by the reverse SQL, unless it is again what some change of the window had made of it: the WHERE clause finds the after image only. |
| `Flashback_proofs` | `LibraryAlwaysFaithful` (`LibraryFaithful`) | The parser in Go returns the changes of the target from StartTime to EndTime in the order of the log, for any log, any number of files and any options, and wherever one of the files breaks off: what it loses is the rest of that file, or all of it and an error if it is the last. |

Every invariant that a passing run checks is a theorem. Only model-checked: liveness and
everything that involves fairness or ENABLED, which are out of the prover's reach, and the
refutations (what is false needs no proof).

## 6. Not modelled

Read-only handlers (List, Get, Status, Preview, Progress, ListMembers); the heartbeats and
the progress notifications, which change no state the properties speak of (the goroutine
that pings a connection goes on until the client is closed, one for every connection the
agent has had); panics;
`Login` and `Refresh`, which hand out tokens and keep nothing; the contents of tokens,
passwords and certificates; the audit query and its CSV. `RemoveMember`
(org/store.go), `ParseBinlog` and the foreign-key ordering `topoSort` (connector),
and `PreflightRunner` (rollback/preflight.go) have no caller outside tests. The decoding
of columns (rows_event.go) and the formatting of values (sql.go) are functions of bytes:
a value comes out of the model as it went in, but for the text 'NULL'. MySQL is what
the models of `Flashback` and `RollbackExecution` say of it. The web console polls the REST
API. A restart of the server clears its in-memory stores: no operation is left to say
anything about, and for the registry it is an initial state.

## 7. Plan

What is modelled came in the order of its weight: the operations of the server, the
execution on the agent, the hub and the client between them, the certificate authority,
the way from the binary log to the reverse SQL and back into the table, the registry and
the organisations. What could follow: `CertAuthority` and `AgentRegistry` composed, so that
an agent that was rejected and revoked is followed through the handshake; the progress feed
(`SetProgressHandler`) and the goroutines that ping, with the bound on their number that the
code lacks; the restart of the server under operations in progress, once operations are
stored; and `topoSort` and the audit query against reference definitions, once the first has
a caller.

