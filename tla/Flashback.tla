------------------------------- MODULE Flashback -------------------------------
(***************************************************************************)
(* From the binary log to reverse SQL and back into the table: `agent      *)
(* flashback` (cmd/agent/flashback.go) and the daemon's pitr_parse         *)
(* (cmd/agent/serve.go) through mysqlbinlog's text, parser.ReverseSQLBatch *)
(* and MySQLConnector.ExecuteRollback, while the application goes on       *)
(* writing to the table.                                                   *)
(***************************************************************************)
EXTENDS BinlogParser, FiniteSets

CONSTANTS Keys, Values,  \* of the target table: a key column and a value column
          Null,          \* the NULL among Values
          TextNull,      \* the text 'NULL'
          Absent,        \* no row under a key
          Initial,       \* the tables a binary log can begin with
          MaxChanges,    \* row changes of the application
          MaxFiles,      \* binlog files
          BatchSize,     \* --batch-size
          PreviewCap     \* the 1000 entries of the preview

ASSUME FlashbackAssumption ==
  /\ Null \in Values /\ Absent \notin Values
  /\ Initial \subseteq [Keys -> Values \cup {Absent}]
  /\ {MaxChanges, MaxFiles, BatchSize, PreviewCap} \subseteq Nat \ {0}
  /\ Cardinality(Tables) > 1

VARIABLES
  \* MySQL: the target table, its binary log, the table before each entry of the log
  \* and now, the binlog file in use.
  rows, log, past, file,
  \* The operation: how far RunFlashback or handlePITRParse is, its mode, the window
  \* [start, stop) in seconds (0: none) and the files to parse.
  pc, mode, start, stop, files,
  \* How much of the log the tool found, whether it ended well, the row events.
  seen, toolOk, events,
  \* The reverse SQL, the batches tried, those of them that failed, the daemon's preview.
  sqls, tried, failed, preview

server  == <<rows, log, past, file>>
request == <<mode, start, stop>>
parsed  == <<seen, toolOk, events>>
result  == <<sqls, tried, failed, preview>>
vars    == <<server, pc, request, files, parsed, result>>

-----------------------------------------------------------------------------
(* MySQL and its binary log.                                                *)

\* A row of another table, as a trigger writes one.
OtherRow == [table |-> CHOOSE t \in Tables : t # Target, type |-> "INSERT",
             key |-> Null, before |-> Absent, after |-> Null]

ChangeType(before, after) ==
  IF before = Absent THEN "INSERT" ELSE IF after = Absent THEN "DELETE" ELSE "UPDATE"

Change(table, k, w) == [table |-> Target, type |-> ChangeType(table[k], w), key |-> k,
                        before |-> table[k], after |-> w]

Write(table, c) == IF c.table = Target THEN [table EXCEPT ![c.key] = c.after] ELSE table

\* The row changes one statement of the application can make, in their order.
Statements ==
  LET one == {c \in {Change(rows, k, w) : k \in Keys, w \in Values \cup {Absent}} :
                c.before # c.after}
      two == {p \in one \X one : p[1].key # p[2].key /\ p[1].type = p[2].type}
  IN {<<OtherRow>>} \cup {<<c>> : c \in one} \cup {<<c, OtherRow>> : c \in one}
       \cup {<<p[1], p[2]>> : p \in two}

Clock == IF log = <<>> THEN 0 ELSE Last(log).ts

\* What the changes of one second leave in the log: ends is STMT_END_F, by is the writer.
Entries(changes, by) ==
  [i \in DOMAIN changes |-> [kind |-> "rows", change |-> changes[i], ts |-> Clock + 1,
                             ends |-> by = "undo" \/ i = Len(changes),
                             file |-> file, by |-> by]]

\* The tables one after the other.
Apply(tables, c) == Append(tables, Write(Last(tables), c))

Commit(changes, by) ==
  LET tables == FoldLeft(Apply, <<rows>>, changes)
  IN /\ rows' = Last(tables)
     /\ log' = log \o Entries(changes, by)
     /\ past' = past \o Tail(tables)
     /\ UNCHANGED file

\* The row changes of the application are bounded.  What it does after the operation, or
\* once the daemon has parsed, is of no interest to it.
MayWrite(n) ==
  /\ pc \notin {"done", "failed"} /\ ~(mode = "daemon" /\ pc = "reverse")
  /\ Cardinality({i \in DOMAIN log : log[i].by = "app"}) + n <= MaxChanges

Statement ==
  /\ \E changes \in Statements : MayWrite(Len(changes)) /\ Commit(changes, "app")
  /\ UNCHANGED <<pc, request, files, parsed, result>>

\* A change the log holds as a statement and not as rows: TRUNCATE, or a session whose
\* binlog_format is not ROW.
Truncate ==
  /\ MayWrite(1) /\ \E k \in Keys : rows[k] # Absent
  /\ rows' = [k \in Keys |-> Absent]
  /\ log' = Append(log, [kind |-> "query", ts |-> Clock + 1, ends |-> TRUE, file |-> file,
                         by |-> "app"])
  /\ past' = Append(past, rows')
  /\ UNCHANGED <<file, pc, request, files, parsed, result>>

Rotate ==
  /\ pc \notin {"done", "failed"} /\ file < MaxFiles /\ log # <<>> /\ Last(log).file = file
  /\ file' = file + 1
  /\ UNCHANGED <<rows, log, past, pc, request, files, parsed, result>>

-----------------------------------------------------------------------------
(* mysqlbinlog --base64-output=DECODE-ROWS --verbose.                       *)

\* --start-datetime takes the events from that second on, --stop-datetime ends before.
InWindow(e) == e.file \in files /\ e.ts >= start /\ (stop = 0 \/ e.ts < stop)

HeadLine(table, type) == [is |-> "head", table |-> table, type |-> type]

Column(v) == [is |-> "column", value |-> v]

Gap == [is |-> "gap"]

Image(k, v) == <<k, v>>

\* A line of ### for the row, one for every column of its images; after the last row
\* of a statement, lines of something else.
RowLines(c) ==
  LET columns == (IF c.type = "INSERT" THEN <<>> ELSE Image(c.key, c.before))
                   \o (IF c.type = "DELETE" THEN <<>> ELSE Image(c.key, c.after))
  IN <<HeadLine(c.table, c.type)>> \o [i \in DOMAIN columns |-> Column(columns[i])]

EntryLines(e) ==
  (IF e.kind = "rows" THEN RowLines(e.change) ELSE <<>>) \o (IF e.ends THEN <<Gap>> ELSE <<>>)

Text(entries) ==
  FlattenSeq([i \in DOMAIN entries |-> IF InWindow(entries[i]) THEN EntryLines(entries[i]) ELSE <<>>])

-----------------------------------------------------------------------------
(* parseBinlogWithMySQLBinlog.                                              *)

\* The text 'NULL' is taken for a NULL.
ParseColumnValue(v) == IF v = TextNull THEN Null ELSE v

\* The column values of an UPDATE are its two images if they are even in number.
MakeRowEvent(type, values) ==
  LET half == Len(values) \div 2
  IN CASE type = "DELETE" -> RowEvent(type, values, NoImage)
       [] type = "INSERT" -> RowEvent(type, NoImage, values)
       [] type = "UPDATE" ->
            IF Len(values) % 2 = 0
            THEN RowEvent(type, SubSeq(values, 1, half), SubSeq(values, half + 1, 2 * half))
            ELSE RowEvent(type, NoImage, NoImage)

Flush(s) == IF s.inRow THEN Append(s.events, MakeRowEvent(s.type, s.values)) ELSE s.events

\* Mutation: a row that follows another at once does not end it.
ScanLine_NoFlush(s, line) ==
  CASE line.is = "head" /\ line.table = Target ->
         [inRow |-> TRUE, type |-> line.type, values |-> <<>>, events |-> s.events]
    [] line.is = "column" /\ s.inRow ->
         [s EXCEPT !.values = Append(@, ParseColumnValue(line.value))]
    [] line.is = "gap" /\ s.inRow ->
         [s EXCEPT !.inRow = FALSE, !.values = <<>>, !.events = Flush(s)]
    [] OTHER -> s

\* A head line of the target begins a row and ends the one before it; that of another
\* table does neither, so that its columns go to the row of the target.
ScanLine(s, line) ==
  CASE line.is = "head" /\ line.table = Target ->
         [inRow |-> TRUE, type |-> line.type, values |-> <<>>, events |-> Flush(s)]
    [] line.is = "column" /\ s.inRow ->
         [s EXCEPT !.values = Append(@, ParseColumnValue(line.value))]
    [] line.is = "gap" /\ s.inRow ->
         [s EXCEPT !.inRow = FALSE, !.values = <<>>, !.events = Flush(s)]
    [] OTHER -> s

Scan(lines) ==
  LET s == FoldLeft(ScanLine, [inRow |-> FALSE, type |-> "", values |-> <<>>, events |-> <<>>],
                    lines)
  IN IF s.values # <<>> THEN Flush(s) ELSE s.events

-----------------------------------------------------------------------------
(* parser.ReverseSQL.  A statement is [op, set, where] of images.           *)

\* The images ReverseSQL needs; a WHERE clause needs a column.
Reversible(e) ==
  CASE e.type = "INSERT" -> e.after \notin {NoImage, <<>>}
    [] e.type = "DELETE" -> e.before # NoImage
    [] e.type = "UPDATE" -> e.before # NoImage /\ e.after \notin {NoImage, <<>>}

\* Mutation: the row is found by its key alone.
ReverseSQL_KeyOnly(e) ==
  CASE e.type = "INSERT" -> [op |-> "DELETE", set |-> <<>>, where |-> SubSeq(e.after, 1, 1)]
    [] e.type = "DELETE" -> [op |-> "INSERT", set |-> e.before, where |-> <<>>]
    [] e.type = "UPDATE" -> [op |-> "UPDATE", set |-> e.before, where |-> SubSeq(e.after, 1, 1)]

\* Every column of the image is in the WHERE clause (pkColumns is nil).
ReverseSQL(e) ==
  CASE e.type = "INSERT" -> [op |-> "DELETE", set |-> <<>>, where |-> e.after]
    [] e.type = "DELETE" -> [op |-> "INSERT", set |-> e.before, where |-> <<>>]
    [] e.type = "UPDATE" -> [op |-> "UPDATE", set |-> e.before, where |-> e.after]

\* Mutation: in the order of the events.
ReverseSQLBatch_Fifo(evs) == [i \in DOMAIN evs |-> ReverseSQL(evs[i])]

\* Newest first.
ReverseSQLBatch(evs) == [i \in DOMAIN evs |-> ReverseSQL(evs[Len(evs) + 1 - i])]

-----------------------------------------------------------------------------
(* MySQLConnector.ExecuteRollback.                                          *)

\* A column the table does not have fails the statement.
Known(img) == Len(img) <= 2

Matches(table, img, k) ==
  table[k] # Absent /\ img[1] = k /\ (Len(img) = 2 => img[2] = table[k])

\* The keys a statement of the reverse SQL finds, and what it writes there.
Found(table, s) == IF s.op = "INSERT" THEN {k \in Keys : k = s.set[1]}
                   ELSE {k \in Keys : Matches(table, s.where, k)}

Written(s) == IF s.op = "DELETE" THEN Absent ELSE IF Len(s.set) = 2 THEN s.set[2] ELSE Null

StatementOk(table, s) ==
  /\ Known(s.set) /\ Known(s.where)
  /\ s.op = "INSERT" => \A k \in Found(table, s) : table[k] = Absent

\* One statement after the other until one fails; no row found is no error.
RunStatement(t, s) ==
  LET changes == {c \in {Change(t.table, k, Written(s)) : k \in Found(t.table, s)} :
                    c.before # c.after}
  IN IF ~t.ok \/ ~StatementOk(t.table, s) THEN [t EXCEPT !.ok = FALSE]
     ELSE IF changes = {} THEN t
     ELSE LET c == CHOOSE x \in changes : TRUE
          IN [t EXCEPT !.table = Write(@, c), !.changes = Append(@, c)]

RunBatch(table, batch) ==
  FoldLeft(RunStatement, [table |-> table, changes |-> <<>>, ok |-> TRUE], batch)

Batches == (Len(sqls) + BatchSize - 1) \div BatchSize

Batch(n) == SubSeq(sqls, (n - 1) * BatchSize + 1,
                   IF n * BatchSize < Len(sqls) THEN n * BatchSize ELSE Len(sqls))

\* Mutation: the error of a batch is dropped.
ExecuteBatch_Silent ==
  /\ pc = "execute" /\ tried < Batches
  /\ tried' = tried + 1
  /\ LET t == RunBatch(rows, Batch(tried'))
     IN (t.ok /\ Commit(t.changes, "undo")) \/ UNCHANGED server
  /\ UNCHANGED <<pc, request, files, parsed, sqls, failed, preview>>

\* executeBatch in a transaction, which rolls back if a statement of it, its beginning or
\* its commit fails.  The error is kept and the loop goes on to the next batch.
ExecuteBatch ==
  /\ pc = "execute" /\ tried < Batches
  /\ tried' = tried + 1
  /\ LET t == RunBatch(rows, Batch(tried'))
     IN \/ t.ok /\ Commit(t.changes, "undo") /\ UNCHANGED failed
        \/ failed' = failed \cup {tried'} /\ UNCHANGED server
  /\ UNCHANGED <<pc, request, files, parsed, sqls, preview>>

\* RunFlashback returns nil, whatever failed.
FinishExecute ==
  /\ pc = "execute" /\ tried = Batches
  /\ pc' = "done"
  /\ UNCHANGED <<server, request, files, parsed, result>>

-----------------------------------------------------------------------------
(* RunFlashback and handlePITRParse.                                        *)

Fail == pc' = "failed"

\* RunFlashback: --recovery-time is the stop of the window, which has no start.
StartCLI ==
  /\ pc = "idle"
  /\ mode' = "cli"
  /\ start' = 0 /\ stop' \in 1..Clock + 2
  /\ pc' = "preflight"
  /\ UNCHANGED <<server, files, parsed, result>>

\* GetBinlogFiles: SHOW BINARY LOGS.
BinlogFiles == 1..file

\* handlePITRParse: both ends of the window are optional, and so is the list of files.
StartDaemon ==
  /\ pc = "idle"
  /\ mode' = "daemon"
  /\ start' \in {0} \cup 2..Clock /\ stop' \in {0} \cup start' + 1..Clock + 1
  /\ \/ pc' = "parse" /\ files' \in {BinlogFiles} \cup {{f} : f \in 1..file}
     \/ Fail /\ UNCHANGED files
  /\ UNCHANGED <<server, parsed, result>>

\* What each check can come to, in the order of Preflight.
CheckResults == [version : {"pass", "fail"}, format : {"pass", "fail"},
                 logBin : {"pass", "fail"}, privileges : {"pass", "warn", "fail"},
                 size : {"pass", "warn"}, columns : {"pass", "warn", "fail"},
                 foreignKeys : {"pass", "warn"}]

\* The sixth check can fail without failing the preflight.
PreflightStatus(checks) ==
  IF "fail" \in {checks.version, checks.format, checks.logBin, checks.privileges}
  THEN "fail" ELSE "pass"

Preflight ==
  /\ pc = "preflight"
  /\ \E checks \in CheckResults :
       IF PreflightStatus(checks) = "fail" THEN Fail ELSE pc' = "list"
  /\ UNCHANGED <<server, request, files, parsed, result>>

\* The files, all of them, and the directory they are in.
ListFiles ==
  /\ pc = "list"
  /\ \/ files' = BinlogFiles /\ pc' = "parse"
     \/ Fail /\ UNCHANGED files
  /\ UNCHANGED <<server, request, parsed, result>>

\* A tool that fails has written any part of its text.  That is an error only if no
\* event comes of it; no event at all is an error of the command line and an empty
\* answer of the daemon.
ParseText ==
  /\ pc = "parse"
  /\ seen' = Len(log)
  /\ LET lines == Text(log)
     IN \/ toolOk' = TRUE /\ events' = Scan(lines)
        \/ toolOk' = FALSE /\ \E n \in 0..Len(lines) : events' = Scan(SubSeq(lines, 1, n))
  /\ IF events' # <<>> THEN pc' = "reverse"
     ELSE IF toolOk' /\ mode = "daemon" THEN pc' = "done" ELSE Fail
  /\ UNCHANGED <<server, request, files, result>>

\* Mutation: entry i shows the i-th statement of the reverse SQL.
Preview_Straight(evs, stmts) ==
  [i \in 1..(IF Len(stmts) > PreviewCap THEN PreviewCap ELSE Len(stmts)) |->
     [sequence |-> i, sqlType |-> evs[i].type, reverseSql |-> stmts[i]]]

\* Mutation: no limit.
Preview_Unbounded(evs, stmts) ==
  [i \in DOMAIN stmts |->
     [sequence |-> i, sqlType |-> evs[i].type, reverseSql |-> stmts[Len(stmts) + 1 - i]]]

\* The oldest events first, each with its own statement of the reversed batch.
Preview(evs, stmts) ==
  [i \in 1..(IF Len(stmts) > PreviewCap THEN PreviewCap ELSE Len(stmts)) |->
     [sequence |-> i, sqlType |-> evs[i].type, reverseSql |-> stmts[Len(stmts) + 1 - i]]]

\* ReverseSQLBatch and what the mode does with its statements: writeSQLToFile can fail.
Undo ==
  /\ pc = "reverse"
  /\ IF \E i \in DOMAIN events : ~Reversible(events[i]) THEN Fail /\ UNCHANGED <<sqls, preview>>
     ELSE /\ sqls' = ReverseSQLBatch(events)
          /\ preview' = IF mode = "daemon" THEN Preview(events, sqls') ELSE preview
          /\ \/ pc' = "done"
             \/ mode = "cli" /\ (pc' = "execute" \/ Fail)
  /\ UNCHANGED <<server, request, files, parsed, tried, failed>>

\* The process is killed: the transaction in progress rolls back.
Kill ==
  /\ pc = "execute" /\ Fail
  /\ UNCHANGED <<server, request, files, parsed, result>>

Init ==
  /\ rows \in Initial /\ past = <<rows>> /\ log = <<>> /\ file = 1
  /\ pc = "idle" /\ mode = "none" /\ start = 0 /\ stop = 0 /\ files = {}
  /\ seen = 0 /\ toolOk = TRUE /\ events = <<>>
  /\ sqls = <<>> /\ tried = 0 /\ failed = {} /\ preview = <<>>

Next ==
  \/ Statement \/ Truncate \/ Rotate
  \/ StartCLI \/ StartDaemon \/ Preflight \/ ListFiles \/ ParseText \/ Undo
  \/ ExecuteBatch \/ FinishExecute \/ Kill

Spec == Init /\ [][Next]_vars

-----------------------------------------------------------------------------
(* What the properties speak of.                                            *)

\* A row change of the target that the tool was asked for.
Asked(e) == InWindow(e) /\ e.kind = "rows" /\ e.change.table = Target

AsEvent(c) ==
  LET image(w) == IF w = Absent THEN NoImage ELSE <<ParseColumnValue(c.key), ParseColumnValue(w)>>
  IN RowEvent(c.type, image(c.before), image(c.after))

\* Its row events, up to the end of what the tool found.
Expected == FlattenSeq([i \in 1..seen |-> IF Asked(log[i]) THEN <<AsEvent(log[i].change)>> ELSE <<>>])

\* No statement of the window writes both tables: the text does not tell such rows apart.
OneTablePerStatement ==
  \A i \in 1..seen : InWindow(log[i]) /\ ~log[i].ends => log[i + 1].change.table = Target

\* The window has every change up to the end of what the tool found from its first one
\* on, all of them logged as rows, and no text 'NULL' among them.
Undoable ==
  /\ toolOk /\ OneTablePerStatement
  /\ \A i \in 1..seen : log[i].ts >= start => InWindow(log[i]) /\ log[i].kind = "rows"
  /\ \A i \in 1..seen : Asked(log[i]) =>
       LET c == log[i].change IN TextNull \notin {c.key, c.before, c.after}

\* The table before the first change of the window.
Before == past[Cardinality({i \in 1..seen : log[i].ts < start}) + 1]

FlashbackTypeOK ==
  /\ rows \in [Keys -> Values \cup {Absent}] /\ Len(past) = Len(log) + 1 /\ Last(past) = rows
  /\ pc \in {"idle", "preflight", "list", "parse", "reverse", "execute", "done", "failed"}
  /\ mode \in {"none", "cli", "daemon"} /\ files \subseteq 1..file /\ seen \in 0..Len(log)
  /\ tried \in 0..Batches /\ failed \subseteq 1..tried
  /\ Len(preview) <= PreviewCap /\ (sqls # <<>> => Len(sqls) = Len(events))

\* The row events are the row changes of the target in the window, each with its images,
\* in their order; of a tool that failed they are a beginning, whose last one may be cut.
\* (The scan of mysqlbinlog's text against the log the text was made of.)
EventsAreTheWindow ==
  (pc = "reverse" /\ OneTablePerStatement) =>
    IF toolOk THEN events = Expected
    ELSE /\ Len(events) <= Len(Expected)
         /\ \A i \in 1..Len(events) - 1 : events[i] = Expected[i]

\* Applied to the table the tool has seen the end of, the reverse SQL gives the table
\* before the window, and no statement of it fails (ReverseSQLBatch: "applying them in
\* reverse-chronological order restores the table to the state before the whole batch").
Undoes ==
  (sqls # <<>> /\ tried = 0 /\ Undoable) =>
    LET t == RunBatch(past[seen + 1], sqls) IN t.ok /\ t.table = Before

\* The command line at its end, if no batch failed and the application left the table
\* alone: the table is what it was before the window, whatever the batches.
Restored ==
  (pc = "done" /\ mode = "cli" /\ tried > 0 /\ failed = {} /\ Undoable
     /\ \A i \in seen + 1..Len(log) : log[i].by = "undo") => rows = Before

\* A row the application has written after the tool read the log stays as it was written,
\* unless it is again what some change of the window had made of it: the WHERE clause of
\* a statement names every column of the after image.
LaterChangesSurvive ==
  (toolOk /\ OneTablePerStatement /\ pc \in {"execute", "done"}) =>
    \A i \in seen + 1..Len(log) :
      LET c == log[i].change IN
      (/\ log[i].by = "app" /\ log[i].kind = "rows" /\ c.table = Target /\ c.after # Absent
       /\ \A j \in DOMAIN events : events[j].after # <<c.key, c.after>>) =>
         \A j \in i + 1..Len(log) : log[j].by = "undo" /\ log[j].change.key = c.key =>
           \E n \in i + 1..j - 1 : log[n].by = "app" /\ (log[n].kind = "rows" => log[n].change.key = c.key)

\* Entry i of the daemon's preview shows the reverse SQL of the i-th event, in the order
\* of the events, up to its limit (serve.go: "the reverse SQL for Events[i] lives at the
\* mirrored index").
PreviewMirrors ==
  preview # <<>> =>
    /\ \A i \in DOMAIN preview : /\ preview[i].sqlType = events[i].type
                                /\ preview[i].reverseSql = ReverseSQL(events[i])
    /\ Len(preview) = PreviewCap \/ Len(preview) = Len(events)

-----------------------------------------------------------------------------
(* The same log through the parser in Go.                                   *)

BinlogEvent(kind, ts, c) ==
  [kind |-> kind, ts |-> ts, table |-> c.table, type |-> c.type,
   before |-> <<c.key, c.before>>, after |-> <<c.key, c.after>>]

\* A row is logged as its table map and itself, a statement as its text.
EntryEvents(e) ==
  IF e.kind = "query" THEN <<BinlogEvent("query", e.ts, OtherRow)>>
  ELSE <<BinlogEvent("tableMap", e.ts, e.change), BinlogEvent("rows", e.ts, e.change)>>

\* The events of file f: the format description it begins with, then what was logged.
FileEvents(f) ==
  <<BinlogEvent("format", 0, OtherRow)>>
    \o FlattenSeq([i \in DOMAIN log |-> IF log[i].file = f THEN EntryEvents(log[i]) ELSE <<>>])

\* File f as ReadEvent delivers it, which an error ends after n events if it is broken,
\* and which cannot even be opened if n is 0.
BinlogFile(f, broken, n) ==
  [events |-> IF f = broken THEN SubSeq(FileEvents(f), 1, n) ELSE FileEvents(f),
   broken |-> f = broken, opens |-> f # broken \/ n > 0]

\* What convertToRowEvents makes of a change, and of those of the target from start to end.
LibraryEvent(c) ==
  CASE c.type = "UPDATE" -> RowEvent(c.type, <<c.key, c.before>>, <<c.key, c.after>>)
    [] c.type = "INSERT" -> RowEvent(c.type, NoImage, <<c.key, c.after>>)
    [] c.type = "DELETE" -> RowEvent(c.type, NoImage, <<c.key, c.before>>)

Sought(e, opts) == e.kind = "rows" /\ e.change.table = Target /\ e.ts \in opts.start..opts.end

LibraryEvents(opts, fs) ==
  FlattenSeq([i \in DOMAIN log |-> IF log[i].file \in fs /\ Sought(log[i], opts)
                                   THEN <<LibraryEvent(log[i].change)>> ELSE <<>>])

\* ParseFiles returns the changes of the target from StartTime to EndTime, in order.  A
\* file that breaks off loses the rest of itself, with an error only if it is the last
\* one and the window had not ended before; then it loses all of itself.  A file that
\* cannot be opened ends the whole with an error.
LibraryFaithful ==
  pc = "idle" =>
    \A opts \in [start : 0..Clock, end : 1..Clock + 1], broken \in 0..file :
      \A n \in 0..Len(FileEvents(broken)) :
        LET r == ParseFiles([f \in 1..file |-> BinlogFile(f, broken, n)], opts)
            before == LibraryEvents(opts, 1..broken - 1)
            after  == LibraryEvents(opts, broken + 1..file)
        IN IF broken = 0 THEN ~r.err /\ r.events = LibraryEvents(opts, 1..file)
           ELSE IF r.err \/ n = 0
                THEN r.err /\ (broken = file \/ n = 0) /\ r.events = before
           ELSE LET part == SubSeq(r.events, Len(before) + 1, Len(r.events) - Len(after))
                IN /\ r.events = before \o part \o after
                   /\ IsPrefix(part, LibraryEvents(opts, {broken}))

================================================================================
