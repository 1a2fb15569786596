------------------------------ MODULE BinlogParser ------------------------------
(***************************************************************************)
(* The binlog parser in Go (internal/parser): ReadEvent, Parse, dispatch   *)
(* and ParseFiles, as functions of the files.  An event is a record of its *)
(* kind, its timestamp and what its payload says; the decoding of columns  *)
(* is left out, an image is the sequence of a row's column values.         *)
(***************************************************************************)
EXTENDS Naturals, Sequences, SequencesExt

CONSTANTS Target,    \* ParseOptions.TargetTable
          Tables,    \* the tables of the server, which stand for their ids too
          NoImage    \* a nil map

ASSUME TargetAssumption == Target \in Tables

\* A row as a rows event carries it: [before, after].  The parser of a DELETE puts
\* the image into After, like that of an INSERT.
RowData(type, before, after) ==
  IF type = "UPDATE" THEN [before |-> before, after |-> after]
  ELSE [before |-> NoImage, after |-> IF type = "DELETE" THEN before ELSE after]

RowEvent(type, before, after) == [type |-> type, before |-> before, after |-> after]

\* What the parser keeps of a file: p.opts, the table maps it has met, p.events,
\* p.ddlEvents, and whether an event after EndTime has ended the loop.
Reading(opts) ==
  [opts |-> opts, mapped |-> {}, events |-> <<>>, ddl |-> <<>>, stopped |-> FALSE]

\* convertToRowEvents: a table without a table map has no name and passes no filter.
Convert(s, e) ==
  IF e.table = Target /\ e.table \in s.mapped
  THEN LET r == RowData(e.type, e.before, e.after)
       IN [s EXCEPT !.events = Append(@, RowEvent(e.type, r.before, r.after))]
  ELSE s

Dispatch(s, e) ==
  CASE e.kind = "tableMap" -> [s EXCEPT !.mapped = @ \cup {e.table}]
    [] e.kind = "rows"     -> Convert(s, e)
    [] e.kind = "query"    -> [s EXCEPT !.ddl = Append(@, e.ts)]
    [] OTHER               -> s

\* One turn of Parse: the format description is read whatever its time, and the first
\* event after EndTime ends the file.
ParseEvent(s, e) ==
  IF s.stopped \/ (e.ts < s.opts.start /\ e.kind # "format") THEN s
  ELSE IF e.ts > s.opts.end THEN [s EXCEPT !.stopped = TRUE]
  ELSE Dispatch(s, e)

\* A file is what ReadEvent delivers before it reports the end of the file or, if the
\* file is broken, an error: a checksum that does not match, a body cut short.
Parse(opts, file) ==
  LET s == FoldLeft(ParseEvent, Reading(opts), file.events)
  IN [events |-> s.events, ddl |-> s.ddl, err |-> file.broken /\ ~s.stopped]

\* Mutation: what was read of the last file before the error is returned with it.
ParseNext_Partial(acc, next) ==
  IF acc.err THEN acc
  ELSE IF ~next.file.opens THEN [acc EXCEPT !.err = TRUE]
  ELSE LET p == Parse(next.opts, next.file)
       IN [events |-> acc.events \o p.events, ddl |-> acc.ddl \o p.ddl,
           err |-> p.err /\ next.last]

\* One turn of ParseFiles.  An error in the last file is returned and its events are
\* dropped; in an earlier one it ends that file only, and nobody hears of it.
ParseNext(acc, next) ==
  IF acc.err THEN acc
  ELSE IF ~next.file.opens THEN [acc EXCEPT !.err = TRUE]
  ELSE LET p    == Parse(next.opts, next.file)
           lost == p.err /\ next.last
       IN [events |-> IF lost THEN acc.events ELSE acc.events \o p.events,
           ddl |-> acc.ddl \o p.ddl, err |-> lost]

\* The files one after the other, up to one that cannot be opened.
ParseFiles(files, opts) ==
  FoldLeft(ParseNext, [events |-> <<>>, ddl |-> <<>>, err |-> FALSE],
           [i \in DOMAIN files |-> [file |-> files[i], opts |-> opts, last |-> i = Len(files)]])

==============================================================================
