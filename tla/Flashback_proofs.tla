---------------------------- MODULE Flashback_proofs ----------------------------
(***************************************************************************)
(* Proofs about Flashback, for any keys, values, batch size, limit of      *)
(* the preview and number of changes.                                      *)
(*                                                                         *)
(* The first theorems are about the operators: what one reverse            *)
(* statement undoes, what the preview pairs, how the statements lie in     *)
(* batches. Those at the end are about the specification, and rest on      *)
(* one invariant: LogOK (every row entry of the log is a change of the     *)
(* table before it), Operation (where the operation is, and what it        *)
(* keeps), FromTheWindow (what the scan found), MadeBySql (which           *)
(* statement made a change that the log has of the operation), Replayed    *)
(* (the batches that were tried are one run of their statements).          *)
(*                                                                         *)
(* The model scans the text, runs the statements and applies the changes   *)
(* with folds. Running, Scanning and Applying are instances of             *)
(* SequenceFolds, which has the induction that the lemmas about a fold     *)
(* are proved by; so are Parser and PerFile, with which the last section   *)
(* proves that the parser in Go reads the rows of the log: entry by entry  *)
(* (EntryParsed), the entries of one file (EntriesParsed), file after file *)
(* (FilesParsed). Filed, that the log lies in its files in order, is what  *)
(* that needs besides LogOK.                                               *)
(***************************************************************************)
EXTENDS Flashback, FiniteSetTheorems, TLAPS

Table == [Keys -> Values \cup {Absent}]

\* What ExecuteRollback starts a batch with.
Fresh(table) == [table |-> table, changes |-> <<>>, ok |-> TRUE]

USE FlashbackAssumption

-----------------------------------------------------------------------------
(* One change and its reverse statement.                                    *)

\* A statement that finds one row, and changes it, writes that row.
LEMMA RunsOne ==
  ASSUME NEW table, NEW s, NEW k \in Keys, StatementOk(table, s),
         Found(table, s) = {k}, Written(s) # table[k]
  PROVE  RunStatement(Fresh(table), s).ok
         /\ RunStatement(Fresh(table), s).table = [table EXCEPT ![k] = Written(s)]
<1> DEFINE c == Change(table, k, Written(s))
           changes == {x \in {Change(table, j, Written(s)) : j \in Found(table, s)} :
                         x.before # x.after}
<1>1. c.before = table[k] /\ c.after = Written(s) /\ c.key = k /\ c.table = Target
  BY DEF Change
<1>2. changes = {c}
  BY <1>1
<1>3. (CHOOSE x \in changes : TRUE) = c
  <2> HIDE DEF c, changes
  <2> QED BY <1>2
<1>4. RunStatement(Fresh(table), s)
        = [Fresh(table) EXCEPT !.table = Write(@, c), !.changes = Append(@, c)]
  BY <1>2, <1>3 DEF RunStatement, Fresh
<1>5. Write(table, c) = [table EXCEPT ![k] = Written(s)]
  BY <1>1 DEF Write
<1> HIDE DEF c
<1> QED
  BY <1>4, <1>5 DEF Fresh

\* The events of a change that holds no text 'NULL' carry its images unchanged.
LEMMA Images ==
  ASSUME NEW table \in Table, NEW k \in Keys, NEW w \in Values \cup {Absent},
         TextNull \notin {k, table[k], w}
  PROVE  LET e == AsEvent(Change(table, k, w)) IN
         /\ e.type = ChangeType(table[k], w)
         /\ table[k] # Absent => e.before = <<k, table[k]>>
         /\ w # Absent => e.after = <<k, w>>
BY DEF AsEvent, Change, RowEvent, ParseColumnValue

\* The reverse statement of a row change, applied where the change has been made, finds
\* that row and no other and makes it what it was before (reverse.go: INSERT to DELETE,
\* DELETE to INSERT, UPDATE to an UPDATE that finds the row by its after image).
THEOREM UndoesChange ==
  ASSUME NEW table \in Table, NEW k \in Keys, NEW w \in Values \cup {Absent},
         w # table[k], TextNull \notin {k, table[k], w}
  PROVE  LET c == Change(table, k, w)
             t == RunStatement(Fresh(Write(table, c)), ReverseSQL(AsEvent(c)))
         IN t.ok /\ t.table = table
<1> DEFINE c == Change(table, k, w)
           e == AsEvent(c)
           s == ReverseSQL(e)
           after == [table EXCEPT ![k] = w]
<1>1. Write(table, c) = after
  BY DEF Write, Change
<1>2. /\ e.type = ChangeType(table[k], w)
      /\ table[k] # Absent => e.before = <<k, table[k]>>
      /\ w # Absent => e.after = <<k, w>>
  BY Images
<1>3. /\ after \in Table /\ after[k] = w /\ table \in Table
      /\ \A j \in Keys : j # k => after[j] = table[j]
      /\ [after EXCEPT ![k] = table[k]] = table
  BY DEF Table
<1>4. StatementOk(after, s) /\ Found(after, s) = {k} /\ Written(s) = table[k]
  <2> HIDE DEF c, e, after
  <2>1. CASE table[k] = Absent
    <3>1. s = [op |-> "DELETE", set |-> <<>>, where |-> <<k, w>>] /\ w # Absent
      BY <1>2, <2>1 DEF ReverseSQL, ChangeType
    <3>2. \A j \in Keys : Matches(after, <<k, w>>, j) <=> j = k
      BY <1>3, <3>1 DEF Matches
    <3> HIDE DEF s
    <3> QED BY <2>1, <3>1, <3>2 DEF StatementOk, Known, Found, Written
  <2>2. CASE table[k] # Absent /\ w = Absent
    <3>1. s = [op |-> "INSERT", set |-> <<k, table[k]>>, where |-> <<>>]
      BY <1>2, <2>2 DEF ReverseSQL, ChangeType
    <3>2. Found(after, s) = {k}
      BY <3>1 DEF Found
    <3> HIDE DEF s
    <3> QED BY <1>3, <2>2, <3>1, <3>2 DEF StatementOk, Known, Written
  <2>3. CASE table[k] # Absent /\ w # Absent
    <3>1. s = [op |-> "UPDATE", set |-> <<k, table[k]>>, where |-> <<k, w>>]
      BY <1>2, <2>3 DEF ReverseSQL, ChangeType
    <3>2. \A j \in Keys : Matches(after, <<k, w>>, j) <=> j = k
      BY <1>3, <2>3 DEF Matches
    <3> HIDE DEF s
    <3> QED BY <2>3, <3>1, <3>2 DEF StatementOk, Known, Found, Written
  <2> QED
    BY <2>1, <2>2, <2>3
<1>5. Written(s) # after[k]
  <2> HIDE DEF s, after
  <2> QED BY <1>3, <1>4
<1>6. RunStatement(Fresh(after), s).ok /\ RunStatement(Fresh(after), s).table = table
  <2> HIDE DEF s, after
  <2> QED BY <1>3, <1>4, <1>5, RunsOne
<1>7. RunStatement(Fresh(Write(table, c)), s).ok
      /\ RunStatement(Fresh(Write(table, c)), s).table = table
  <2> HIDE DEF c, s, after
  <2> QED BY <1>1, <1>6
<1> QED
  BY <1>7, Zenon

-----------------------------------------------------------------------------
(* The order of the statements.                                             *)

\* ReverseSQLBatch makes one statement of every event, that of the newest event first
\* (reverse.go: "reverse chronological order").
LEMMA NewestFirst ==
  ASSUME NEW S, NEW evs \in Seq(S)
  PROVE  /\ DOMAIN ReverseSQLBatch(evs) = 1..Len(evs)
         /\ Len(ReverseSQLBatch(evs)) = Len(evs)
         /\ \A i \in 1..Len(evs) : ReverseSQLBatch(evs)[Len(evs) + 1 - i] = ReverseSQL(evs[i])
<1> DEFINE n == Len(evs)
<1>1. n \in Nat /\ DOMAIN evs = 1..n
  OBVIOUS
<1>2. DOMAIN ReverseSQLBatch(evs) = 1..n
  BY <1>1 DEF ReverseSQLBatch
<1>3. Len(ReverseSQLBatch(evs)) = n
  <2>1. ReverseSQLBatch(evs) = [i \in 1..n |-> ReverseSQL(evs[n + 1 - i])]
    BY <1>1 DEF ReverseSQLBatch
  <2> HIDE DEF n
  <2> QED BY <1>1, <2>1
<1>4. \A i \in 1..n : n + 1 - i \in 1..n /\ n + 1 - (n + 1 - i) = i
  <2> HIDE DEF n
  <2> QED BY <1>1
<1>5. \A i \in 1..n : ReverseSQLBatch(evs)[n + 1 - i] = ReverseSQL(evs[i])
  BY <1>1, <1>4 DEF ReverseSQLBatch
<1> QED
  BY <1>2, <1>3, <1>5

\* Whatever the limit, entry i of the preview shows the i-th event with its own statement,
\* and nothing is missing but what is past the limit (serve.go).
THEOREM PreviewIsMirrored ==
  ASSUME NEW S, NEW evs \in Seq(S)
  PROVE  LET p == Preview(evs, ReverseSQLBatch(evs))
             n == IF Len(evs) > PreviewCap THEN PreviewCap ELSE Len(evs)
         IN /\ DOMAIN p = 1..n
            /\ \A i \in 1..n : /\ p[i].sqlType = evs[i].type
                               /\ p[i].reverseSql = ReverseSQL(evs[i])
<1> DEFINE n == IF Len(evs) > PreviewCap THEN PreviewCap ELSE Len(evs)
<1>1. Len(evs) \in Nat /\ PreviewCap \in Nat
  OBVIOUS
<1>2. \A i \in 1..n : i \in 1..Len(evs)
  BY <1>1
<1>3. Preview(evs, ReverseSQLBatch(evs))
        = [i \in 1..n |-> [sequence |-> i, sqlType |-> evs[i].type,
                           reverseSql |-> ReverseSQLBatch(evs)[Len(evs) + 1 - i]]]
  BY NewestFirst DEF Preview
<1> HIDE DEF n
<1>4. \A i \in 1..n : ReverseSQLBatch(evs)[Len(evs) + 1 - i] = ReverseSQL(evs[i])
  BY <1>2, NewestFirst
<1> QED
  BY <1>3, <1>4 DEF n

-----------------------------------------------------------------------------
(* The batches of ExecuteRollback.                                          *)

\* Division with a remainder.
LEMMA Divide ==
  ASSUME NEW x \in Nat, NEW b \in Nat \ {0}
  PROVE  /\ x \div b \in Nat
         /\ (x \div b) * b <= x /\ x < (x \div b) * b + b
OBVIOUS

\* A multiple of the batch size is one more batch.
LEMMA NextMultiple ==
  ASSUME NEW m \in Int, NEW n \in Int, NEW b \in Nat \ {0}, m < n
  PROVE  m * b + b <= n * b
OBVIOUS

\* The batches of ExecuteRollback cut the statements into pieces that follow each other:
\* statement i is in the batch it falls in by its number, and in no other, and no batch
\* exceeds the batch size (mysql.go).
THEOREM InOneBatch ==
  ASSUME NEW S, sqls \in Seq(S), NEW i \in 1..Len(sqls)
  PROVE  /\ (i - 1) \div BatchSize + 1 \in 1..Batches
         /\ \A n \in 1..Batches :
              LET first == (n - 1) * BatchSize + 1 IN
              /\ Len(Batch(n)) <= BatchSize
              /\ i \in first..first + Len(Batch(n)) - 1 <=> n = (i - 1) \div BatchSize + 1
              /\ n = (i - 1) \div BatchSize + 1 => Batch(n)[i - first + 1] = sqls[i]
<1> DEFINE b == BatchSize
           l == Len(sqls)
           q == (i - 1) \div b
<1>1. b \in Nat \ {0} /\ l \in Nat /\ i \in 1..l
  OBVIOUS
<1>2. q \in Nat /\ q * b <= i - 1 /\ i - 1 < q * b + b
  <2>1. i - 1 \in Nat
    BY <1>1
  <2> HIDE DEF b, l
  <2> QED BY <1>1, <2>1, Divide
<1>3. Batches \in Nat /\ Batches * b <= l + b - 1 /\ l + b - 1 < Batches * b + b
  <2>1. l + b - 1 \in Nat
    BY <1>1
  <2>2. Batches = (l + b - 1) \div b
    BY DEF Batches
  <2> HIDE DEF b, l
  <2> QED BY <1>1, <2>1, <2>2, Divide
<1> HIDE DEF q
<1>4. q + 1 \in 1..Batches
  <2> SUFFICES ASSUME Batches <= q PROVE FALSE
    BY <1>2, <1>3
  <2>1. Batches * b <= q * b
    <3> HIDE DEF b, l
    <3>1. CASE Batches = q
      BY <1>1, <1>2, <3>1
    <3>2. CASE Batches < q
      <4>1. Batches * b + b <= q * b
        BY <1>1, <1>2, <1>3, <3>2, NextMultiple
      <4> QED
        BY <1>1, <1>2, <1>3, <4>1
    <3> QED
      BY <1>2, <1>3, <3>1, <3>2
  <2> HIDE DEF b, l
  <2>2. Batches * b \in Int /\ q * b \in Int
    BY <1>1, <1>2, <1>3
  <2> QED
    BY <1>1, <1>2, <1>3, <2>1, <2>2
<1>5. ASSUME NEW n \in 1..Batches
      PROVE  LET first == (n - 1) * b + 1 IN
             /\ Len(Batch(n)) <= b
             /\ i \in first..first + Len(Batch(n)) - 1 <=> n = q + 1
             /\ n = q + 1 => Batch(n)[i - first + 1] = sqls[i]
  <2> DEFINE lo == (n - 1) * b
             hi == IF n * b < l THEN n * b ELSE l
  <2>1. lo \in Nat /\ n * b \in Nat /\ n * b = lo + b
    <3> HIDE DEF b
    <3> QED BY <1>1, <1>3
  <2>2. lo <= l - 1
    <3>1. n * b <= Batches * b
      <4> HIDE DEF b
      <4>1. CASE n < Batches
        <5>1. n * b + b <= Batches * b
          BY <1>1, <1>3, <4>1, NextMultiple
        <5> HIDE DEF lo
        <5> QED BY <1>1, <1>3, <2>1, <5>1
      <4>2. CASE n = Batches
        BY <1>1, <1>3, <4>2
      <4> QED
        BY <1>3, <4>1, <4>2
    <3>2. Batches * b \in Nat
      <4> HIDE DEF b
      <4> QED BY <1>1, <1>3
    <3> HIDE DEF b, l, lo
    <3> QED BY <1>1, <1>3, <2>1, <3>1, <3>2
  <2>3. hi \in lo + 1..l /\ hi <= lo + b
    <3> HIDE DEF b, l, lo
    <3> QED BY <1>1, <2>1, <2>2
  <2>4. Batch(n) = SubSeq(sqls, lo + 1, hi)
    BY DEF Batch
  <2>5. /\ Len(Batch(n)) = hi - lo
        /\ \A j \in 1..hi - lo : Batch(n)[j] = sqls[lo + j]
    <3> HIDE DEF b, lo, hi
    <3> QED BY <1>1, <2>1, <2>3, <2>4
  <2>6. i \in lo + 1..hi <=> n = q + 1
    <3>1. i \in lo + 1..hi <=> lo < i /\ i <= lo + b
      <4> HIDE DEF b, l, lo
      <4> QED BY <1>1, <2>1, <2>2
    <3>2. n - 1 = q => q * b = lo
      OBVIOUS
    <3>3. n - 1 < q => lo + b <= q * b
      <4> HIDE DEF b
      <4> QED BY <1>1, <1>2, <1>3, NextMultiple
    <3>4. q < n - 1 => q * b + b <= lo
      <4> HIDE DEF b
      <4> QED BY <1>1, <1>2, <1>3, NextMultiple
    <3>5. q * b \in Nat
      <4> HIDE DEF b
      <4> QED BY <1>1, <1>2
    <3> HIDE DEF b, l, lo, hi
    <3> QED BY <1>1, <1>2, <1>3, <2>1, <3>1, <3>2, <3>3, <3>4, <3>5
  <2>7. n = q + 1 => Batch(n)[i - lo] = sqls[i]
    <3> HIDE DEF b, l, lo, hi
    <3> QED BY <1>1, <2>1, <2>3, <2>5, <2>6
  <2>8. /\ lo + 1 + Len(Batch(n)) - 1 = hi /\ Len(Batch(n)) <= b /\ i - (lo + 1) + 1 = i - lo
    <3> HIDE DEF b, l, lo, hi
    <3> QED BY <1>1, <2>1, <2>3, <2>5
  <2> HIDE DEF b
  <2> QED
    BY <2>6, <2>7, <2>8
<1> QED
  BY <1>4, <1>5 DEF q

-----------------------------------------------------------------------------
(* Concatenations.                                                          *)

HIDE FlashbackAssumption

Running  == INSTANCE SequenceFolds WITH Op <- RunStatement
Scanning == INSTANCE SequenceFolds WITH Op <- ScanLine
Applying == INSTANCE SequenceFolds WITH Op <- Apply

LEMMA SameSequence ==
  ASSUME NEW S, NEW u \in Seq(S), NEW v \in Seq(S), Len(u) = Len(v),
         \A i \in 1..Len(u) : u[i] = v[i]
  PROVE  u = v
OBVIOUS

LEMMA AppendOne ==
  ASSUME NEW S, NEW u \in Seq(S), NEW x \in S
  PROVE  u \o <<x>> = Append(u, x)
OBVIOUS

LEMMA PairIs ==
  ASSUME NEW S, NEW s \in Seq(S), NEW i \in Nat \ {0}, i + 1 <= Len(s)
  PROVE  /\ SubSeq(s, i, i + 1) \in Seq(S) /\ Len(SubSeq(s, i, i + 1)) = 2
         /\ SubSeq(s, i, i + 1)[1] = s[i] /\ SubSeq(s, i, i + 1)[2] = s[i + 1]
<1> DEFINE j == i + 1
           q == SubSeq(s, i, j)
<1>1. j \in Nat /\ i <= j + 1 /\ j <= Len(s) /\ j + 1 - i = 2
  OBVIOUS
<1>2. i + 1 - 1 = i /\ i + 2 - 1 = j
  OBVIOUS
<1> HIDE DEF j
<1>3. q \in Seq(S) /\ Len(q) = 2 /\ \A m \in 1..2 : q[m] = s[i + m - 1]
  BY <1>1
<1> HIDE DEF q
<1>4. q[1] = s[i] /\ q[2] = s[j]
  <2>1. 1 \in 1..2 /\ 2 \in 1..2
    OBVIOUS
  <2> QED BY <1>2, <1>3, <2>1
<1> QED BY <1>3, <1>4 DEF q, j

\* What stays of a sequence that only grows.
Extends(u, v) == Len(u) <= Len(v) /\ \A i \in 1..Len(u) : v[i] = u[i]

LEMMA Joined ==
  ASSUME NEW S, NEW u \in Seq(S), NEW v \in Seq(S)
  PROVE  /\ u \o v \in Seq(S) /\ Len(u) \in Nat /\ Len(v) \in Nat /\ Len(u \o v) = Len(u) + Len(v)
         /\ Extends(u, u \o v)
         /\ \A i \in 1..Len(v) : (u \o v)[Len(u) + i] = v[i]
         /\ \A j \in 1..Len(u \o v) : j \in 1..Len(u) \/ \E i \in 1..Len(v) : j = Len(u) + i
<1>1. /\ u \o v \in Seq(S) /\ Len(u) \in Nat /\ Len(v) \in Nat /\ Len(u \o v) = Len(u) + Len(v)
      /\ \A i \in 1..Len(u) : (u \o v)[i] = u[i]
      /\ \A i \in 1..Len(v) : (u \o v)[Len(u) + i] = v[i]
  OBVIOUS
<1>2. ASSUME NEW j \in 1..Len(u) + Len(v), j \notin 1..Len(u)
      PROVE  \E i \in 1..Len(v) : j = Len(u) + i
  <2>1. j - Len(u) \in 1..Len(v) /\ j = Len(u) + (j - Len(u))
    BY <1>1, <1>2
  <2> QED BY <2>1
<1>3. Extends(u, u \o v)
  BY <1>1 DEF Extends
<1>4. \A j \in 1..Len(u \o v) : j \in 1..Len(u) \/ \E i \in 1..Len(v) : j = Len(u) + i
  BY <1>1, <1>2, Zenon
<1> QED BY <1>1, <1>3, <1>4, Zenon

\* f is the concatenation of ss so far, after each of its sequences.
Flattens(f, ss) == f[0] = <<>> /\ \A i \in 1..Len(ss) : f[i] = f[i - 1] \o ss[i]

\* The recursion of FlattenSeq.
Recurs(h, ss, n) == h = [i \in 1..n |-> IF i = 1 THEN ss[i] ELSE h[i - 1] \o ss[i]]

LEMMA RecursExists == ASSUME NEW ss, NEW n \in Nat PROVE \E h : Recurs(h, ss, n)
<1> DEFINE T == {m \in Nat : \E h : Recurs(h, ss, m)}
<1>1. 0 \in T
  <2>1. 1..0 = {}
    OBVIOUS
  <2>2. Recurs(<<>>, ss, 0)
    BY <2>1 DEF Recurs
  <2> QED BY <2>2
<1>2. ASSUME NEW m \in Nat, m \in T PROVE m + 1 \in T
  <2>1. PICK h : Recurs(h, ss, m)
    BY <1>2
  <2> DEFINE next == IF m + 1 = 1 THEN ss[m + 1] ELSE h[m] \o ss[m + 1]
             g == [i \in 1..m + 1 |-> IF i = m + 1 THEN next ELSE h[i]]
  <2>2. \A i \in 1..m : h[i] = IF i = 1 THEN ss[i] ELSE h[i - 1] \o ss[i]
    BY <2>1 DEF Recurs
  <2>3. g[m + 1] = next /\ \A i \in 1..m : g[i] = h[i]
    <3> HIDE DEF next
    <3> QED OBVIOUS
  <2>4. ASSUME NEW i \in 1..m + 1
        PROVE  g[i] = IF i = 1 THEN ss[i] ELSE g[i - 1] \o ss[i]
    <3>1. i = m + 1 \/ i \in 1..m
      OBVIOUS
    <3>2. i # 1 => i - 1 \in 1..m
      OBVIOUS
    <3> HIDE DEF g
    <3> QED BY <2>2, <2>3, <3>1, <3>2
  <2>5. Recurs(g, ss, m + 1)
    <3>1. g = [i \in 1..m + 1 |-> g[i]]
      OBVIOUS
    <3> HIDE DEF g
    <3> QED BY <2>4, <3>1 DEF Recurs
  <2> QED BY <2>5
<1>3. n \in T
  <2> HIDE DEF T
  <2> QED BY <1>1, <1>2, Running!SetInduction
<1> QED BY <1>3

LEMMA FlattenedParts ==
  ASSUME NEW S, NEW ss \in Seq(Seq(S)), NEW f, Flattens(f, ss)
  PROVE  \A i \in 0..Len(ss) : f[i] \in Seq(S)
<1> DEFINE n == Len(ss)
           T == {i \in Nat : i <= n => f[i] \in Seq(S)}
<1>1. n \in Nat /\ \A i \in 1..n : ss[i] \in Seq(S)
  OBVIOUS
<1>2. 0 \in T
  <2>1. <<>> \in Seq(S) /\ f[0] = <<>>
    BY DEF Flattens
  <2> QED BY <2>1
<1>3. ASSUME NEW i \in Nat, i \in T PROVE i + 1 \in T
  <2> SUFFICES ASSUME i + 1 <= n PROVE f[i + 1] \in Seq(S)
    OBVIOUS
  <2> DEFINE j == i + 1
  <2>1. j \in 1..n /\ j - 1 = i /\ f[i] \in Seq(S)
    BY <1>1, <1>3
  <2> HIDE DEF j
  <2>2. f[j] = f[j - 1] \o ss[j]
    BY <2>1 DEF Flattens
  <2>3. f[j] \in Seq(S)
    BY <1>1, <2>1, <2>2
  <2> QED BY <2>3 DEF j
<1>4. Nat \subseteq T
  <2> HIDE DEF T
  <2> QED BY <1>2, <1>3, Running!SetInduction
<1> QED BY <1>1, <1>4

LEMMA Flattening ==
  ASSUME NEW S, NEW ss \in Seq(Seq(S))
  PROVE  \E f : /\ Flattens(f, ss) /\ FlattenSeq(ss) = f[Len(ss)]
                /\ \A i \in 0..Len(ss) : f[i] \in Seq(S)
<1> DEFINE n == Len(ss)
           h == CHOOSE x : Recurs(x, ss, n)
           f == [i \in 0..n |-> IF i = 0 THEN <<>> ELSE h[i]]
<1>1. n \in Nat /\ \A i \in 1..n : ss[i] \in Seq(S)
  OBVIOUS
<1>2. FlattenSeq(ss) = IF n = 0 THEN ss ELSE h[n]
  BY DEF FlattenSeq, Recurs
<1> HIDE DEF n
<1>3. Recurs(h, ss, n)
  BY <1>1, RecursExists
<1> HIDE DEF h
<1>4. \A i \in 1..n : h[i] = IF i = 1 THEN ss[i] ELSE h[i - 1] \o ss[i]
  BY <1>3 DEF Recurs
<1>5. f[0] = <<>> /\ \A i \in 1..n : f[i] = h[i]
  BY <1>1
<1> HIDE DEF f
<1>6. ASSUME NEW i \in 1..n PROVE f[i] = f[i - 1] \o ss[i]
  <2>1. CASE i = 1
    <3>1. ss[1] \in Seq(S)
      BY <1>1, <2>1
    <3>2. <<>> \o ss[1] = ss[1]
      BY <3>1
    <3>3. f[1] = ss[1] /\ f[1 - 1] = <<>>
      BY <1>4, <1>5, <2>1
    <3> QED BY <2>1, <3>2, <3>3
  <2>2. CASE i # 1
    <3>1. i - 1 \in 1..n
      BY <1>1, <2>2
    <3> QED BY <1>4, <1>5, <2>2, <3>1
  <2> QED BY <2>1, <2>2
<1>9. \A i \in 0..n : f[i] \in Seq(S)
  <2>1. Flattens(f, ss)
    BY <1>5, <1>6 DEF Flattens, n
  <2> QED BY <2>1, FlattenedParts DEF n
<1>10. FlattenSeq(ss) = f[n]
  <2>1. CASE n = 0
    <3>1. ss = <<>>
      BY <2>1 DEF n
    <3> QED BY <1>2, <1>5, <2>1, <3>1
  <2>2. CASE n # 0
    BY <1>1, <1>2, <1>5, <2>2
  <2> QED BY <2>1, <2>2
<1> QED BY <1>5, <1>6, <1>9, <1>10 DEF Flattens, n

\* A beginning of one of two sequences in a row.
BeginsTwo(v, u, w) ==
  \/ \E m \in 0..Len(u) : v = SubSeq(u, 1, m)
  \/ \E j \in 1..Len(w) : v = u \o SubSeq(w, 1, j)

LEMMA BeginningOfTwo ==
  ASSUME NEW S, NEW u \in Seq(S), NEW w \in Seq(S), NEW m \in 0..Len(u \o w)
  PROVE  BeginsTwo(SubSeq(u \o w, 1, m), u, w)
<1> DEFINE v == SubSeq(u \o w, 1, m)
           a == Len(u)
           j == m - a
<1>1. /\ Len(u \o w) = a + Len(w) /\ a \in Nat /\ Len(w) \in Nat /\ m \in Nat
      /\ v \in Seq(S) /\ Len(v) = m /\ \A i \in 1..m : v[i] = (u \o w)[i]
      /\ \A i \in 1..a : (u \o w)[i] = u[i]
      /\ \A i \in a + 1..a + Len(w) : (u \o w)[i] = w[i - a]
  OBVIOUS
<1>2. ASSUME m <= a PROVE v = SubSeq(u, 1, m)
  <2> DEFINE x == SubSeq(u, 1, m)
  <2>1. x \in Seq(S) /\ Len(x) = m /\ \A i \in 1..m : x[i] = u[i]
    BY <1>1, <1>2
  <2> HIDE DEF v, x, a
  <2>2. \A i \in 1..m : v[i] = x[i]
    BY <1>1, <1>2, <2>1
  <2>3. v = x
    BY <1>1, <2>1, <2>2
  <2> QED BY <2>3 DEF x
<1>3. ASSUME m > a PROVE j \in 1..Len(w) /\ v = u \o SubSeq(w, 1, j)
  <2> DEFINE x == u \o SubSeq(w, 1, j)
  <2>1. j \in 1..Len(w) /\ a + j = m
    BY <1>1, <1>3
  <2>2. /\ x \in Seq(S) /\ Len(x) = m
        /\ \A i \in 1..a : x[i] = u[i]
        /\ \A i \in a + 1..m : x[i] = w[i - a]
    <3> DEFINE y == SubSeq(w, 1, j)
    <3>1. y \in Seq(S) /\ Len(y) = j /\ \A i \in 1..j : y[i] = w[i]
      BY <2>1
    <3> HIDE DEF y, j
    <3>2. /\ u \o y \in Seq(S) /\ Len(u \o y) = a + j
          /\ \A i \in 1..a : (u \o y)[i] = u[i]
          /\ \A i \in a + 1..a + j : (u \o y)[i] = y[i - a]
      BY <3>1
    <3>3. \A i \in a + 1..m : i - a \in 1..j
      BY <1>1, <2>1
    <3> HIDE DEF a
    <3> QED BY <2>1, <3>1, <3>2, <3>3 DEF y
  <2> HIDE DEF v, x, a, j
  <2>3. ASSUME NEW i \in 1..m PROVE v[i] = x[i]
    <3>1. CASE i \in 1..a
      BY <1>1, <2>2, <3>1
    <3>2. CASE i \in a + 1..m
      <4>1. i \in a + 1..a + Len(w)
        BY <1>1, <2>1, <3>2
      <4> QED BY <1>1, <2>2, <3>2, <4>1
    <3> QED BY <1>1, <3>1, <3>2
  <2>4. v = x
    BY <1>1, <2>2, <2>3
  <2> QED BY <2>1, <2>4 DEF x
<1>4. m <= a => m \in 0..a
  BY <1>1
<1>5. m <= a \/ m > a
  BY <1>1
<1> HIDE DEF v, j
<1>6. BeginsTwo(v, u, w)
  BY <1>2, <1>3, <1>4, <1>5 DEF BeginsTwo
<1> QED BY <1>6 DEF v

\* A beginning of a concatenation is that of its first sequences, with a beginning of the
\* next one.
Begins(u, f, ss, n) ==
  \E k \in 0..n :
    \/ u = f[k]
    \/ k < n /\ \E j \in 1..Len(ss[k + 1]) : u = f[k] \o SubSeq(ss[k + 1], 1, j)

LEMMA Beginnings ==
  ASSUME NEW S, NEW ss \in Seq(Seq(S)), NEW f, Flattens(f, ss), NEW m \in 0..Len(f[Len(ss)])
  PROVE  Begins(SubSeq(f[Len(ss)], 1, m), f, ss, Len(ss))
<1> DEFINE n == Len(ss)
           T == {i \in Nat : i <= n => \A l \in 0..Len(f[i]) : Begins(SubSeq(f[i], 1, l), f, ss, i)}
<1>1. n \in Nat /\ (\A i \in 1..n : ss[i] \in Seq(S)) /\ (\A i \in 0..n : f[i] \in Seq(S))
  BY FlattenedParts
<1>2. 0 \in T
  <2>1. f[0] = <<>> /\ \A l \in 0..Len(<<>>) : SubSeq(<<>>, 1, l) = <<>>
    BY DEF Flattens
  <2>2. \A l \in 0..Len(f[0]) : SubSeq(f[0], 1, l) = f[0]
    BY <2>1
  <2>3. 0 \in 0..0
    OBVIOUS
  <2>4. \A l \in 0..Len(f[0]) : Begins(SubSeq(f[0], 1, l), f, ss, 0)
    BY <2>2, <2>3 DEF Begins
  <2> QED BY <2>4
<1>3. ASSUME NEW i \in Nat, i \in T PROVE i + 1 \in T
  <2> SUFFICES ASSUME i + 1 <= n, NEW l \in 0..Len(f[i + 1])
               PROVE  Begins(SubSeq(f[i + 1], 1, l), f, ss, i + 1)
    OBVIOUS
  <2> DEFINE j == i + 1
             w == ss[j]
  <2>1. j \in 1..n /\ j - 1 = i /\ i \in 0..n /\ i \in 0..j /\ i < j
    BY <1>1
  <2>2. f[i] \in Seq(S) /\ w \in Seq(S) /\ f[j] = f[i] \o w
    <3> HIDE DEF j
    <3> QED BY <1>1, <2>1 DEF Flattens
  <2> HIDE DEF j, w
  <2>3. l \in 0..Len(f[i] \o w)
    BY <2>2 DEF j
  <2> DEFINE u == SubSeq(f[j], 1, l)
  <2>4. BeginsTwo(u, f[i], w)
    <3>1. BeginsTwo(SubSeq(f[i] \o w, 1, l), f[i], w)
      BY <2>2, <2>3, BeginningOfTwo
    <3> QED BY <2>2, <3>1
  <2> HIDE DEF u
  <2>5. ASSUME NEW x \in 0..Len(f[i]), u = SubSeq(f[i], 1, x) PROVE Begins(u, f, ss, j)
    <3>1. Begins(SubSeq(f[i], 1, x), f, ss, i)
      BY <1>1, <1>3, <2>1, <2>5
    <3>2. PICK k \in 0..i :
            \/ u = f[k]
            \/ k < i /\ \E y \in 1..Len(ss[k + 1]) : u = f[k] \o SubSeq(ss[k + 1], 1, y)
      BY <2>5, <3>1 DEF Begins
    <3>3. k \in 0..j /\ (k < i => k < j)
      BY <1>3, <2>1
    <3> QED BY <3>2, <3>3 DEF Begins
  <2>6. ASSUME NEW x \in 1..Len(w), u = f[i] \o SubSeq(w, 1, x) PROVE Begins(u, f, ss, j)
    <3>1. x \in 1..Len(ss[i + 1]) /\ u = f[i] \o SubSeq(ss[i + 1], 1, x)
      BY <2>6 DEF w, j
    <3> QED BY <2>1, <3>1 DEF Begins
  <2>7. Begins(u, f, ss, j)
    BY <2>4, <2>5, <2>6 DEF BeginsTwo
  <2> QED BY <2>7 DEF j, u
<1>4. Nat \subseteq T
  <2> HIDE DEF T
  <2> QED BY <1>2, <1>3, Running!SetInduction
<1> QED BY <1>1, <1>4

-----------------------------------------------------------------------------
(* Tables and their changes.                                                *)

Cell  == Values \cup {Absent}
Types == {"INSERT", "UPDATE", "DELETE"}

RowChanges == [table : Tables, type : Types, key : Keys \cup {Null}, before : Cell, after : Cell]

\* A change of the target that c makes of the table, or none.
Makes(table, c) ==
  c = OtherRow \/ \E k \in Keys, w \in Cell : w # table[k] /\ c = Change(table, k, w)

\* The changes of a table, and the tables one after the other.
Chained(table, tables, changes) ==
  /\ tables \in Seq(Table) /\ changes \in Seq(RowChanges)
  /\ Len(tables) = Len(changes) + 1 /\ tables[1] = table
  /\ \A i \in 1..Len(changes) :
       Makes(tables[i], changes[i]) /\ tables[i + 1] = Write(tables[i], changes[i])

LEMMA OtherRowIs ==
  /\ OtherRow \in RowChanges /\ OtherRow.table # Target /\ OtherRow.type = "INSERT"
  /\ OtherRow.key = Null /\ OtherRow.before = Absent /\ OtherRow.after = Null
<1>1. \E t \in Tables : t # Target
  <2> SUFFICES ASSUME \A t \in Tables : t = Target PROVE FALSE
    OBVIOUS
  <2>1. Tables = {Target}
    BY TargetAssumption
  <2>2. Cardinality({Target}) = 1
    BY FS_Singleton
  <2>3. Cardinality(Tables) > 1
    BY FlashbackAssumption
  <2> QED BY <2>1, <2>2, <2>3
<1>2. (CHOOSE t \in Tables : t # Target) \in Tables /\ (CHOOSE t \in Tables : t # Target) # Target
  BY <1>1
<1>3. Null \in Values
  BY FlashbackAssumption
<1> QED BY <1>2, <1>3 DEF OtherRow, RowChanges, Cell, Types

LEMMA ChangeIs ==
  ASSUME NEW table \in Table, NEW k \in Keys, NEW w \in Cell
  PROVE  LET c == Change(table, k, w) IN
         /\ c \in RowChanges /\ c.table = Target /\ c.key = k /\ c.before = table[k] /\ c.after = w
         /\ c.type = ChangeType(table[k], w)
         /\ Write(table, c) = [table EXCEPT ![k] = w]
BY TargetAssumption DEF Change, RowChanges, Table, Cell, Types, ChangeType, Write

LEMMA MakesIs ==
  ASSUME NEW table \in Table, NEW c, Makes(table, c)
  PROVE  c \in RowChanges /\ Write(table, c) \in Table
<1>1. CASE c = OtherRow
  BY <1>1, OtherRowIs DEF Write
<1>2. ASSUME NEW k \in Keys, NEW w \in Cell, c = Change(table, k, w)
      PROVE  c \in RowChanges /\ Write(table, c) \in Table
  <2>1. c \in RowChanges /\ Write(table, c) = [table EXCEPT ![k] = w]
    BY <1>2, ChangeIs
  <2>2. [table EXCEPT ![k] = w] \in Table
    BY DEF Table, Cell
  <2> QED BY <2>1, <2>2
<1> QED BY <1>1, <1>2 DEF Makes

\* The tables that a sequence of changes goes through.
TablesOf(table, changes) == FoldLeft(Apply, <<table>>, changes)

LEMMA TablesEmpty == ASSUME NEW table PROVE TablesOf(table, <<>>) = <<table>>
BY Applying!FoldEmpty DEF TablesOf, Applying!Fold, FoldLeft, MapThenFoldSet, Max, Applying!FoldLeft, Applying!MapThenFoldSet, Applying!Max

LEMMA TablesAppend ==
  ASSUME NEW table, NEW S, NEW changes \in Seq(S), NEW c \in S
  PROVE  TablesOf(table, Append(changes, c)) = Apply(TablesOf(table, changes), c)
<1>1. Applying!Fold(<<table>>, Append(changes, c)) = Apply(Applying!Fold(<<table>>, changes), c)
  BY Applying!FoldAppend
<1>2. \A s : TablesOf(table, s) = Applying!Fold(<<table>>, s)
  BY DEF TablesOf, Applying!Fold, FoldLeft, MapThenFoldSet, Max, Applying!FoldLeft,
         Applying!MapThenFoldSet, Applying!Max
<1> QED BY <1>1, <1>2

LEMMA ChainEmpty ==
  ASSUME NEW table \in Table
  PROVE  Chained(table, TablesOf(table, <<>>), <<>>)
<1>1. <<>> \in Seq(RowChanges) /\ Len(<<>>) = 0 /\ \A i : i \notin 1..0
  OBVIOUS
<1>2. <<table>> \in Seq(Table) /\ Len(<<table>>) = 0 + 1 /\ <<table>>[1] = table
  OBVIOUS
<1> QED BY <1>1, <1>2, TablesEmpty DEF Chained

LEMMA ChainAppend ==
  ASSUME NEW table \in Table, NEW changes, Chained(table, TablesOf(table, changes), changes),
         NEW c, Makes(Last(TablesOf(table, changes)), c)
  PROVE  /\ Chained(table, TablesOf(table, Append(changes, c)), Append(changes, c))
         /\ Last(TablesOf(table, Append(changes, c))) = Write(Last(TablesOf(table, changes)), c)
<1> DEFINE ts == TablesOf(table, changes)
           n == Len(changes)
           cs == Append(changes, c)
           t == Write(Last(ts), c)
           us == Append(ts, t)
<1>1. /\ ts \in Seq(Table) /\ changes \in Seq(RowChanges) /\ n \in Nat
      /\ Len(ts) = n + 1 /\ ts[1] = table
      /\ \A i \in 1..n : Makes(ts[i], changes[i]) /\ ts[i + 1] = Write(ts[i], changes[i])
  BY DEF Chained
<1>2. Last(ts) = ts[n + 1] /\ ts[n + 1] \in Table
  BY <1>1 DEF Last
<1>3. c \in RowChanges /\ t \in Table
  BY <1>2, MakesIs
<1>4. TablesOf(table, cs) = us
  BY <1>1, <1>3, TablesAppend DEF Apply
<1>5. Makes(ts[n + 1], c) /\ t = Write(ts[n + 1], c)
  BY <1>2
<1> HIDE DEF ts, n, t
<1>6. /\ cs \in Seq(RowChanges) /\ Len(cs) = n + 1 /\ cs[n + 1] = c
      /\ \A i \in 1..n : cs[i] = changes[i]
  BY <1>1, <1>3 DEF n
<1>7. /\ us \in Seq(Table) /\ Len(us) = n + 1 + 1 /\ us[n + 1 + 1] = t
      /\ \A i \in 1..n + 1 : us[i] = ts[i]
  BY <1>1, <1>3
<1> HIDE DEF cs, us
<1>8. ASSUME NEW i \in 1..n + 1
      PROVE  Makes(us[i], cs[i]) /\ us[i + 1] = Write(us[i], cs[i])
  <2>1. CASE i = n + 1
    BY <1>1, <1>5, <1>6, <1>7, <2>1
  <2>2. CASE i \in 1..n
    <3>1. i + 1 \in 1..n + 1 /\ i \in 1..n + 1
      BY <1>1, <2>2
    <3> QED BY <1>1, <1>6, <1>7, <2>2, <3>1
  <2> QED BY <1>1, <2>1, <2>2
<1>9. us[1] = table
  BY <1>1, <1>7
<1>10. Chained(table, us, cs)
  BY <1>6, <1>7, <1>8, <1>9 DEF Chained
<1>11. Last(us) = t
  BY <1>7 DEF Last
<1> QED BY <1>4, <1>10, <1>11 DEF cs, us, t, ts

\* The row changes of a statement are changes of the table, each where those before it
\* have been made.
LEMMA StatementChains ==
  ASSUME rows \in Table, NEW changes \in Statements
  PROVE  /\ Chained(rows, TablesOf(rows, changes), changes)
         /\ Len(changes) \in {1, 2}
<1>1. Chained(rows, TablesOf(rows, <<>>), <<>>) /\ Last(TablesOf(rows, <<>>)) = rows
  <2>1. Last(<<rows>>) = rows
    BY DEF Last
  <2> QED BY <2>1, ChainEmpty, TablesEmpty
<1>2. ASSUME NEW c, Makes(rows, c)
      PROVE  /\ Chained(rows, TablesOf(rows, <<c>>), <<c>>)
             /\ Last(TablesOf(rows, <<c>>)) = Write(rows, c)
  <2>1. Append(<<>>, c) = <<c>>
    OBVIOUS
  <2>2. Makes(Last(TablesOf(rows, <<>>)), c)
    BY <1>1, <1>2, Zenon
  <2>3. /\ Chained(rows, TablesOf(rows, Append(<<>>, c)), Append(<<>>, c))
        /\ Last(TablesOf(rows, Append(<<>>, c))) = Write(Last(TablesOf(rows, <<>>)), c)
    BY <1>1, <2>2, ChainAppend, Zenon
  <2> QED BY <1>1, <2>1, <2>3, Zenon
<1>3. ASSUME NEW c, NEW d, Makes(rows, c), Makes(Write(rows, c), d)
      PROVE  Chained(rows, TablesOf(rows, <<c, d>>), <<c, d>>)
  <2>1. Append(<<c>>, d) = <<c, d>>
    <3>1. <<c>> \in Seq({c, d}) /\ <<c, d>> \in Seq({c, d}) /\ d \in {c, d}
      OBVIOUS
    <3>2. Len(Append(<<c>>, d)) = 2 /\ \A i \in 1..2 : Append(<<c>>, d)[i] = <<c, d>>[i]
      BY <3>1
    <3>3. Append(<<c>>, d) \in Seq({c, d}) /\ Len(<<c, d>>) = 2
      BY <3>1
    <3> QED BY <3>1, <3>2, <3>3, SameSequence
  <2> QED BY <1>2, <1>3, <2>1, ChainAppend
<1> DEFINE one == {c \in {Change(rows, k, w) : k \in Keys, w \in Cell} : c.before # c.after}
<1>4. ASSUME NEW c \in one
      PROVE  \E k \in Keys, w \in Cell : w # rows[k] /\ c = Change(rows, k, w)
  BY <1>4, ChangeIs
<1>5. \A c \in one : Makes(rows, c)
  BY <1>4 DEF Makes
<1>6. ASSUME NEW c \in one, NEW d \in one, c.key # d.key PROVE Makes(Write(rows, c), d)
  <2>1. PICK k \in Keys, w \in Cell : w # rows[k] /\ c = Change(rows, k, w)
    BY <1>4
  <2>2. PICK j \in Keys, v \in Cell : v # rows[j] /\ d = Change(rows, j, v)
    BY <1>4
  <2>3. k # j /\ Write(rows, c) = [rows EXCEPT ![k] = w]
    BY <1>6, <2>1, <2>2, ChangeIs
  <2>4. Write(rows, c)[j] = rows[j]
    BY <2>3 DEF Table
  <2>5. d = Change(Write(rows, c), j, v)
    BY <2>2, <2>4 DEF Change
  <2> QED BY <2>2, <2>4, <2>5 DEF Makes
<1>7. Makes(rows, OtherRow) /\ \A c : Makes(Write(rows, c), OtherRow)
  BY DEF Makes
<1> DEFINE two == {p \in one \X one : p[1].key # p[2].key /\ p[1].type = p[2].type}
<1>8. \/ changes = <<OtherRow>>
      \/ \E c \in one : changes = <<c>> \/ changes = <<c, OtherRow>>
      \/ \E p \in two : changes = <<p[1], p[2]>>
  BY DEF Statements, Cell
<1>9. CASE changes = <<OtherRow>>
  BY <1>2, <1>7, <1>9
<1>10. CASE \E c \in one : changes = <<c>> \/ changes = <<c, OtherRow>>
  <2> HIDE DEF one
  <2>1. PICK c \in one : changes = <<c>> \/ changes = <<c, OtherRow>>
    BY <1>10
  <2> QED BY <1>2, <1>3, <1>5, <1>7, <2>1
<1>11. CASE \E p \in two : changes = <<p[1], p[2]>>
  <2>1. PICK p \in two : changes = <<p[1], p[2]>>
    BY <1>11
  <2>2. p[1] \in one /\ p[2] \in one /\ p[1].key # p[2].key
    OBVIOUS
  <2> HIDE DEF one
  <2> QED BY <1>3, <1>5, <1>6, <2>1, <2>2
<1> QED BY <1>8, <1>9, <1>10, <1>11

-----------------------------------------------------------------------------
(* The binary log.                                                          *)

RowsEntry  == [kind : {"rows"}, change : RowChanges, ts : Nat, ends : BOOLEAN,
               file : Nat \ {0}, by : {"app", "undo"}]
QueryEntry == [kind : {"query"}, ts : Nat, ends : {TRUE}, file : Nat \ {0}, by : {"app"}]
Entry      == RowsEntry \cup QueryEntry

\* p is the table before each entry of l and now, and the rows of l are its changes.
Recorded(table, l, p) ==
  /\ p \in Seq(Table) /\ l \in Seq(Entry)
  /\ Len(p) = Len(l) + 1 /\ p[Len(l) + 1] = table
  /\ \A i \in 1..Len(l) : l[i].kind = "rows" =>
       Makes(p[i], l[i].change) /\ p[i + 1] = Write(p[i], l[i].change)

InOrder(l) == \A i, j \in 1..Len(l) : i <= j => l[i].ts <= l[j].ts

\* The next row of the statement an entry leaves open.
GoesOn(l, i) ==
  /\ i + 1 \in 1..Len(l) /\ l[i].kind = "rows" /\ l[i + 1].kind = "rows"
  /\ l[i + 1].ts = l[i].ts /\ l[i + 1].file = l[i].file

WholeStatements(l) == \A i \in 1..Len(l) : ~l[i].ends => GoesOn(l, i)

LogOK == /\ Recorded(rows, log, past) /\ InOrder(log) /\ WholeStatements(log)
         /\ file \in Nat \ {0}

LEMMA ClockIs ==
  ASSUME LogOK
  PROVE  Clock \in Nat /\ \A i \in 1..Len(log) : log[i].ts <= Clock
<1>1. log \in Seq(Entry) /\ InOrder(log)
  BY DEF LogOK, Recorded
<1>2. CASE log = <<>>
  BY <1>2 DEF Clock
<1>3. CASE log # <<>>
  <2>1. Len(log) \in 1..Len(log) /\ Clock = log[Len(log)].ts
    BY <1>1, <1>3 DEF Clock, Last
  <2>2. log[Len(log)] \in Entry
    BY <1>1, <2>1
  <2>3. Clock \in Nat
    BY <2>1, <2>2 DEF Entry, RowsEntry, QueryEntry
  <2>4. \A i \in 1..Len(log) : i <= Len(log)
    BY <1>1
  <2> QED BY <1>1, <2>1, <2>3, <2>4 DEF InOrder
<1> QED BY <1>2, <1>3

\* What changes of one second leave in the log.
LEMMA EntriesAre ==
  ASSUME LogOK, NEW changes \in Seq(RowChanges), NEW by \in {"app", "undo"}
  PROVE  /\ Entries(changes, by) \in Seq(Entry)
         /\ Len(Entries(changes, by)) = Len(changes)
         /\ \A i \in 1..Len(changes) :
              LET e == Entries(changes, by)[i] IN
              /\ e.kind = "rows" /\ e.change = changes[i] /\ e.ts = Clock + 1 /\ e.file = file
              /\ e.by = by /\ (e.ends <=> by = "undo" \/ i = Len(changes))
<1>1. Clock + 1 \in Nat /\ file \in Nat \ {0}
  BY ClockIs DEF LogOK
<1>2. DOMAIN changes = 1..Len(changes) /\ Len(changes) \in Nat
      /\ \A i \in 1..Len(changes) : changes[i] \in RowChanges
  OBVIOUS
<1> DEFINE es == Entries(changes, by)
           e(i) == [kind |-> "rows", change |-> changes[i], ts |-> Clock + 1,
                    ends |-> by = "undo" \/ i = Len(changes), file |-> file, by |-> by]
<1>3. es = [i \in 1..Len(changes) |-> e(i)]
  BY <1>2, Zenon DEF Entries
<1>4. ASSUME NEW i \in 1..Len(changes)
      PROVE  /\ e(i) \in Entry
             /\ e(i).kind = "rows" /\ e(i).change = changes[i] /\ e(i).ts = Clock + 1
             /\ e(i).file = file /\ e(i).by = by
             /\ (e(i).ends <=> by = "undo" \/ i = Len(changes))
  <2> DEFINE z == by = "undo" \/ i = Len(changes)
  <2>1. z \in BOOLEAN
    OBVIOUS
  <2>2. e(i).ends = z
    OBVIOUS
  <2>3. /\ e(i).kind = "rows" /\ e(i).change = changes[i] /\ e(i).ts = Clock + 1
        /\ e(i).file = file /\ e(i).by = by
    OBVIOUS
  <2>4. e(i) \in RowsEntry
    <3>1. e(i) = [kind |-> "rows", change |-> changes[i], ts |-> Clock + 1,
                  ends |-> z, file |-> file, by |-> by]
      BY Zenon
    <3> HIDE DEF z, e
    <3> QED BY <1>1, <1>2, <2>1, <3>1 DEF RowsEntry
  <2> HIDE DEF e
  <2> QED BY <2>2, <2>3, <2>4, Zenon DEF Entry
<1> HIDE DEF e
<1>5. es \in Seq(Entry) /\ Len(es) = Len(changes) /\ \A i \in 1..Len(changes) : es[i] = e(i)
  <2> HIDE DEF es
  <2> QED BY <1>2, <1>3, <1>4
<1> HIDE DEF es
<1> QED BY <1>4, <1>5 DEF es

\* What a commit leaves behind: the log and the tables grow by the changes.
Grown(changes, by) ==
  /\ Extends(log, log') /\ Extends(past, past')
  /\ Len(log') = Len(log) + Len(changes) /\ Len(past') = Len(past) + Len(changes)
  /\ \A m \in 1..Len(changes) :
       LET e == log'[Len(log) + m] IN
       /\ e.kind = "rows" /\ e.by = by /\ e.change = changes[m] /\ e.ts = Clock + 1 /\ e.file = file
       /\ (e.ends <=> by = "undo" \/ m = Len(changes))
  /\ \A m \in 1..Len(changes) + 1 : past'[Len(log) + m] = TablesOf(rows, changes)[m]
  /\ rows' = Last(TablesOf(rows, changes))

LEMMA CommitGrows ==
  ASSUME LogOK, NEW changes, NEW by \in {"app", "undo"},
         Chained(rows, TablesOf(rows, changes), changes), Commit(changes, by)
  PROVE  /\ Grown(changes, by) /\ log' \in Seq(Entry) /\ past' \in Seq(Table) /\ file' = file
<1> DEFINE ts == TablesOf(rows, changes)
           es == Entries(changes, by)
           n == Len(log)
           k == Len(changes)
<1>1. /\ log \in Seq(Entry) /\ past \in Seq(Table) /\ Len(past) = n + 1 /\ past[n + 1] = rows
      /\ n \in Nat
  BY DEF LogOK, Recorded
<1>2. /\ ts \in Seq(Table) /\ changes \in Seq(RowChanges) /\ k \in Nat
      /\ Len(ts) = k + 1 /\ ts[1] = rows
  BY DEF Chained
<1>3. /\ es \in Seq(Entry) /\ Len(es) = k
      /\ \A i \in 1..k :
           /\ es[i].kind = "rows" /\ es[i].change = changes[i] /\ es[i].ts = Clock + 1
           /\ es[i].file = file /\ es[i].by = by /\ (es[i].ends <=> by = "undo" \/ i = k)
  BY <1>2, EntriesAre
<1>4. /\ rows' = Last(ts) /\ log' = log \o es /\ past' = past \o Tail(ts) /\ file' = file
  BY DEF Commit, TablesOf
<1> HIDE DEF es, ts, k
<1>5. Tail(ts) \in Seq(Table) /\ Len(Tail(ts)) = k /\ \A i \in 1..k : Tail(ts)[i] = ts[i + 1]
  BY <1>2
<1>6. /\ log' \in Seq(Entry) /\ Len(log') = n + k /\ Extends(log, log')
      /\ \A i \in 1..k : log'[n + i] = es[i]
  <2>1. ASSUME NEW u \in Seq(Entry), NEW v \in Seq(Entry)
        PROVE  /\ u \o v \in Seq(Entry) /\ Len(u \o v) = Len(u) + Len(v) /\ Extends(u, u \o v)
               /\ \A i \in 1..Len(v) : (u \o v)[Len(u) + i] = v[i]
    BY Joined
  <2> QED BY <1>1, <1>3, <1>4, <2>1
<1>7. /\ past' \in Seq(Table) /\ Len(past') = Len(past) + k /\ Extends(past, past')
      /\ \A i \in 1..k : past'[n + 1 + i] = ts[i + 1]
  <2> DEFINE u == Tail(ts)
  <2>1. u \in Seq(Table) /\ Len(u) = k /\ \A i \in 1..k : u[i] = ts[i + 1]
    BY <1>5
  <2> HIDE DEF u
  <2>2. /\ past \o u \in Seq(Table) /\ Len(past \o u) = Len(past) + k /\ Extends(past, past \o u)
        /\ \A i \in 1..k : (past \o u)[Len(past) + i] = u[i]
    <3>1. ASSUME NEW x \in Seq(Table), NEW v \in Seq(Table)
          PROVE  /\ x \o v \in Seq(Table) /\ Len(x \o v) = Len(x) + Len(v) /\ Extends(x, x \o v)
                 /\ \A i \in 1..Len(v) : (x \o v)[Len(x) + i] = v[i]
      BY Joined
    <3> QED BY <1>1, <2>1, <3>1
  <2> QED BY <1>1, <1>4, <2>1, <2>2 DEF u
<1>8. ASSUME NEW m \in 1..k + 1 PROVE past'[n + m] = ts[m]
  <2>1. CASE m = 1
    <3>1. n + 1 \in 1..Len(past)
      BY <1>1
    <3> QED BY <1>1, <1>2, <1>7, <2>1, <3>1 DEF Extends
  <2>2. CASE m # 1
    <3>1. m - 1 \in 1..k /\ n + 1 + (m - 1) = n + m /\ m - 1 + 1 = m
      BY <1>1, <1>2, <2>2
    <3> QED BY <1>7, <3>1
  <2> QED BY <2>1, <2>2
<1>9. \A m \in 1..k :
        /\ log'[n + m].kind = "rows" /\ log'[n + m].by = by /\ log'[n + m].change = changes[m]
        /\ log'[n + m].ts = Clock + 1 /\ log'[n + m].file = file
        /\ (log'[n + m].ends <=> by = "undo" \/ m = k)
  BY <1>3, <1>6
<1> QED BY <1>4, <1>6, <1>7, <1>8, <1>9 DEF Grown, k, ts

\* ... and are still in order, with whole statements.
LEMMA CommitKeepsLog ==
  ASSUME LogOK, NEW changes, NEW by \in {"app", "undo"},
         Chained(rows, TablesOf(rows, changes), changes), Commit(changes, by)
  PROVE  LogOK'
<1> DEFINE ts == TablesOf(rows, changes)
           n == Len(log)
           k == Len(changes)
<1>1. /\ log \in Seq(Entry) /\ past \in Seq(Table) /\ Len(past) = n + 1 /\ past[n + 1] = rows
      /\ n \in Nat /\ InOrder(log) /\ WholeStatements(log)
      /\ \A i \in 1..n : log[i].kind = "rows" =>
           Makes(past[i], log[i].change) /\ past[i + 1] = Write(past[i], log[i].change)
  BY DEF LogOK, Recorded
<1>2. /\ ts \in Seq(Table) /\ changes \in Seq(RowChanges) /\ k \in Nat
      /\ Len(ts) = k + 1 /\ ts[1] = rows
      /\ \A i \in 1..k : Makes(ts[i], changes[i]) /\ ts[i + 1] = Write(ts[i], changes[i])
  BY DEF Chained
<1>3. Grown(changes, by) /\ log' \in Seq(Entry) /\ past' \in Seq(Table) /\ file' = file
  BY CommitGrows
<1>4. /\ Len(log') = n + k /\ Len(past') = n + 1 + k
      /\ \A i \in 1..n : log'[i] = log[i]
      /\ \A i \in 1..n + 1 : past'[i] = past[i]
  BY <1>1, <1>3 DEF Grown, Extends
<1>5. /\ \A m \in 1..k :
           /\ log'[n + m].kind = "rows" /\ log'[n + m].change = changes[m]
           /\ log'[n + m].ts = Clock + 1 /\ log'[n + m].file = file
           /\ (log'[n + m].ends <=> by = "undo" \/ m = k)
      /\ \A m \in 1..k + 1 : past'[n + m] = ts[m]
      /\ rows' = ts[k + 1]
  BY <1>2, <1>3 DEF Grown, Last
<1> HIDE DEF ts, k, n
<1>6. ASSUME NEW i \in 1..n + k PROVE i \in 1..n \/ \E m \in 1..k : i = n + m
  <2> SUFFICES ASSUME i \notin 1..n PROVE \E m \in 1..k : i = n + m
    OBVIOUS
  <2>1. i - n \in 1..k /\ i = n + (i - n)
    BY <1>1, <1>2
  <2> QED BY <2>1
<1>7. ASSUME NEW i \in 1..n + k, log'[i].kind = "rows"
      PROVE  Makes(past'[i], log'[i].change) /\ past'[i + 1] = Write(past'[i], log'[i].change)
  <2>1. CASE i \in 1..n
    <3>1. i \in 1..n + 1 /\ i + 1 \in 1..n + 1
      BY <1>1, <2>1
    <3> QED BY <1>1, <1>4, <1>7, <2>1, <3>1
  <2>2. ASSUME NEW m \in 1..k, i = n + m
        PROVE  Makes(past'[i], log'[i].change) /\ past'[i + 1] = Write(past'[i], log'[i].change)
    <3>1. m \in 1..k + 1 /\ m + 1 \in 1..k + 1 /\ i + 1 = n + (m + 1)
      BY <1>1, <1>2, <2>2
    <3> QED BY <1>2, <1>5, <2>2, <3>1
  <2> QED BY <1>6, <2>1, <2>2
<1>8. ASSUME NEW i \in 1..n + k, NEW j \in 1..n + k, i <= j PROVE log'[i].ts <= log'[j].ts
  <2>1. Clock \in Nat /\ \A m \in 1..n : log[m].ts <= Clock /\ log[m].ts \in Nat
    <3>1. \A m \in 1..n : log[m] \in Entry
      BY <1>1 DEF n
    <3> QED BY <3>1, ClockIs DEF n, Entry, RowsEntry, QueryEntry
  <2>2. CASE i \in 1..n /\ j \in 1..n
    <3>1. log[i].ts <= log[j].ts
      BY <1>1, <1>8, <2>2 DEF InOrder, n
    <3> QED BY <1>4, <2>2, <3>1
  <2>3. ASSUME NEW m \in 1..k, j = n + m, i \in 1..n PROVE log'[i].ts <= log'[j].ts
    <3>1. log'[i].ts \in Nat /\ log'[i].ts <= Clock /\ log'[j].ts = Clock + 1
      BY <1>4, <1>5, <2>1, <2>3
    <3> QED BY <2>1, <3>1
  <2>4. ASSUME NEW m \in 1..k, j = n + m, NEW l \in 1..k, i = n + l
        PROVE  log'[i].ts <= log'[j].ts
    BY <1>5, <2>1, <2>4
  <2>5. ASSUME NEW m \in 1..k, i = n + m, j \in 1..n PROVE FALSE
    BY <1>1, <1>2, <1>8, <2>5
  <2> QED BY <1>6, <2>2, <2>3, <2>4, <2>5
<1>9. ASSUME NEW i \in 1..n + k, ~log'[i].ends PROVE GoesOn(log', i)
  <2>1. CASE i \in 1..n
    <3>1. GoesOn(log, i)
      BY <1>1, <1>4, <1>9, <2>1 DEF WholeStatements, n
    <3>2. i + 1 \in 1..n /\ i + 1 \in 1..n + k
      BY <1>1, <1>2, <3>1 DEF GoesOn, n
    <3> QED BY <1>4, <2>1, <3>1, <3>2 DEF GoesOn
  <2>2. ASSUME NEW m \in 1..k, i = n + m PROVE GoesOn(log', i)
    <3>1. m # k
      BY <1>5, <1>9, <2>2
    <3>2. m + 1 \in 1..k /\ i + 1 = n + (m + 1) /\ i + 1 \in 1..n + k
      BY <1>1, <1>2, <2>2, <3>1
    <3> QED BY <1>4, <1>5, <2>2, <3>2 DEF GoesOn
  <2> QED BY <1>6, <2>1, <2>2
<1>10. past'[n + k + 1] = rows' /\ n + 1 + k = n + k + 1
  <2>1. n \in Nat /\ k \in Nat
    BY <1>1, <1>2
  <2>2. k + 1 \in 1..k + 1 /\ n + (k + 1) = n + k + 1 /\ n + 1 + k = n + k + 1
    BY <2>1
  <2> QED BY <1>5, <2>2
<1>11. Recorded(rows', log', past')
  BY <1>3, <1>4, <1>7, <1>10 DEF Recorded
<1>12. InOrder(log') /\ WholeStatements(log')
  BY <1>4, <1>8, <1>9 DEF InOrder, WholeStatements
<1>13. file' \in Nat \ {0}
  BY <1>3 DEF LogOK
<1> QED BY <1>11, <1>12, <1>13 DEF LogOK

-----------------------------------------------------------------------------
(* A run of statements.                                                     *)

Run(t) == t = [table |-> t.table, changes |-> t.changes, ok |-> t.ok]

\* The change a statement makes of a table.
Undoing(table, s, c) ==
  /\ StatementOk(table, s)
  /\ \E k \in Found(table, s) : Written(s) # table[k] /\ c = Change(table, k, Written(s))

LEMMA FoundKeys == ASSUME NEW table, NEW s PROVE Found(table, s) \subseteq Keys
BY DEF Found

LEMMA UndoingMakes ==
  ASSUME NEW table, NEW s, NEW c, Undoing(table, s, c), Written(s) \in Cell
  PROVE  Makes(table, c)
BY FoundKeys DEF Undoing, Makes

\* One statement changes nothing or makes one change.
LEMMA RunStatementIs ==
  ASSUME NEW t, Run(t), NEW s
  PROVE  LET r == RunStatement(t, s) IN
         /\ Run(r)
         /\ \/ r.table = t.table /\ r.changes = t.changes
            \/ \E c : /\ Undoing(t.table, s, c)
                      /\ r.table = Write(t.table, c) /\ r.changes = Append(t.changes, c)
<1> DEFINE cs == {c \in {Change(t.table, k, Written(s)) : k \in Found(t.table, s)} :
                    c.before # c.after}
           c == CHOOSE x \in cs : TRUE
           r == RunStatement(t, s)
<1>1. r = IF ~t.ok \/ ~StatementOk(t.table, s) THEN [t EXCEPT !.ok = FALSE]
          ELSE IF cs = {} THEN t ELSE [t EXCEPT !.table = Write(@, c), !.changes = Append(@, c)]
  BY DEF RunStatement
<1>2. ASSUME cs # {}
      PROVE  \E k \in Found(t.table, s) : /\ Written(s) # t.table[k]
                                          /\ c = Change(t.table, k, Written(s))
  <2>1. c \in cs
    <3> HIDE DEF cs
    <3> QED BY <1>2
  <2> HIDE DEF c
  <2>2. PICK k \in Found(t.table, s) : c = Change(t.table, k, Written(s)) /\ c.before # c.after
    BY <2>1
  <2>3. c.before = t.table[k] /\ c.after = Written(s)
    BY <2>2 DEF Change
  <2> QED BY <2>2, <2>3
<1> HIDE DEF c, cs, r
<1>3. CASE ~t.ok \/ ~StatementOk(t.table, s)
  <2>1. r = [table |-> t.table, changes |-> t.changes, ok |-> FALSE]
    BY <1>1, <1>3 DEF Run
  <2> QED BY <2>1 DEF r, Run
<1>4. CASE StatementOk(t.table, s) /\ t.ok /\ cs = {}
  BY <1>1, <1>4 DEF r
<1>5. CASE StatementOk(t.table, s) /\ t.ok /\ cs # {}
  <2>1. r = [table |-> Write(t.table, c), changes |-> Append(t.changes, c), ok |-> t.ok]
    BY <1>1, <1>5 DEF Run
  <2>2. Undoing(t.table, s, c)
    BY <1>2, <1>5 DEF Undoing
  <2>3. Run(r) /\ r.table = Write(t.table, c) /\ r.changes = Append(t.changes, c)
    BY <2>1 DEF Run
  <2> QED BY <2>2, <2>3 DEF r
<1> QED BY <1>3, <1>4, <1>5

\* The changes of a run are a chain of changes of the table, each made by a statement.
Effects(table, batch, m, t) ==
  /\ Run(t) /\ Chained(table, TablesOf(table, t.changes), t.changes)
  /\ Last(TablesOf(table, t.changes)) = t.table
  /\ \A i \in 1..Len(t.changes) : \E j \in 1..m :
       Undoing(TablesOf(table, t.changes)[i], batch[j], t.changes[i])

LEMMA FreshEffects == ASSUME NEW table \in Table, NEW batch PROVE Effects(table, batch, 0, Fresh(table))
<1>1. Run(Fresh(table)) /\ Fresh(table).table = table /\ Fresh(table).changes = <<>>
  BY DEF Run, Fresh
<1>2. Last(<<table>>) = table /\ \A i : i \notin 1..Len(<<>>)
  BY DEF Last
<1> QED BY <1>1, <1>2, ChainEmpty, TablesEmpty DEF Effects

LEMMA NextEffects ==
  ASSUME NEW table \in Table, NEW batch, NEW m \in Nat, NEW t, Effects(table, batch, m, t),
         Written(batch[m + 1]) \in Cell
  PROVE  Effects(table, batch, m + 1, RunStatement(t, batch[m + 1]))
<1> DEFINE s == batch[m + 1]
           r == RunStatement(t, s)
           ts == TablesOf(table, t.changes)
<1>1. /\ Run(t) /\ Chained(table, ts, t.changes) /\ Last(ts) = t.table
      /\ \A i \in 1..Len(t.changes) : \E j \in 1..m : Undoing(ts[i], batch[j], t.changes[i])
  BY DEF Effects
<1>2. \A j \in 1..m : j \in 1..m + 1
  OBVIOUS
<1>3. /\ Run(r)
      /\ \/ r.table = t.table /\ r.changes = t.changes
         \/ \E c : /\ Undoing(t.table, s, c)
                   /\ r.table = Write(t.table, c) /\ r.changes = Append(t.changes, c)
  BY <1>1, RunStatementIs
<1>4. Written(s) \in Cell
  OBVIOUS
<1> HIDE DEF r, s
<1>5. CASE r.table = t.table /\ r.changes = t.changes
  <2>1. Effects(table, batch, m + 1, r)
    BY <1>1, <1>2, <1>3, <1>5, Zenon DEF Effects
  <2> QED BY <2>1 DEF r, s
<1>6. ASSUME NEW c, Undoing(t.table, s, c), r.table = Write(t.table, c),
             r.changes = Append(t.changes, c)
      PROVE  Effects(table, batch, m + 1, r)
  <2> DEFINE us == TablesOf(table, r.changes)
             k == Len(t.changes)
  <2>1. Makes(Last(ts), c)
    BY <1>1, <1>4, <1>6, UndoingMakes
  <2>2. Chained(table, us, r.changes) /\ Last(us) = r.table
    BY <1>1, <1>6, <2>1, ChainAppend
  <2>3. /\ ts \in Seq(Table) /\ t.changes \in Seq(RowChanges) /\ Len(ts) = k + 1 /\ k \in Nat
    BY <1>1 DEF Chained
  <2>4. c \in RowChanges /\ Write(Last(ts), c) \in Table
    <3>1. Last(ts) \in Table
      BY <2>3 DEF Last
    <3> QED BY <2>1, <3>1, MakesIs
  <2>5. us = Append(ts, Write(Last(ts), c))
    BY <1>6, <2>3, <2>4, TablesAppend DEF Apply
  <2> HIDE DEF us, ts, k
  <2>6. Len(r.changes) = k + 1 /\ r.changes[k + 1] = c /\ \A i \in 1..k : r.changes[i] = t.changes[i]
    BY <1>6, <2>3, <2>4 DEF k
  <2>7. \A i \in 1..k + 1 : us[i] = ts[i]
    BY <2>3, <2>4, <2>5
  <2>8. Last(ts) = ts[k + 1]
    BY <2>3 DEF Last
  <2>9. ASSUME NEW i \in 1..k + 1 PROVE \E j \in 1..m + 1 : Undoing(us[i], batch[j], r.changes[i])
    <3>1. CASE i = k + 1
      <4>1. Undoing(us[i], batch[m + 1], r.changes[i])
        BY <1>1, <1>6, <2>6, <2>7, <2>8, <3>1 DEF s
      <4>2. m + 1 \in 1..m + 1
        OBVIOUS
      <4> QED BY <4>1, <4>2
    <3>2. CASE i \in 1..k
      <4>1. PICK j \in 1..m : Undoing(ts[i], batch[j], t.changes[i])
        BY <1>1, <3>2 DEF k
      <4> QED BY <1>2, <2>6, <2>7, <3>2, <4>1
    <3> QED BY <2>3, <3>1, <3>2
  <2> QED BY <1>3, <2>2, <2>6, <2>9 DEF Effects, us
<1>7. Effects(table, batch, m + 1, r)
  BY <1>3, <1>5, <1>6 DEF r, s
<1> QED BY <1>7 DEF r, s

LEMMA RunFolds == ASSUME NEW table, NEW batch PROVE RunBatch(table, batch) = Running!Fold(Fresh(table), batch)
BY DEF RunBatch, Fresh, Running!Fold, FoldLeft, MapThenFoldSet, Max, Running!FoldLeft,
       Running!MapThenFoldSet, Running!Max

LEMMA RunEffects ==
  ASSUME NEW table \in Table, NEW S, NEW batch \in Seq(S),
         \A j \in 1..Len(batch) : Written(batch[j]) \in Cell
  PROVE  Effects(table, batch, Len(batch), RunBatch(table, batch))
<1> DEFINE n == Len(batch)
           f(m) == Running!Fold(Fresh(table), SubSeq(batch, 1, m))
           T == {m \in Nat : m <= n => Effects(table, batch, m, f(m))}
<1>1. n \in Nat /\ SubSeq(batch, 1, n) = batch
  OBVIOUS
<1>2. f(0) = Fresh(table) /\ \A m \in Nat : m + 1 <= n => f(m + 1) = RunStatement(f(m), batch[m + 1])
  <2>1. 1 \in Nat \ {0} /\ 1 - 1 = 0 /\ \A m \in Nat : 1 <= m + 1
    OBVIOUS
  <2> QED BY <2>1, Running!FoldPart
<1> HIDE DEF f
<1>3. 0 \in T
  BY <1>2, FreshEffects
<1>4. ASSUME NEW m \in Nat, m \in T PROVE m + 1 \in T
  <2> SUFFICES ASSUME m + 1 <= n PROVE Effects(table, batch, m + 1, f(m + 1))
    OBVIOUS
  <2>1. Effects(table, batch, m, f(m)) /\ m + 1 \in 1..n
    BY <1>1, <1>4
  <2>2. Written(batch[m + 1]) \in Cell
    BY <2>1
  <2> QED BY <1>2, <2>1, <2>2, NextEffects
<1>5. n \in T
  <2> HIDE DEF T
  <2> QED BY <1>1, <1>3, <1>4, Running!SetInduction
<1>6. Effects(table, batch, n, f(n))
  BY <1>1, <1>5
<1> QED BY <1>1, <1>6, RunFolds DEF f

\* Where a run ends does not depend on the changes it has made.
Same(x, y) == Run(x) /\ Run(y) /\ x.table = y.table /\ x.ok = y.ok

LEMMA RunUpdates ==
  ASSUME NEW t, Run(t), NEW c
  PROVE  /\ [t EXCEPT !.ok = FALSE] = [table |-> t.table, changes |-> t.changes, ok |-> FALSE]
         /\ [t EXCEPT !.table = Write(@, c), !.changes = Append(@, c)]
              = [table |-> Write(t.table, c), changes |-> Append(t.changes, c), ok |-> t.ok]
<1>1. ASSUME NEW r, r = [t EXCEPT !.ok = FALSE]
      PROVE  r = [table |-> t.table, changes |-> t.changes, ok |-> FALSE]
  BY <1>1 DEF Run
<1>2. ASSUME NEW r, r = [t EXCEPT !.table = Write(@, c), !.changes = Append(@, c)]
      PROVE  r = [table |-> Write(t.table, c), changes |-> Append(t.changes, c), ok |-> t.ok]
  BY <1>2 DEF Run
<1> QED BY <1>1, <1>2, Zenon

LEMMA SameStatement ==
  ASSUME NEW x, NEW y, Same(x, y), NEW s
  PROVE  Same(RunStatement(x, s), RunStatement(y, s))
<1> DEFINE table == x.table
           cs == {c \in {Change(table, k, Written(s)) : k \in Found(table, s)} :
                    c.before # c.after}
           c == CHOOSE z \in cs : TRUE
           step(t) == IF ~t.ok \/ ~StatementOk(table, s) THEN [t EXCEPT !.ok = FALSE]
                      ELSE IF cs = {} THEN t
                      ELSE [t EXCEPT !.table = Write(@, c), !.changes = Append(@, c)]
<1>1. RunStatement(x, s) = step(x) /\ RunStatement(y, s) = step(y)
  BY DEF RunStatement, Same
<1> HIDE DEF c, cs
<1>2. /\ x = [table |-> table, changes |-> x.changes, ok |-> x.ok]
      /\ y = [table |-> table, changes |-> y.changes, ok |-> y.ok]
      /\ x.table = table /\ y.table = table /\ x.ok = y.ok
  BY DEF Same, Run
<1> HIDE DEF table
<1>3. Same(step(x), step(y))
  <2>1. CASE ~x.ok \/ ~StatementOk(table, s)
    <3>1. step(x) = [x EXCEPT !.ok = FALSE] /\ step(y) = [y EXCEPT !.ok = FALSE]
      BY <1>2, <2>1, Zenon
    <3>2. Run(x) /\ Run(y)
      BY DEF Same
    <3>3. [x EXCEPT !.ok = FALSE] = [table |-> table, changes |-> x.changes, ok |-> FALSE]
      BY <1>2, <3>2, RunUpdates, Zenon
    <3>4. [y EXCEPT !.ok = FALSE] = [table |-> table, changes |-> y.changes, ok |-> FALSE]
      BY <1>2, <3>2, RunUpdates, Zenon
    <3> HIDE DEF step
    <3> QED BY <3>1, <3>3, <3>4 DEF Same, Run
  <2>2. CASE x.ok /\ StatementOk(table, s) /\ cs = {}
    <3>1. step(x) = x /\ step(y) = y
      BY <1>2, <2>2, Zenon
    <3> QED BY <3>1
  <2>3. CASE x.ok /\ StatementOk(table, s) /\ cs # {}
    <3> DEFINE more(t) == [t EXCEPT !.table = Write(@, c), !.changes = Append(@, c)]
    <3>1. step(x) = more(x) /\ step(y) = more(y)
      BY <1>2, <2>3, Zenon
    <3>2. Run(x) /\ Run(y)
      BY DEF Same
    <3>3. more(x) = [table |-> Write(table, c), changes |-> Append(x.changes, c), ok |-> x.ok]
      <4>1. more(x) = [table |-> Write(x.table, c), changes |-> Append(x.changes, c), ok |-> x.ok]
        BY ONLY <3>2, RunUpdates, Zenon DEF more
      <4> QED BY ONLY <1>2, <4>1, Zenon
    <3>4. more(y) = [table |-> Write(table, c), changes |-> Append(y.changes, c), ok |-> x.ok]
      <4>1. more(y) = [table |-> Write(y.table, c), changes |-> Append(y.changes, c), ok |-> y.ok]
        BY ONLY <3>2, RunUpdates, Zenon DEF more
      <4> QED BY ONLY <1>2, <4>1, Zenon
    <3> HIDE DEF step, more
    <3> QED BY <3>1, <3>3, <3>4 DEF Same, Run
  <2> QED BY <2>1, <2>2, <2>3
<1> QED BY <1>1, <1>3, Zenon

LEMMA SameRun ==
  ASSUME NEW x, NEW y, Same(x, y), NEW S, NEW batch \in Seq(S)
  PROVE  Same(Running!Fold(x, batch), Running!Fold(y, batch))
<1> DEFINE n == Len(batch)
           f(t, m) == Running!Fold(t, SubSeq(batch, 1, m))
           T == {m \in Nat : m <= n => Same(f(x, m), f(y, m))}
<1>1. n \in Nat /\ SubSeq(batch, 1, n) = batch
  OBVIOUS
<1>2. ASSUME NEW t
      PROVE  f(t, 0) = t /\ \A m \in Nat : m + 1 <= n => f(t, m + 1) = RunStatement(f(t, m), batch[m + 1])
  <2>1. 1 \in Nat \ {0} /\ 1 - 1 = 0 /\ \A m \in Nat : 1 <= m + 1
    OBVIOUS
  <2> QED BY <2>1, Running!FoldPart
<1> HIDE DEF f
<1>3. 0 \in T
  BY <1>2
<1>4. ASSUME NEW m \in Nat, m \in T PROVE m + 1 \in T
  <2> SUFFICES ASSUME m + 1 <= n PROVE Same(f(x, m + 1), f(y, m + 1))
    OBVIOUS
  <2>1. Same(f(x, m), f(y, m))
    BY <1>1, <1>4
  <2>2. Same(RunStatement(f(x, m), batch[m + 1]), RunStatement(f(y, m), batch[m + 1]))
    BY <2>1, SameStatement
  <2>3. /\ f(x, m + 1) = RunStatement(f(x, m), batch[m + 1])
        /\ f(y, m + 1) = RunStatement(f(y, m), batch[m + 1])
    BY <1>2
  <2> QED BY <2>2, <2>3
<1>5. n \in T
  <2> HIDE DEF T
  <2> QED BY <1>1, <1>3, <1>4, Running!SetInduction
<1>6. Same(f(x, n), f(y, n))
  BY <1>1, <1>5
<1> QED BY <1>1, <1>6 DEF f

LEMMA FreshRuns == ASSUME NEW table PROVE Run(Fresh(table))
BY DEF Run, Fresh

\* A run goes on from where its first part ended.
LEMMA RunConcat ==
  ASSUME NEW table, NEW S, NEW u \in Seq(S), NEW v \in Seq(S), RunBatch(table, u).ok = TRUE,
         Run(RunBatch(table, u))
  PROVE  Same(RunBatch(table, u \o v), RunBatch(RunBatch(table, u).table, v))
<1> DEFINE t == RunBatch(table, u)
<1>1. Running!Fold(Fresh(table), u \o v) = Running!Fold(Running!Fold(Fresh(table), u), v)
  BY Running!FoldConcat
<1>2. RunBatch(table, u \o v) = Running!Fold(t, v)
  BY <1>1, RunFolds
<1>3. Same(t, Fresh(t.table))
  BY FreshRuns DEF Same, Fresh
<1> HIDE DEF t
<1>4. Same(Running!Fold(t, v), Running!Fold(Fresh(t.table), v))
  BY <1>3, SameRun
<1>5. RunBatch(t.table, v) = Running!Fold(Fresh(t.table), v)
  BY RunFolds
<1> QED BY <1>2, <1>4, <1>5 DEF t

\* ... and so do a statement and the rest.
LEMMA RunCons ==
  ASSUME NEW table, NEW S, NEW s \in S, NEW v \in Seq(S), RunStatement(Fresh(table), s).ok = TRUE
  PROVE  Same(RunBatch(table, <<s>> \o v), RunBatch(RunStatement(Fresh(table), s).table, v))
<1> DEFINE t == RunStatement(Fresh(table), s)
<1>1. Running!Fold(Fresh(table), <<s>> \o v) = Running!Fold(t, v)
  BY Running!FoldCons
<1>2. Run(t)
  BY FreshRuns, RunStatementIs
<1>3. Same(t, Fresh(t.table))
  BY <1>2, FreshRuns DEF Same, Fresh
<1> HIDE DEF t
<1>4. Same(Running!Fold(t, v), Running!Fold(Fresh(t.table), v))
  BY <1>3, SameRun
<1>5. /\ RunBatch(t.table, v) = Running!Fold(Fresh(t.table), v)
      /\ RunBatch(table, <<s>> \o v) = Running!Fold(t, v)
  BY <1>1, RunFolds
<1> QED BY <1>4, <1>5 DEF t

-----------------------------------------------------------------------------
(* The rows of mysqlbinlog's text.                                          *)

Columns == Keys \cup Values

\* Row events as ReverseSQL can meet them: what is second of two columns is a value.
RowEvents ==
  {e \in [type : Types, before : Seq(Columns) \cup {NoImage}, after : Seq(Columns) \cup {NoImage}] :
     e.before # NoImage /\ Len(e.before) = 2 => e.before[2] \in Values}

\* The scan at any line ...
Sound(s) ==
  /\ s = [inRow |-> s.inRow, type |-> s.type, values |-> s.values, events |-> s.events]
  /\ s.inRow \in BOOLEAN /\ s.values \in Seq(Columns) /\ s.events \in Seq(RowEvents)
  /\ IF s.inRow THEN s.type \in Types /\ (Len(s.values) >= 2 => s.values[2] \in Values)
                ELSE s.values = <<>>

\* ... and where an entry of the log ends.
Settled(s) == Sound(s) /\ (s.inRow => Len(s.values) >= 2)

LEMMA Parsing == \A v : /\ v \in Columns => ParseColumnValue(v) \in Columns
                        /\ v \in Values => ParseColumnValue(v) \in Values
BY FlashbackAssumption DEF ParseColumnValue, Columns

LEMMA Halves == \A n \in Nat : /\ n \div 2 \in Nat /\ n \div 2 <= n
                               /\ (n % 2 = 0 => 2 * (n \div 2) = n)
                               /\ (n \div 2 = 2 => n >= 2)
OBVIOUS

LEMMA RowEventIs ==
  ASSUME NEW type \in Types, NEW values \in Seq(Columns),
         Len(values) >= 2 => values[2] \in Values
  PROVE  MakeRowEvent(type, values) \in RowEvents
<1> DEFINE images == Seq(Columns) \cup {NoImage}
           n == Len(values)
           half == n \div 2
<1>1. ASSUME NEW before \in images, NEW after \in images,
             before # NoImage /\ Len(before) = 2 => before[2] \in Values
      PROVE  RowEvent(type, before, after) \in RowEvents
  <2>1. RowEvent(type, before, after) \in [type : Types, before : images, after : images]
    BY DEF RowEvent
  <2>2. RowEvent(type, before, after).before = before
    BY DEF RowEvent
  <2> QED BY <1>1, <2>1, <2>2 DEF RowEvents
<1>2. values \in images /\ NoImage \in images /\ n \in Nat
  OBVIOUS
<1>3. n = 2 => values[2] \in Values
  OBVIOUS
<1>4. CASE type = "DELETE"
  <2>1. MakeRowEvent(type, values) = RowEvent(type, values, NoImage)
    BY <1>4 DEF MakeRowEvent
  <2> HIDE DEF images
  <2> QED BY <1>1, <1>2, <1>3, <2>1
<1>5. CASE type = "INSERT"
  <2>1. MakeRowEvent(type, values) = RowEvent(type, NoImage, values)
    BY <1>5 DEF MakeRowEvent
  <2> HIDE DEF images
  <2> QED BY <1>1, <1>2, <2>1
<1>6. CASE type = "UPDATE" /\ n % 2 # 0
  <2>1. MakeRowEvent(type, values) = RowEvent(type, NoImage, NoImage)
    BY <1>6 DEF MakeRowEvent
  <2> HIDE DEF images
  <2> QED BY <1>1, <1>2, <2>1
<1>7. CASE type = "UPDATE" /\ n % 2 = 0
  <2> DEFINE before == SubSeq(values, 1, half)
             after == SubSeq(values, half + 1, 2 * half)
  <2>1. MakeRowEvent(type, values) = RowEvent(type, before, after)
    BY <1>7 DEF MakeRowEvent
  <2>2. half \in Nat /\ half <= n /\ 2 * half = n /\ (half = 2 => n >= 2)
    BY <1>2, <1>7, Halves
  <2> HIDE DEF half
  <2>3. before \in Seq(Columns) /\ Len(before) = half /\ \A i \in 1..half : before[i] = values[i]
    BY <1>2, <2>2
  <2>4. after \in Seq(Columns)
    <3>1. \A i \in half + 1..2 * half : i \in 1..n
      BY <1>2, <2>2
    <3> QED BY <1>2, <2>2, <3>1
  <2>5. Len(before) = 2 => before[2] \in Values
    <3>1. half = 2 => 2 \in 1..half
      OBVIOUS
    <3> QED BY <2>2, <2>3, <3>1
  <2>6. before \in images /\ after \in images /\ (Len(before) = 2 => before[2] \in Values)
    BY <2>3, <2>4, <2>5
  <2> HIDE DEF before, after, n, images
  <2> QED BY <1>1, <2>1, <2>6, Zenon
<1> QED BY <1>4, <1>5, <1>6, <1>7 DEF Types

LEMMA FlushIs ==
  ASSUME NEW s, Sound(s)
  PROVE  /\ Flush(s) \in Seq(RowEvents)
         /\ s.inRow => Flush(s) = Append(s.events, MakeRowEvent(s.type, s.values))
         /\ ~s.inRow => Flush(s) = s.events
<1>1. s.inRow => MakeRowEvent(s.type, s.values) \in RowEvents
  BY RowEventIs DEF Sound
<1> QED BY <1>1 DEF Flush, Sound

\* What each line does.
LEMMA HeadScans ==
  ASSUME NEW s, NEW type
  PROVE  ScanLine(s, HeadLine(Target, type))
           = [inRow |-> TRUE, type |-> type, values |-> <<>>, events |-> Flush(s)]
BY DEF ScanLine, HeadLine

LEMMA OtherHeadScans ==
  ASSUME NEW s, NEW type, NEW table, table # Target
  PROVE  ScanLine(s, HeadLine(table, type)) = s
BY DEF ScanLine, HeadLine

LEMMA ColumnScans ==
  ASSUME NEW s, Sound(s), NEW v
  PROVE  ScanLine(s, Column(v)) =
           IF s.inRow THEN [inRow |-> TRUE, type |-> s.type, events |-> s.events,
                            values |-> Append(s.values, ParseColumnValue(v))]
           ELSE s
<1> DEFINE l == Column(v)
           x == ParseColumnValue(v)
<1>1. l.is = "column" /\ l.value = v
  BY DEF Column
<1> HIDE DEF l
<1>2. ScanLine(s, l) = IF s.inRow THEN [s EXCEPT !.values = Append(@, x)] ELSE s
  BY <1>1 DEF ScanLine, Sound
<1> HIDE DEF x
<1>3. ASSUME s.inRow, NEW r, r = [s EXCEPT !.values = Append(@, x)]
      PROVE  r = [inRow |-> TRUE, type |-> s.type, events |-> s.events, values |-> Append(s.values, x)]
  BY <1>3 DEF Sound
<1>4. ScanLine(s, l) = IF s.inRow THEN [inRow |-> TRUE, type |-> s.type, events |-> s.events,
                                        values |-> Append(s.values, x)] ELSE s
  BY <1>2, <1>3, Zenon
<1> QED BY <1>4, Zenon DEF l, x

LEMMA GapScans ==
  ASSUME NEW s, Sound(s)
  PROVE  ScanLine(s, Gap) =
           IF s.inRow THEN [inRow |-> FALSE, type |-> s.type, values |-> <<>>, events |-> Flush(s)]
           ELSE s
<1> DEFINE l == Gap
           x == Flush(s)
<1>1. l.is = "gap"
  BY DEF Gap
<1> HIDE DEF l
<1>2. ScanLine(s, l) = IF s.inRow THEN [s EXCEPT !.inRow = FALSE, !.values = <<>>, !.events = x] ELSE s
  BY <1>1 DEF ScanLine, Sound
<1> HIDE DEF x
<1>3. ASSUME NEW r, r = [s EXCEPT !.inRow = FALSE, !.values = <<>>, !.events = x]
      PROVE  r = [inRow |-> FALSE, type |-> s.type, values |-> <<>>, events |-> x]
  BY <1>3 DEF Sound
<1>4. ScanLine(s, l) = IF s.inRow THEN [inRow |-> FALSE, type |-> s.type, values |-> <<>>, events |-> x]
                       ELSE s
  BY <1>2, <1>3, Zenon
<1> QED BY <1>4, Zenon DEF l, x

\* A row change as the binary log can hold one.
SoundChange(c) == c \in RowChanges /\ c.type = ChangeType(c.before, c.after) /\ c.before # c.after

LEMMA MakesSound == ASSUME NEW table \in Table, NEW c, Makes(table, c) PROVE SoundChange(c)
<1>1. CASE c = OtherRow
  <2>1. Null # Absent
    BY FlashbackAssumption
  <2> QED BY <1>1, <2>1, OtherRowIs DEF SoundChange, ChangeType
<1>2. ASSUME NEW k \in Keys, NEW w \in Cell, w # table[k], c = Change(table, k, w)
      PROVE  SoundChange(c)
  BY <1>2, ChangeIs DEF SoundChange
<1> QED BY <1>1, <1>2 DEF Makes

\* The columns of its images, in the order of the text.
ColumnsOf(c) == (IF c.type = "INSERT" THEN <<>> ELSE Image(c.key, c.before))
                  \o (IF c.type = "DELETE" THEN <<>> ELSE Image(c.key, c.after))

LEMMA TwoPairs ==
  ASSUME NEW S, NEW u \in Seq(S), NEW v \in Seq(S), Len(u) = 2, Len(v) = 2
  PROVE  /\ u \o v \in Seq(S) /\ Len(u \o v) = 4
         /\ (u \o v)[1] = u[1] /\ (u \o v)[2] = u[2] /\ (u \o v)[3] = v[1] /\ (u \o v)[4] = v[2]
<1> DEFINE w == u \o v
<1>1. /\ w \in Seq(S) /\ Len(w) = Len(u) + Len(v)
      /\ \A i \in 1..Len(u) : w[i] = u[i]
      /\ \A i \in 1..Len(v) : w[Len(u) + i] = v[i]
  <2>1. ASSUME NEW x \in Seq(S), NEW y \in Seq(S)
        PROVE  /\ x \o y \in Seq(S) /\ Len(x \o y) = Len(x) + Len(y)
               /\ \A i \in 1..Len(x) : (x \o y)[i] = x[i]
               /\ \A i \in 1..Len(y) : (x \o y)[Len(x) + i] = y[i]
    BY Joined DEF Extends
  <2> QED BY <2>1
<1> HIDE DEF w
<1>2. /\ w \in Seq(S) /\ Len(w) = 4
      /\ \A i \in 1..2 : w[i] = u[i]
      /\ \A i \in 1..2 : w[2 + i] = v[i]
  BY <1>1
<1>3. 1 \in 1..2 /\ 2 \in 1..2 /\ 2 + 1 = 3 /\ 2 + 2 = 4
  OBVIOUS
<1>4. w[1] = u[1] /\ w[2] = u[2] /\ w[3] = v[1] /\ w[4] = v[2]
  BY <1>2, <1>3
<1> QED BY <1>2, <1>4 DEF w

LEMMA HalvesOfFour ==
  ASSUME NEW S, NEW p \in Seq(S), Len(p) = 4
  PROVE  /\ SubSeq(p, 1, 2) \in Seq(S) /\ Len(SubSeq(p, 1, 2)) = 2
         /\ SubSeq(p, 1, 2)[1] = p[1] /\ SubSeq(p, 1, 2)[2] = p[2]
         /\ SubSeq(p, 3, 4) \in Seq(S) /\ Len(SubSeq(p, 3, 4)) = 2
         /\ SubSeq(p, 3, 4)[1] = p[3] /\ SubSeq(p, 3, 4)[2] = p[4]
<1>1. ASSUME NEW a \in {1, 3}
      PROVE  /\ SubSeq(p, a, a + 1) \in Seq(S) /\ Len(SubSeq(p, a, a + 1)) = 2
             /\ SubSeq(p, a, a + 1)[1] = p[a] /\ SubSeq(p, a, a + 1)[2] = p[a + 1]
  <2>1. a \in Nat \ {0} /\ a + 1 <= Len(p)
    OBVIOUS
  <2> QED BY <2>1, PairIs
<1>2. 1 + 1 = 2 /\ 3 + 1 = 4
  OBVIOUS
<1>3. 1 \in {1, 3} /\ 3 \in {1, 3}
  OBVIOUS
<1> QED BY <1>1, <1>2, <1>3

LEMMA ColumnsAre ==
  ASSUME NEW c, SoundChange(c)
  PROVE  LET k == c.key
             n == IF c.type = "UPDATE" THEN 4 ELSE 2
         IN /\ ColumnsOf(c) \in Seq(Columns) /\ Len(ColumnsOf(c)) = n
            /\ ColumnsOf(c)[2] \in Values
            /\ c.type = "INSERT" => ColumnsOf(c) = <<k, c.after>> /\ c.before = Absent
            /\ c.type = "DELETE" => ColumnsOf(c) = <<k, c.before>> /\ c.after = Absent
            /\ c.type = "UPDATE" => /\ ColumnsOf(c) = <<k, c.before>> \o <<k, c.after>>
                                    /\ c.before # Absent /\ c.after # Absent
            /\ c.type \in Types
<1> DEFINE k == c.key
           b == c.before
           a == c.after
           cols == ColumnsOf(c)
<1>1. k \in Columns /\ b \in Cell /\ a \in Cell /\ c.type = ChangeType(b, a) /\ a # b
  BY FlashbackAssumption DEF SoundChange, RowChanges, Columns
<1>2. cols = (IF c.type = "INSERT" THEN <<>> ELSE <<k, b>>) \o (IF c.type = "DELETE" THEN <<>> ELSE <<k, a>>)
  BY DEF ColumnsOf, Image
<1> HIDE DEF k, b, a, cols
<1>3. ASSUME NEW x \in Values
      PROVE  /\ <<k, x>> \in Seq(Columns) /\ Len(<<k, x>>) = 2 /\ <<k, x>>[2] = x
             /\ <<>> \o <<k, x>> = <<k, x>> /\ <<k, x>> \o <<>> = <<k, x>>
  <2>1. <<k, x>> \in Seq(Columns) /\ Len(<<k, x>>) = 2
    BY <1>1 DEF Columns
  <2> DEFINE u == <<k, x>>
  <2>2. \A v \in Seq(Columns) : <<>> \o v = v /\ v \o <<>> = v
    OBVIOUS
  <2> QED BY <2>1, <2>2
<1>4. CASE b = Absent
  <2>1. c.type = "INSERT" /\ a \in Values
    BY <1>1, <1>4 DEF ChangeType, Cell
  <2>2. cols = <<k, a>>
    BY <1>2, <1>3, <2>1
  <2> QED BY <1>3, <1>4, <2>1, <2>2 DEF cols, Types, k, a, b
<1>5. CASE b # Absent /\ a = Absent
  <2>1. c.type = "DELETE" /\ b \in Values
    BY <1>1, <1>5 DEF ChangeType, Cell
  <2>2. cols = <<k, b>>
    BY <1>2, <1>3, <2>1
  <2> QED BY <1>3, <1>5, <2>1, <2>2 DEF cols, Types, k, a, b
<1>6. CASE b # Absent /\ a # Absent
  <2>1. c.type = "UPDATE" /\ b \in Values /\ a \in Values
    BY <1>1, <1>6 DEF ChangeType, Cell
  <2>2. cols = <<k, b>> \o <<k, a>>
    BY <1>2, <2>1
  <2>3. cols \in Seq(Columns) /\ Len(cols) = 4 /\ cols[2] = b
    <3> DEFINE u == <<k, b>>
               v == <<k, a>>
    <3>1. u \in Seq(Columns) /\ v \in Seq(Columns) /\ Len(u) = 2 /\ Len(v) = 2 /\ u[2] = b
      BY <1>3, <2>1
    <3> HIDE DEF u, v
    <3>2. u \o v \in Seq(Columns) /\ Len(u \o v) = 4 /\ (u \o v)[2] = u[2]
      BY <3>1, TwoPairs
    <3> QED BY <2>2, <3>1, <3>2 DEF u, v
  <2> QED BY <1>6, <2>1, <2>2, <2>3 DEF cols, Types, k, a, b
<1> QED BY <1>4, <1>5, <1>6

\* What the scan takes them for.
Parsed(cols) == [i \in DOMAIN cols |-> ParseColumnValue(cols[i])]

LEMMA ParsedIs ==
  ASSUME NEW cols \in Seq(Columns)
  PROVE  /\ Parsed(cols) \in Seq(Columns) /\ Len(Parsed(cols)) = Len(cols)
         /\ \A i \in 1..Len(cols) : Parsed(cols)[i] = ParseColumnValue(cols[i])
<1>1. Len(cols) \in Nat /\ DOMAIN cols = 1..Len(cols) /\ \A i \in 1..Len(cols) : cols[i] \in Columns
  OBVIOUS
<1>2. Parsed(cols) = [i \in 1..Len(cols) |-> ParseColumnValue(cols[i])]
  BY <1>1 DEF Parsed
<1>3. \A i \in 1..Len(cols) : ParseColumnValue(cols[i]) \in Columns
  BY <1>1, Parsing
<1> QED BY <1>1, <1>2, <1>3

\* The images of a row come back from its columns.
LEMMA ColumnsMakeEvent ==
  ASSUME NEW c, SoundChange(c)
  PROVE  MakeRowEvent(c.type, Parsed(ColumnsOf(c))) = AsEvent(c)
<1> DEFINE k == ParseColumnValue(c.key)
           b == ParseColumnValue(c.before)
           a == ParseColumnValue(c.after)
           cols == ColumnsOf(c)
           p == Parsed(cols)
<1>1. AsEvent(c) = RowEvent(c.type, IF c.before = Absent THEN NoImage ELSE <<k, b>>,
                                    IF c.after = Absent THEN NoImage ELSE <<k, a>>)
  BY Zenon DEF AsEvent
<1>2. cols \in Seq(Columns) /\ Len(cols) = IF c.type = "UPDATE" THEN 4 ELSE 2
  BY ColumnsAre
<1>3. p \in Seq(Columns) /\ Len(p) = Len(cols) /\ \A i \in 1..Len(cols) : p[i] = ParseColumnValue(cols[i])
  BY <1>2, ParsedIs
<1>4. ASSUME NEW x, NEW y, NEW u \in Seq(Columns), Len(u) = 2, u[1] = x, u[2] = y
      PROVE  u = <<x, y>>
  BY <1>4
<1>5. CASE c.type = "INSERT"
  <2>1. cols = <<c.key, c.after>> /\ c.before = Absent
    BY <1>5, ColumnsAre
  <2>2. p[1] = k /\ p[2] = a /\ Len(p) = 2
    BY <1>2, <1>3, <1>5, <2>1
  <2>3. p = <<k, a>>
    <3> HIDE DEF p, k, a
    <3> QED BY <1>3, <1>4, <2>2
  <2>4. c.after # Absent
    BY <2>1 DEF SoundChange
  <2>5. MakeRowEvent(c.type, p) = RowEvent(c.type, NoImage, p)
    <3> HIDE DEF p
    <3> QED BY <1>5 DEF MakeRowEvent
  <2> HIDE DEF p, k, a
  <2>6. MakeRowEvent(c.type, p) = AsEvent(c)
    BY <1>1, <2>1, <2>3, <2>4, <2>5, Zenon
  <2> QED BY <2>6 DEF p
<1>6. CASE c.type = "DELETE"
  <2>1. cols = <<c.key, c.before>> /\ c.after = Absent
    BY <1>6, ColumnsAre
  <2>2. p[1] = k /\ p[2] = b /\ Len(p) = 2
    BY <1>2, <1>3, <1>6, <2>1
  <2>3. p = <<k, b>>
    <3> HIDE DEF p, k, b
    <3> QED BY <1>3, <1>4, <2>2
  <2>4. c.before # Absent
    BY <2>1 DEF SoundChange
  <2>5. MakeRowEvent(c.type, p) = RowEvent(c.type, p, NoImage)
    <3> HIDE DEF p
    <3> QED BY <1>6 DEF MakeRowEvent
  <2> HIDE DEF p, k, b
  <2>6. MakeRowEvent(c.type, p) = AsEvent(c)
    BY <1>1, <2>1, <2>3, <2>4, <2>5, Zenon
  <2> QED BY <2>6 DEF p
<1>7. CASE c.type = "UPDATE"
  <2>1. cols = <<c.key, c.before>> \o <<c.key, c.after>> /\ c.before # Absent /\ c.after # Absent
    BY <1>7, ColumnsAre
  <2>2. cols[1] = c.key /\ cols[2] = c.before /\ cols[3] = c.key /\ cols[4] = c.after /\ Len(cols) = 4
    <3> DEFINE u == <<c.key, c.before>>
               v == <<c.key, c.after>>
    <3>1. Len(u) = 2 /\ Len(v) = 2 /\ u[1] = c.key /\ u[2] = c.before /\ v[1] = c.key /\ v[2] = c.after
          /\ u \in Seq({c.key, c.before, c.after}) /\ v \in Seq({c.key, c.before, c.after})
      OBVIOUS
    <3> HIDE DEF u, v
    <3>2. (u \o v)[1] = u[1] /\ (u \o v)[2] = u[2] /\ (u \o v)[3] = v[1] /\ (u \o v)[4] = v[2]
          /\ Len(u \o v) = 4
      BY <3>1, TwoPairs
    <3>3. cols = u \o v
      BY <2>1 DEF u, v
    <3> HIDE DEF cols
    <3> QED BY <3>1, <3>2, <3>3
  <2>3. p[1] = k /\ p[2] = b /\ p[3] = k /\ p[4] = a /\ Len(p) = 4
    <3> HIDE DEF cols, p
    <3> QED BY <1>3, <2>2
  <2> HIDE DEF p, cols
  <2>4. SubSeq(p, 1, 2) = <<k, b>> /\ SubSeq(p, 3, 4) = <<k, a>>
    <3> HIDE DEF k, b, a
    <3>1. /\ SubSeq(p, 1, 2) \in Seq(Columns) /\ Len(SubSeq(p, 1, 2)) = 2
          /\ SubSeq(p, 1, 2)[1] = p[1] /\ SubSeq(p, 1, 2)[2] = p[2]
      BY <1>3, <2>3, HalvesOfFour
    <3>2. /\ SubSeq(p, 3, 4) \in Seq(Columns) /\ Len(SubSeq(p, 3, 4)) = 2
          /\ SubSeq(p, 3, 4)[1] = p[3] /\ SubSeq(p, 3, 4)[2] = p[4]
      BY <1>3, <2>3, HalvesOfFour
    <3> QED BY <1>4, <2>3, <3>1, <3>2
  <2>5. MakeRowEvent(c.type, p) = RowEvent(c.type, SubSeq(p, 1, 2), SubSeq(p, 3, 4))
    <3>1. 4 \div 2 = 2 /\ 4 % 2 = 0 /\ 2 * 2 = 4 /\ 2 + 1 = 3
      OBVIOUS
    <3> QED BY <1>7, <2>3, <3>1 DEF MakeRowEvent
  <2> HIDE DEF k, b, a
  <2>6. MakeRowEvent(c.type, p) = AsEvent(c)
    BY <1>1, <2>1, <2>4, <2>5, Zenon
  <2> QED BY <2>6 DEF p, cols
<1>8. c.type \in Types
  BY DEF SoundChange, RowChanges
<1> QED BY <1>5, <1>6, <1>7, <1>8 DEF Types

LEMMA AsEventIs == ASSUME NEW c, SoundChange(c) PROVE AsEvent(c) \in RowEvents
<1> DEFINE u == ColumnsOf(c)
<1>1. u \in Seq(Columns) /\ Len(u) = (IF c.type = "UPDATE" THEN 4 ELSE 2) /\ u[2] \in Values
  BY ColumnsAre, Zenon
<1>2. 2 \in 1..Len(u)
  BY <1>1
<1> HIDE DEF u
<1>3. Parsed(u) \in Seq(Columns) /\ Parsed(u)[2] = ParseColumnValue(u[2])
  BY <1>1, <1>2, ParsedIs
<1>4. c.type \in Types /\ Parsed(u)[2] \in Values
  BY <1>1, <1>3, Parsing DEF SoundChange, RowChanges
<1>5. MakeRowEvent(c.type, Parsed(u)) \in RowEvents
  BY <1>3, <1>4, RowEventIs
<1> QED BY <1>5, ColumnsMakeEvent DEF u

Lines == [is : {"head"}, table : Tables, type : Types] \cup [is : {"column"}, value : Columns]
           \cup {Gap}

\* The lines of an entry that is a row.
LEMMA LinesAre ==
  ASSUME NEW e, e.kind = "rows", e.ends \in BOOLEAN, SoundChange(e.change)
  PROVE  LET lines == EntryLines(e)
             cols == ColumnsOf(e.change)
         IN /\ lines \in Seq(Lines)
            /\ Len(lines) = Len(cols) + (IF e.ends THEN 2 ELSE 1)
            /\ lines[1] = HeadLine(e.change.table, e.change.type)
            /\ \A i \in 1..Len(cols) : lines[i + 1] = Column(cols[i])
            /\ e.ends => lines[Len(cols) + 2] = Gap
<1> DEFINE c == e.change
           cols == ColumnsOf(c)
           n == Len(cols)
           head == <<HeadLine(c.table, c.type)>>
           cs == [i \in DOMAIN cols |-> Column(cols[i])]
           end == IF e.ends THEN <<Gap>> ELSE <<>>
           u == head \o cs
           lines == EntryLines(e)
<1>1. cols \in Seq(Columns) /\ n \in Nat /\ c.type \in Types /\ c.table \in Tables
  <2>1. c.type \in Types /\ c.table \in Tables
    BY DEF SoundChange, RowChanges
  <2>2. cols \in Seq(Columns)
    BY ColumnsAre, Zenon
  <2> HIDE DEF cols
  <2> QED BY <2>1, <2>2
<1>2. lines = u \o end
  BY Zenon DEF EntryLines, RowLines, ColumnsOf
<1>3. ASSUME NEW x \in Seq(Lines), NEW y \in Seq(Lines)
      PROVE  /\ x \o y \in Seq(Lines) /\ Len(x \o y) = Len(x) + Len(y)
             /\ \A i \in 1..Len(x) : (x \o y)[i] = x[i]
             /\ \A i \in 1..Len(y) : (x \o y)[Len(x) + i] = y[i]
  BY Joined DEF Extends
<1>4. head \in Seq(Lines) /\ Len(head) = 1 /\ head[1] = HeadLine(c.table, c.type)
  BY <1>1 DEF Lines, HeadLine
<1>5. cs \in Seq(Lines) /\ Len(cs) = n /\ \A i \in 1..n : cs[i] = Column(cols[i])
  <2> HIDE DEF cols
  <2>1. DOMAIN cols = 1..n /\ \A i \in 1..n : cols[i] \in Columns
    BY <1>1
  <2>2. \A i \in 1..n : Column(cols[i]) \in Lines
    BY <2>1 DEF Column, Lines
  <2>3. cs = [i \in 1..n |-> Column(cols[i])]
    BY <2>1
  <2> HIDE DEF n, cs
  <2> QED BY <1>1, <2>2, <2>3
<1>6. end \in Seq(Lines) /\ Len(end) = (IF e.ends THEN 1 ELSE 0) /\ (e.ends => end[1] = Gap)
  <2>1. <<Gap>> \in Seq(Lines) /\ Len(<<Gap>>) = 1 /\ <<Gap>>[1] = Gap
    BY DEF Lines
  <2>2. <<>> \in Seq(Lines) /\ Len(<<>>) = 0
    OBVIOUS
  <2>3. CASE e.ends
    BY <2>1, <2>3
  <2>4. CASE ~e.ends
    BY <2>2, <2>4
  <2> QED BY <2>3, <2>4
<1> HIDE DEF head, cs, end, n, cols
<1>7. /\ u \in Seq(Lines) /\ Len(u) = 1 + n
      /\ u[1] = HeadLine(c.table, c.type)
      /\ \A i \in 1..n : u[1 + i] = Column(cols[i])
  <2>1. /\ u \in Seq(Lines) /\ Len(u) = Len(head) + Len(cs)
        /\ \A i \in 1..Len(head) : u[i] = head[i]
        /\ \A i \in 1..Len(cs) : u[Len(head) + i] = cs[i]
    BY <1>3, <1>4, <1>5
  <2>2. 1 \in 1..1
    OBVIOUS
  <2> HIDE DEF u
  <2> QED BY <1>4, <1>5, <2>1, <2>2
<1> HIDE DEF u
<1>8. /\ u \o end \in Seq(Lines) /\ Len(u \o end) = 1 + n + Len(end)
      /\ \A i \in 1..1 + n : (u \o end)[i] = u[i]
      /\ \A i \in 1..Len(end) : (u \o end)[1 + n + i] = end[i]
  <2> DEFINE w == u \o end
  <2>1. /\ w \in Seq(Lines) /\ Len(w) = Len(u) + Len(end)
        /\ \A i \in 1..Len(u) : w[i] = u[i]
        /\ \A i \in 1..Len(end) : w[Len(u) + i] = end[i]
    BY <1>3, <1>6, <1>7
  <2> HIDE DEF w
  <2>2. /\ w \in Seq(Lines) /\ Len(w) = 1 + n + Len(end)
        /\ \A i \in 1..1 + n : w[i] = u[i]
        /\ \A i \in 1..Len(end) : w[1 + n + i] = end[i]
    BY <1>7, <2>1
  <2> QED BY <2>2 DEF w
<1> HIDE DEF lines
<1>9. lines \in Seq(Lines) /\ Len(lines) = n + (IF e.ends THEN 2 ELSE 1)
  BY <1>1, <1>2, <1>6, <1>8
<1>10. lines[1] = HeadLine(c.table, c.type)
  <2>1. 1 \in 1..1 + n
    BY <1>1
  <2> QED BY <1>2, <1>7, <1>8, <2>1
<1>11. \A i \in 1..n : lines[i + 1] = Column(cols[i])
  <2>1. \A i \in 1..n : i + 1 \in 1..1 + n /\ i + 1 = 1 + i
    BY <1>1
  <2> QED BY <1>2, <1>7, <1>8, <2>1
<1>12. e.ends => lines[n + 2] = Gap
  <2>1. 1 + n + 1 = n + 2 /\ 1 \in 1..1
    BY <1>1
  <2> QED BY <1>2, <1>6, <1>8, <2>1
<1> QED BY <1>9, <1>10, <1>11, <1>12 DEF lines, cols, n

\* The scan after j lines of an entry.
Read(s, e, j) == Scanning!Fold(s, SubSeq(EntryLines(e), 1, j))

LEMMA ReadSteps ==
  ASSUME NEW s, NEW e, EntryLines(e) \in Seq(Lines)
  PROVE  /\ Read(s, e, 0) = s
         /\ \A j \in Nat : j + 1 <= Len(EntryLines(e)) =>
              Read(s, e, j + 1) = ScanLine(Read(s, e, j), EntryLines(e)[j + 1])
<1>1. 1 \in Nat \ {0} /\ 1 - 1 = 0 /\ \A j \in Nat : 1 <= j + 1
  OBVIOUS
<1> DEFINE u == EntryLines(e)
<1>2. u \in Seq(Lines)
  OBVIOUS
<1> HIDE DEF u
<1>3. /\ Scanning!Fold(s, SubSeq(u, 1, 0)) = s
      /\ \A j \in Nat : j + 1 <= Len(u) =>
           Scanning!Fold(s, SubSeq(u, 1, j + 1)) = ScanLine(Scanning!Fold(s, SubSeq(u, 1, j)), u[j + 1])
  BY <1>1, <1>2, Scanning!FoldPart
<1> QED BY <1>3 DEF Read, u

\* In a row of the target, and after it.
Open(s, c, r) ==
  /\ r = [inRow |-> TRUE, type |-> c.type, values |-> r.values, events |-> Flush(s)]
  /\ r.values \in Seq(Columns) /\ (Len(r.values) >= 2 => r.values[2] \in Values)

Closed(s, c, r) ==
  r = [inRow |-> FALSE, type |-> c.type, values |-> <<>>, events |-> Append(Flush(s), AsEvent(c))]

LEMMA TargetRead ==
  ASSUME NEW s, Sound(s), NEW e, e.kind = "rows", e.ends \in BOOLEAN, SoundChange(e.change),
         e.change.table = Target, NEW j \in 1..Len(EntryLines(e))
  PROVE  LET c == e.change
             r == Read(s, e, j)
         IN \/ /\ Open(s, c, r)
               /\ j = Len(EntryLines(e)) =>
                    ~e.ends /\ Len(r.values) >= 2 /\ MakeRowEvent(c.type, r.values) = AsEvent(c)
            \/ Closed(s, c, r) /\ j = Len(EntryLines(e)) /\ e.ends
<1> DEFINE c == e.change
           cols == ColumnsOf(c)
           n == Len(cols)
           p == Parsed(cols)
           lines == EntryLines(e)
           f == Flush(s)
           in(i) == [inRow |-> TRUE, type |-> c.type, values |-> SubSeq(p, 1, i), events |-> f]
           r(i) == Read(s, e, i)
           T == {i \in Nat : i <= n => r(i + 1) = in(i)}
<1>1. /\ lines \in Seq(Lines) /\ Len(lines) = n + (IF e.ends THEN 2 ELSE 1)
      /\ lines[1] = HeadLine(Target, c.type)
      /\ \A i \in 1..n : lines[i + 1] = Column(cols[i])
      /\ e.ends => lines[n + 2] = Gap
  BY LinesAre
<1>2. c.type \in Types /\ f \in Seq(RowEvents)
  BY FlushIs DEF SoundChange, RowChanges
<1>3. cols \in Seq(Columns) /\ n \in Nat /\ n >= 2 /\ cols[2] \in Values
  <2>1. cols \in Seq(Columns) /\ n = (IF c.type = "UPDATE" THEN 4 ELSE 2) /\ cols[2] \in Values
    BY ColumnsAre, Zenon
  <2>2. n \in Nat /\ n >= 2
    BY <2>1
  <2> QED BY <2>1, <2>2
<1>4. p \in Seq(Columns) /\ Len(p) = n /\ \A i \in 1..n : p[i] = ParseColumnValue(cols[i])
  BY <1>3, ParsedIs
<1>5. MakeRowEvent(c.type, p) = AsEvent(c)
  BY ColumnsMakeEvent
<1>6. r(0) = s /\ \A i \in Nat : i + 1 <= Len(lines) => r(i + 1) = ScanLine(r(i), lines[i + 1])
  <2>1. EntryLines(e) \in Seq(Lines)
    BY <1>1, Zenon
  <2> QED BY ONLY <2>1, ReadSteps, Zenon DEF r, lines
<1> HIDE DEF r, lines, f, cols, n, p
<1>7. p[2] \in Values
  <2>1. 2 \in 1..n
    BY <1>3
  <2> QED BY <1>3, <1>4, <2>1, Parsing
<1>8. ASSUME NEW i \in 0..n
      PROVE  /\ SubSeq(p, 1, i) \in Seq(Columns) /\ Len(SubSeq(p, 1, i)) = i
             /\ Len(SubSeq(p, 1, i)) >= 2 => SubSeq(p, 1, i)[2] \in Values
  <2> DEFINE q == SubSeq(p, 1, i)
  <2>1. q \in Seq(Columns) /\ Len(q) = i /\ \A m \in 1..i : q[m] = p[m]
    BY <1>3, <1>4
  <2>2. i >= 2 => 2 \in 1..i
    OBVIOUS
  <2> HIDE DEF q
  <2>3. q \in Seq(Columns) /\ Len(q) = i /\ (Len(q) >= 2 => q[2] \in Values)
    BY <1>7, <2>1, <2>2
  <2> QED BY <2>3 DEF q
<1>9. ASSUME NEW i \in 0..n PROVE Sound(in(i)) /\ Open(s, c, in(i)) /\ in(i).values = SubSeq(p, 1, i)
  <2> DEFINE q == SubSeq(p, 1, i)
  <2>1. q \in Seq(Columns) /\ (Len(q) >= 2 => q[2] \in Values)
    BY <1>8
  <2> HIDE DEF q
  <2> DEFINE x == [inRow |-> TRUE, type |-> c.type, values |-> q, events |-> f]
  <2>2. x.inRow = TRUE /\ x.type = c.type /\ x.values = q /\ x.events = f
    OBVIOUS
  <2>3. x = [inRow |-> x.inRow, type |-> x.type, values |-> x.values, events |-> x.events]
    OBVIOUS
  <2> HIDE DEF x
  <2>4. Sound(x)
    BY <1>2, <2>1, <2>2, <2>3 DEF Sound
  <2>5. Open(s, c, x)
    BY <2>1, <2>2, <2>3 DEF Open, f
  <2> QED BY <2>2, <2>4, <2>5 DEF x, q
<1>10. 0 \in T
  <2>1. r(1) = ScanLine(s, HeadLine(Target, c.type))
    <3>1. 0 \in Nat /\ 0 + 1 = 1 /\ 0 + 1 <= Len(lines)
      BY <1>1, <1>3
    <3> QED BY <1>1, <1>6, <3>1
  <2>2. r(1) = [inRow |-> TRUE, type |-> c.type, values |-> <<>>, events |-> f]
    BY <2>1, HeadScans DEF f
  <2>3. SubSeq(p, 1, 0) = <<>>
    BY <1>4
  <2>4. r(1) = in(0)
    BY <2>2, <2>3, Zenon
  <2>5. 0 + 1 = 1
    OBVIOUS
  <2> HIDE DEF in
  <2> QED BY <2>4, <2>5
<1>11. ASSUME NEW i \in Nat, i \in T PROVE i + 1 \in T
  <2> SUFFICES ASSUME i + 1 <= n PROVE r(i + 1 + 1) = in(i + 1)
    OBVIOUS
  <2>1. r(i + 1) = in(i) /\ i \in 0..n /\ i + 1 \in 1..n /\ i + 1 \in Nat
    BY <1>3, <1>11
  <2>2. r(i + 1 + 1) = ScanLine(in(i), Column(cols[i + 1]))
    <3>1. i + 1 + 1 <= Len(lines)
      BY <1>1, <1>3, <2>1
    <3>2. r(i + 1 + 1) = ScanLine(r(i + 1), lines[i + 1 + 1])
      BY <1>6, <2>1, <3>1
    <3>3. lines[i + 1 + 1] = Column(cols[i + 1])
      BY <1>1, <2>1
    <3> HIDE DEF in
    <3> QED BY <2>1, <3>2, <3>3
  <2>3. Sound(in(i)) /\ in(i).inRow = TRUE /\ in(i).type = c.type /\ in(i).events = f
        /\ in(i).values = SubSeq(p, 1, i)
    BY <1>9, <2>1
  <2> DEFINE x == in(i)
  <2> HIDE DEF in
  <2>4. ScanLine(x, Column(cols[i + 1])) =
          [inRow |-> TRUE, type |-> c.type, events |-> f,
           values |-> Append(SubSeq(p, 1, i), ParseColumnValue(cols[i + 1]))]
    BY <2>3, ColumnScans, Zenon
  <2>5. SubSeq(p, 1, i + 1) = Append(SubSeq(p, 1, i), p[i + 1])
    <3>1. 1 \in Nat \ {0} /\ 1 <= i + 1
      OBVIOUS
    <3> QED BY <1>4, <3>1, Scanning!NextPart
  <2>6. p[i + 1] = ParseColumnValue(cols[i + 1])
    BY <1>4, <2>1
  <2>7. r(i + 1 + 1) = [inRow |-> TRUE, type |-> c.type, events |-> f, values |-> SubSeq(p, 1, i + 1)]
    BY <2>2, <2>4, <2>5, <2>6
  <2> QED BY <2>7 DEF in
<1>12. Nat \subseteq T
  <2> HIDE DEF T
  <2> QED BY <1>10, <1>11, Scanning!SetInduction
<1>13. \A i \in 0..n : r(i + 1) = in(i)
  BY <1>3, <1>12
<1>14. in(n).values = p
  <2>1. SubSeq(p, 1, n) = p
    BY <1>3, <1>4
  <2> QED BY <2>1
<1>15. CASE j \in 1..n + 1
  <2>1. j - 1 \in 0..n /\ j - 1 + 1 = j
    BY <1>3, <1>15
  <2>2. r(j) = in(j - 1)
    BY <1>13, <2>1
  <2>3. Open(s, c, r(j))
    BY <1>9, <2>1, <2>2
  <2>4. ASSUME j = Len(lines)
        PROVE  ~e.ends /\ Len(r(j).values) >= 2 /\ MakeRowEvent(c.type, r(j).values) = AsEvent(c)
    <3>1. ~e.ends /\ j - 1 = n
      BY <1>1, <1>3, <1>15, <2>4
    <3>2. r(j).values = p
      BY <1>14, <2>2, <3>1
    <3> QED BY <1>3, <1>4, <1>5, <3>1, <3>2
  <2> QED BY <2>3, <2>4 DEF r, lines
<1>16. CASE j \notin 1..n + 1
  <2>1. j = n + 2 /\ e.ends /\ j = Len(lines)
    BY <1>1, <1>3, <1>16 DEF lines
  <2>2. r(n + 1 + 1) = ScanLine(in(n), Gap)
    <3>1. n + 1 + 1 = n + 2 /\ n + 1 \in Nat /\ n \in 0..n
      BY <1>3
    <3>2. r(n + 1 + 1) = ScanLine(r(n + 1), lines[n + 1 + 1])
      BY <1>1, <1>6, <2>1, <3>1
    <3> HIDE DEF in
    <3> QED BY <1>1, <1>13, <2>1, <3>1, <3>2
  <2>3. n \in 0..n /\ n + 1 + 1 = n + 2
    BY <1>3
  <2>4. Sound(in(n)) /\ in(n).inRow = TRUE /\ in(n).type = c.type /\ in(n).events = f
    BY <1>9, <2>3
  <2> HIDE DEF in
  <2>5. ScanLine(in(n), Gap) = [inRow |-> FALSE, type |-> c.type, values |-> <<>>, events |-> Flush(in(n))]
    BY <2>4, GapScans
  <2>6. Flush(in(n)) = Append(f, AsEvent(c))
    BY <1>5, <1>14, <2>4, FlushIs
  <2>7. Closed(s, c, r(j))
    BY <2>1, <2>2, <2>3, <2>5, <2>6 DEF Closed, f
  <2> QED BY <2>1, <2>7 DEF r, lines
<1> QED BY <1>15, <1>16

\* A line that begins no row of the target.
NoHead(line) ==
  \/ \E table, type : table # Target /\ line = HeadLine(table, type)
  \/ \E v \in Columns : line = Column(v)
  \/ line = Gap

LEMMA NoHeadScans ==
  ASSUME NEW s, Settled(s), NEW line, NoHead(line)
  PROVE  Settled(ScanLine(s, line)) /\ (~s.inRow => ScanLine(s, line) = s)
<1>1. ASSUME NEW table, NEW type, table # Target, line = HeadLine(table, type)
      PROVE  ScanLine(s, line) = s
  BY <1>1, OtherHeadScans
<1>2. ASSUME NEW v \in Columns, line = Column(v)
      PROVE  Settled(ScanLine(s, line)) /\ (~s.inRow => ScanLine(s, line) = s)
  <2> DEFINE r == ScanLine(s, line)
             x == ParseColumnValue(v)
             vs == Append(s.values, x)
  <2>1. r = IF s.inRow THEN [inRow |-> TRUE, type |-> s.type, events |-> s.events, values |-> vs] ELSE s
    BY <1>2, ColumnScans, Zenon DEF Settled
  <2>2. x \in Columns
    BY <1>2, Parsing
  <2> HIDE DEF x, r
  <2>3. CASE s.inRow
    <3>1. /\ s.values \in Seq(Columns) /\ Len(s.values) >= 2 /\ s.values[2] \in Values
          /\ s.type \in Types /\ s.events \in Seq(RowEvents)
      BY <2>3 DEF Settled, Sound
    <3>2. vs \in Seq(Columns) /\ Len(vs) >= 2 /\ vs[2] = s.values[2]
      <4> DEFINE u == s.values
      <4>1. u \in Seq(Columns) /\ Len(u) >= 2
        BY <3>1
      <4> HIDE DEF u
      <4>2. Append(u, x) \in Seq(Columns) /\ Len(Append(u, x)) >= 2 /\ Append(u, x)[2] = u[2]
        BY <2>2, <4>1
      <4> QED BY <4>2 DEF u
    <3> HIDE DEF vs
    <3>3. r = [inRow |-> TRUE, type |-> s.type, values |-> vs, events |-> s.events]
      BY <2>1, <2>3
    <3>4. r.inRow = TRUE /\ r.type = s.type /\ r.values = vs /\ r.events = s.events
      BY <3>3
    <3>5. Settled(r)
      BY <3>1, <3>2, <3>3, <3>4 DEF Settled, Sound
    <3> QED BY <2>3, <3>5 DEF r
  <2>4. CASE ~s.inRow
    BY <2>1, <2>4 DEF r
  <2> QED BY <2>3, <2>4
<1>3. ASSUME line = Gap PROVE Settled(ScanLine(s, line)) /\ (~s.inRow => ScanLine(s, line) = s)
  <2> DEFINE r == ScanLine(s, line)
             f == Flush(s)
  <2>1. r = IF s.inRow THEN [inRow |-> FALSE, type |-> s.type, values |-> <<>>, events |-> f] ELSE s
    BY <1>3, GapScans, Zenon DEF Settled
  <2>2. f \in Seq(RowEvents)
    BY FlushIs DEF Settled
  <2> HIDE DEF r, f
  <2>3. CASE s.inRow
    <3>1. r = [inRow |-> FALSE, type |-> s.type, values |-> <<>>, events |-> f]
      BY <2>1, <2>3
    <3>2. r.inRow = FALSE /\ r.type = s.type /\ r.values = <<>> /\ r.events = f
      BY <3>1
    <3>3. Settled(r)
      BY <2>2, <3>1, <3>2 DEF Settled, Sound
    <3> QED BY <2>3, <3>3 DEF r
  <2>4. CASE ~s.inRow
    BY <2>1, <2>4 DEF r
  <2> QED BY <2>3, <2>4
<1> QED BY <1>1, <1>2, <1>3 DEF NoHead

LEMMA NoHeadRead ==
  ASSUME NEW s, Settled(s), NEW e, EntryLines(e) \in Seq(Lines),
         \A i \in 1..Len(EntryLines(e)) : NoHead(EntryLines(e)[i]), NEW j \in 0..Len(EntryLines(e))
  PROVE  Settled(Read(s, e, j)) /\ (~s.inRow => Read(s, e, j) = s)
<1> DEFINE lines == EntryLines(e)
           r(i) == Read(s, e, i)
           good(i) == Settled(r(i)) /\ (~s.inRow => r(i) = s)
           T == {i \in Nat : i <= Len(lines) => good(i)}
<1>1. r(0) = s /\ \A i \in Nat : i + 1 <= Len(lines) => r(i + 1) = ScanLine(r(i), lines[i + 1])
  BY ReadSteps, Zenon
<1>2. Len(lines) \in Nat /\ \A i \in 1..Len(lines) : NoHead(lines[i])
  OBVIOUS
<1> HIDE DEF r, lines
<1>3. 0 \in T
  BY <1>1
<1>4. ASSUME NEW i \in Nat, i \in T PROVE i + 1 \in T
  <2> SUFFICES ASSUME i + 1 <= Len(lines) PROVE good(i + 1)
    OBVIOUS
  <2>1. good(i) /\ i + 1 \in 1..Len(lines)
    BY <1>2, <1>4
  <2>2. r(i + 1) = ScanLine(r(i), lines[i + 1]) /\ NoHead(lines[i + 1])
    BY <1>1, <1>2, <2>1
  <2>3. Settled(ScanLine(r(i), lines[i + 1])) /\ (~r(i).inRow => ScanLine(r(i), lines[i + 1]) = r(i))
    BY <2>1, <2>2, NoHeadScans
  <2> QED BY <2>1, <2>2, <2>3, Zenon
<1>5. Nat \subseteq T
  <2> HIDE DEF T
  <2> QED BY <1>3, <1>4, Scanning!SetInduction
<1>6. good(j)
  BY <1>2, <1>5 DEF lines
<1> QED BY <1>6 DEF r

\* The lines of an entry that is no row of the target.
LEMMA OtherLines ==
  ASSUME NEW e \in Entry, e.kind = "rows" => SoundChange(e.change) /\ e.change.table # Target
  PROVE  /\ EntryLines(e) \in Seq(Lines)
         /\ \A i \in 1..Len(EntryLines(e)) : NoHead(EntryLines(e)[i])
<1> DEFINE lines == EntryLines(e)
<1>1. CASE e \in QueryEntry
  <2>1. e.kind = "query" /\ e.ends = TRUE
    BY <1>1 DEF QueryEntry
  <2>2. lines = <<>> \o <<Gap>>
    BY <2>1 DEF EntryLines
  <2>3. <<Gap>> \in Seq(Lines) /\ Len(<<Gap>>) = 1 /\ <<>> \o <<Gap>> = <<Gap>>
    BY DEF Lines
  <2> HIDE DEF lines
  <2>4. lines = <<Gap>>
    BY <2>2, <2>3
  <2>5. lines \in Seq(Lines) /\ \A i \in 1..Len(lines) : NoHead(lines[i])
    BY <2>3, <2>4 DEF NoHead
  <2> QED BY <2>5 DEF lines
<1>2. CASE e \in RowsEntry
  <2> DEFINE cols == ColumnsOf(e.change)
             n == Len(cols)
  <2>1. e.kind = "rows" /\ e.ends \in BOOLEAN
    BY <1>2 DEF RowsEntry
  <2>2. /\ lines \in Seq(Lines)
        /\ Len(lines) = n + (IF e.ends THEN 2 ELSE 1)
        /\ lines[1] = HeadLine(e.change.table, e.change.type)
        /\ \A i \in 1..n : lines[i + 1] = Column(cols[i])
        /\ e.ends => lines[n + 2] = Gap
    BY <2>1, LinesAre
  <2>3. cols \in Seq(Columns)
    BY <2>1, ColumnsAre, Zenon
  <2> HIDE DEF cols, lines
  <2>4. n \in Nat /\ \A i \in 1..n : cols[i] \in Columns
    BY <2>3
  <2>5. ASSUME NEW i \in 1..Len(lines) PROVE NoHead(lines[i])
    <3>1. CASE i = 1
      BY <2>1, <2>2, <3>1 DEF NoHead
    <3>2. CASE i \in 2..n + 1
      <4>1. i - 1 \in 1..n /\ i - 1 + 1 = i
        BY <2>4, <3>2
      <4>2. lines[i] = Column(cols[i - 1]) /\ cols[i - 1] \in Columns
        BY <2>2, <2>4, <4>1
      <4> QED BY <4>2 DEF NoHead
    <3>3. CASE i > n + 1
      <4>1. i = n + 2 /\ e.ends
        BY <2>2, <2>4, <3>3
      <4> QED BY <2>2, <4>1 DEF NoHead
    <3> QED BY <2>2, <2>4, <3>1, <3>2, <3>3
  <2> QED BY <2>2, <2>5 DEF lines
<1> QED BY <1>1, <1>2 DEF Entry

\* Whatever the entry, the scan is sound in it and settled after it.
LEMMA EntryRead ==
  ASSUME NEW s, Settled(s), NEW e \in Entry, e.kind = "rows" => SoundChange(e.change)
  PROVE  /\ EntryLines(e) \in Seq(Lines) /\ Len(EntryLines(e)) \in Nat \ {0}
         /\ \A j \in 1..Len(EntryLines(e)) : Sound(Read(s, e, j))
         /\ Settled(Read(s, e, Len(EntryLines(e))))
<1>1. Sound(s)
  BY DEF Settled
<1>2. CASE e.kind = "rows" /\ e.change.table = Target
  <2> DEFINE c == e.change
             n == Len(EntryLines(e))
             r(j) == Read(s, e, j)
  <2>1. SoundChange(c) /\ e.ends \in BOOLEAN /\ c.type \in Types /\ Flush(s) \in Seq(RowEvents)
    <3>1. e \in RowsEntry
      BY <1>2 DEF Entry, QueryEntry
    <3> QED BY <1>1, <1>2, <3>1, FlushIs DEF RowsEntry, SoundChange, RowChanges
  <2>2. EntryLines(e) \in Seq(Lines) /\ n \in Nat \ {0}
    <3>1. /\ EntryLines(e) \in Seq(Lines)
          /\ n = Len(ColumnsOf(c)) + (IF e.ends THEN 2 ELSE 1)
      BY <1>2, <2>1, LinesAre
    <3>2. ColumnsOf(c) \in Seq(Columns)
      BY <2>1, ColumnsAre, Zenon
    <3>3. Len(ColumnsOf(c)) \in Nat
      BY <3>2
    <3> HIDE DEF c
    <3> QED BY <3>1, <3>3
  <2>3. \A j \in 1..n : \/ Open(s, c, r(j)) /\ (j = n => Len(r(j).values) >= 2)
                        \/ Closed(s, c, r(j))
    BY <1>1, <1>2, <2>1, TargetRead, Zenon
  <2>4. AsEvent(c) \in RowEvents
    BY <2>1, AsEventIs
  <2> HIDE DEF r, c, n
  <2>5. ASSUME NEW x, Open(s, c, x) PROVE Sound(x) /\ x.inRow = TRUE
    <3>1. x.inRow = TRUE /\ x.type = c.type /\ x.events = Flush(s)
      BY <2>5 DEF Open
    <3>2. x = [inRow |-> x.inRow, type |-> x.type, values |-> x.values, events |-> x.events]
      BY <2>5, <3>1 DEF Open
    <3> QED BY <2>1, <2>5, <3>1, <3>2 DEF Open, Sound
  <2>6. ASSUME NEW x, Closed(s, c, x) PROVE Settled(x)
    <3>1. x.inRow = FALSE /\ x.type = c.type /\ x.values = <<>> /\ x.events = Append(Flush(s), AsEvent(c))
      BY <2>6 DEF Closed
    <3>2. x = [inRow |-> x.inRow, type |-> x.type, values |-> x.values, events |-> x.events]
      BY <2>6, <3>1 DEF Closed
    <3>3. x.events \in Seq(RowEvents) /\ x.values \in Seq(Columns)
      BY <2>1, <2>4, <3>1
    <3>4. Sound(x)
      BY <3>1, <3>2, <3>3, Zenon DEF Sound
    <3> QED BY <3>1, <3>4 DEF Settled
  <2>7. \A j \in 1..n : Sound(r(j))
    BY <2>3, <2>5, <2>6 DEF Settled
  <2>8. Settled(r(n))
    <3>1. n \in 1..n
      BY <2>2
    <3> QED BY <2>3, <2>5, <2>6, <3>1 DEF Settled
  <2> QED BY <2>2, <2>7, <2>8 DEF r, n
<1>3. CASE e.kind = "rows" => e.change.table # Target
  <2> DEFINE n == Len(EntryLines(e))
             r(j) == Read(s, e, j)
  <2>1. EntryLines(e) \in Seq(Lines) /\ \A i \in 1..n : NoHead(EntryLines(e)[i])
    BY <1>3, OtherLines
  <2>2. n \in Nat \ {0}
    <3>1. CASE e.kind = "rows"
      <4>1. e \in RowsEntry
        BY <3>1 DEF Entry, QueryEntry
      <4>2. e.ends \in BOOLEAN
        BY <4>1 DEF RowsEntry
      <4>3. n = Len(ColumnsOf(e.change)) + (IF e.ends THEN 2 ELSE 1)
        BY <3>1, <4>2, LinesAre
      <4>4. ColumnsOf(e.change) \in Seq(Columns)
        BY <3>1, ColumnsAre, Zenon
      <4>5. Len(ColumnsOf(e.change)) \in Nat
        BY <4>4
      <4> QED BY <4>3, <4>5
    <3>2. CASE e.kind # "rows"
      <4>1. e \in QueryEntry
        BY <3>2 DEF Entry, RowsEntry
      <4>2. EntryLines(e) = <<>> \o <<Gap>>
        BY <3>2, <4>1 DEF EntryLines, QueryEntry
      <4>3. <<Gap>> \in Seq(Lines) /\ Len(<<>> \o <<Gap>>) = 1
        BY DEF Lines
      <4> QED BY <4>2, <4>3
    <3> QED BY <3>1, <3>2
  <2>3. \A j \in 0..n : Settled(r(j))
    BY <2>1, NoHeadRead, Zenon
  <2> HIDE DEF r, n
  <2>4. n \in 0..n /\ \A j \in 1..n : j \in 0..n
    BY <2>2
  <2> QED BY <2>1, <2>2, <2>3, <2>4 DEF Settled, r, n
<1> QED BY <1>2, <1>3

-----------------------------------------------------------------------------
(* The scan of the whole text.                                              *)

\* w is the window [files, start, stop].
In(w, e) == e.file \in w.files /\ e.ts >= w.start /\ (w.stop = 0 \/ e.ts < w.stop)

AskedIn(w, e) == In(w, e) /\ e.kind = "rows" /\ e.change.table = Target

Blocks(w, l) == [i \in 1..Len(l) |-> IF In(w, l[i]) THEN EntryLines(l[i]) ELSE <<>>]

EventsIn(w, l, n) == [i \in 1..n |-> IF AskedIn(w, l[i]) THEN <<AsEvent(l[i].change)>> ELSE <<>>]

OneTable(w, l, n) == \A i \in 1..n : In(w, l[i]) /\ ~l[i].ends => l[i + 1].change.table = Target

GoodLog(l) ==
  /\ l \in Seq(Entry) /\ WholeStatements(l)
  /\ \A i \in 1..Len(l) : l[i].kind = "rows" => SoundChange(l[i].change)

LEMMA LogIsGood == ASSUME LogOK PROVE GoodLog(log)
<1>1. /\ past \in Seq(Table) /\ log \in Seq(Entry) /\ Len(past) = Len(log) + 1
      /\ WholeStatements(log)
      /\ \A i \in 1..Len(log) : log[i].kind = "rows" => Makes(past[i], log[i].change)
  BY DEF LogOK, Recorded
<1>2. \A i \in 1..Len(log) : past[i] \in Table
  BY <1>1
<1>3. \A i \in 1..Len(log) : log[i].kind = "rows" => SoundChange(log[i].change)
  BY <1>1, <1>2, MakesSound
<1> QED BY <1>1, <1>3 DEF GoodLog

\* What the scan begins with.
Start == [inRow |-> FALSE, type |-> "", values |-> <<>>, events |-> <<>>]

LEMMA FirstSettled == Settled(Start)
<1>1. Start.inRow = FALSE /\ Start.type = "" /\ Start.values = <<>> /\ Start.events = <<>>
  BY DEF Start
<1>2. <<>> \in Seq(Columns) /\ <<>> \in Seq(RowEvents)
  OBVIOUS
<1>3. Start = [inRow |-> Start.inRow, type |-> Start.type, values |-> Start.values, events |-> Start.events]
  BY DEF Start
<1> QED BY <1>1, <1>2, <1>3, Zenon DEF Settled, Sound

LEMMA BlocksAre ==
  ASSUME NEW w, NEW l, GoodLog(l)
  PROVE  /\ Blocks(w, l) \in Seq(Seq(Lines)) /\ Len(Blocks(w, l)) = Len(l) /\ Len(l) \in Nat
         /\ \A i \in 1..Len(l) :
              Blocks(w, l)[i] = IF In(w, l[i]) THEN EntryLines(l[i]) ELSE <<>>
<1> DEFINE b(i) == IF In(w, l[i]) THEN EntryLines(l[i]) ELSE <<>>
           n == Len(l)
<1>1. n \in Nat /\ \A i \in 1..n : l[i] \in Entry /\ (l[i].kind = "rows" => SoundChange(l[i].change))
  BY DEF GoodLog
<1>2. ASSUME NEW i \in 1..n PROVE b(i) \in Seq(Lines)
  <2>1. EntryLines(l[i]) \in Seq(Lines)
    BY <1>1, FirstSettled, EntryRead
  <2>2. <<>> \in Seq(Lines)
    OBVIOUS
  <2> QED BY <2>1, <2>2
<1>3. Blocks(w, l) = [i \in 1..n |-> b(i)]
  BY DEF Blocks
<1> HIDE DEF b, n
<1>4. Blocks(w, l) \in Seq(Seq(Lines)) /\ Len(Blocks(w, l)) = n /\ \A i \in 1..n : Blocks(w, l)[i] = b(i)
  BY <1>1, <1>2, <1>3
<1> QED BY <1>1, <1>4 DEF b, n

LEMMA EventsInAre ==
  ASSUME NEW w, NEW l, GoodLog(l), NEW n \in 0..Len(l)
  PROVE  /\ EventsIn(w, l, n) \in Seq(Seq(RowEvents)) /\ Len(EventsIn(w, l, n)) = n
         /\ \A i \in 1..n :
              EventsIn(w, l, n)[i] = IF AskedIn(w, l[i]) THEN <<AsEvent(l[i].change)>> ELSE <<>>
<1> DEFINE b(i) == IF AskedIn(w, l[i]) THEN <<AsEvent(l[i].change)>> ELSE <<>>
<1>1. n \in Nat /\ \A i \in 1..n : l[i].kind = "rows" => SoundChange(l[i].change)
  BY DEF GoodLog
<1>2. ASSUME NEW i \in 1..n PROVE b(i) \in Seq(RowEvents)
  <2>1. CASE AskedIn(w, l[i])
    <3>1. AsEvent(l[i].change) \in RowEvents
      BY <1>1, <2>1, AsEventIs DEF AskedIn
    <3>2. <<AsEvent(l[i].change)>> \in Seq(RowEvents)
      BY <3>1
    <3> QED BY <2>1, <3>2
  <2>2. CASE ~AskedIn(w, l[i])
    BY <2>2
  <2> QED BY <2>1, <2>2
<1>3. EventsIn(w, l, n) = [i \in 1..n |-> b(i)]
  BY DEF EventsIn
<1> HIDE DEF b
<1>4. EventsIn(w, l, n) \in Seq(Seq(RowEvents)) /\ Len(EventsIn(w, l, n)) = n
      /\ \A i \in 1..n : EventsIn(w, l, n)[i] = b(i)
  BY <1>1, <1>2, <1>3
<1> QED BY <1>4 DEF b

\* A row that is open goes on with the next entry.
LEMMA OpenIsAsked ==
  ASSUME NEW w, NEW l, GoodLog(l), OneTable(w, l, Len(l)), NEW k \in 1..Len(l),
         In(w, l[k]), ~l[k].ends
  PROVE  k + 1 \in 1..Len(l) /\ AskedIn(w, l[k + 1])
<1>1. GoesOn(l, k)
  BY DEF GoodLog, WholeStatements
<1>2. In(w, l[k + 1])
  BY <1>1 DEF GoesOn, In
<1>3. l[k + 1].change.table = Target
  BY DEF OneTable
<1> QED BY <1>1, <1>2, <1>3 DEF GoesOn, AskedIn

\* What the scan returns.
Result(s) == IF s.values # <<>> THEN Flush(s) ELSE s.events

LEMMA ScanIs == \A u : Scan(u) = Result(Scanning!Fold(Start, u))
BY DEF Scan, Result, Start, Scanning!Fold, FoldLeft, MapThenFoldSet, Max, Scanning!FoldLeft,
       Scanning!MapThenFoldSet, Scanning!Max

LEMMA ResultIs ==
  ASSUME NEW s, Sound(s)
  PROVE  /\ Result(s) \in Seq(RowEvents)
         /\ Settled(s) => Result(s) = Flush(s)
<1>1. Flush(s) \in Seq(RowEvents) /\ s.events \in Seq(RowEvents)
  BY FlushIs DEF Sound
<1>2. ASSUME Settled(s) PROVE Result(s) = Flush(s)
  <2>1. CASE s.inRow
    <3>1. s.values \in Seq(Columns) /\ Len(s.values) >= 2
      BY <1>2, <2>1 DEF Settled, Sound
    <3>2. s.values # <<>>
      BY <3>1
    <3> QED BY <3>2 DEF Result
  <2>2. CASE ~s.inRow
    BY <2>2, FlushIs DEF Sound, Result
  <2> QED BY <2>1, <2>2
<1> QED BY <1>1, <1>2 DEF Result

\* Where the scan is after k entries, g being their row events.
Reached(w, l, g, k, s) ==
  /\ Settled(s)
  /\ OneTable(w, l, Len(l)) =>
       Flush(s) = g[k] /\ (s.inRow => k # 0 /\ In(w, l[k]) /\ ~l[k].ends)

\* The entry after them.
LEMMA NextReached ==
  ASSUME NEW w, NEW l, GoodLog(l), NEW g, Flattens(g, EventsIn(w, l, Len(l))),
         NEW k \in Nat, k + 1 \in 1..Len(l), NEW s, Reached(w, l, g, k, s)
  PROVE  LET e == l[k + 1] IN
         Reached(w, l, g, k + 1, IF In(w, e) THEN Read(s, e, Len(EntryLines(e))) ELSE s)
<1> DEFINE m == k + 1
           e == l[m]
           n == Len(EntryLines(e))
           r == Read(s, e, n)
<1>1. m \in 1..Len(l) /\ m - 1 = k /\ Len(l) \in 0..Len(l) /\ m # 0
  BY DEF GoodLog
<1>2. Settled(s)
  BY DEF Reached
<1> HIDE DEF m
<1>3. e \in Entry /\ (e.kind = "rows" => SoundChange(e.change))
  BY <1>1 DEF GoodLog
<1>4. EntryLines(e) \in Seq(Lines) /\ n \in Nat \ {0} /\ Settled(r)
  BY <1>2, <1>3, EntryRead
<1>5. g[m] = g[k] \o (IF AskedIn(w, e) THEN <<AsEvent(e.change)>> ELSE <<>>) /\ g[k] \in Seq(RowEvents)
  <2> DEFINE es == EventsIn(w, l, Len(l))
  <2>1. es \in Seq(Seq(RowEvents)) /\ Len(es) = Len(l)
        /\ es[m] = IF AskedIn(w, l[m]) THEN <<AsEvent(l[m].change)>> ELSE <<>>
    BY <1>1, EventsInAre
  <2> HIDE DEF es
  <2>2. \A i \in 0..Len(es) : g[i] \in Seq(RowEvents)
    BY <2>1, FlattenedParts DEF es
  <2>3. g[m] = g[m - 1] \o es[m]
    BY <1>1, <2>1 DEF Flattens, es
  <2>4. k \in 0..Len(es)
    BY <1>1, <2>1 DEF m
  <2> QED BY <1>1, <2>1, <2>2, <2>3, <2>4
<1>6. ASSUME OneTable(w, l, Len(l))
      PROVE  Flush(s) = g[k] /\ (s.inRow => AskedIn(w, e))
  <2>1. Flush(s) = g[k] /\ (s.inRow => k # 0 /\ In(w, l[k]) /\ ~l[k].ends)
    BY <1>6 DEF Reached
  <2>2. k # 0 => k \in 1..Len(l)
    BY <1>1 DEF m
  <2> QED BY <1>6, <2>1, <2>2, OpenIsAsked DEF m
<1>7. CASE AskedIn(w, e)
  <2> DEFINE c == e.change
  <2>1. e.kind = "rows" /\ SoundChange(c) /\ c.table = Target /\ In(w, e) /\ e.ends \in BOOLEAN
    BY <1>3, <1>7 DEF AskedIn, Entry, RowsEntry, QueryEntry
  <2>2. AsEvent(c) \in RowEvents
    BY <2>1, AsEventIs
  <2>3. g[m] = Append(g[k], AsEvent(c))
    BY <1>5, <1>7, <2>2, AppendOne
  <2>4. \/ Open(s, c, r) /\ ~e.ends /\ MakeRowEvent(c.type, r.values) = AsEvent(c)
        \/ Closed(s, c, r)
    <3>1. n \in 1..n
      BY <1>4
    <3>2. Sound(s)
      BY <1>2 DEF Settled
    <3> QED BY <2>1, <3>1, <3>2, TargetRead
  <2> HIDE DEF r, c
  <2>5. Sound(r)
    BY <1>4 DEF Settled, r
  <2>6. Flush(r) = Append(Flush(s), AsEvent(c)) /\ (r.inRow => ~e.ends)
    <3>1. CASE Open(s, c, r) /\ ~e.ends /\ MakeRowEvent(c.type, r.values) = AsEvent(c)
      <4>1. r.inRow = TRUE /\ r.type = c.type /\ r.events = Flush(s)
        BY <3>1 DEF Open
      <4> QED BY <2>5, <3>1, <4>1, FlushIs
    <3>2. CASE Closed(s, c, r)
      <4>1. r.inRow = FALSE /\ r.events = Append(Flush(s), AsEvent(c))
        BY <3>2 DEF Closed
      <4> QED BY <2>5, <4>1, FlushIs
    <3> QED BY <2>4, <3>1, <3>2
  <2>7. Reached(w, l, g, m, r)
    BY <1>1, <1>4, <1>6, <2>1, <2>3, <2>6 DEF Reached, r
  <2> QED BY <2>1, <2>7 DEF m, r
<1>8. CASE ~AskedIn(w, e)
  <2>1. g[m] = g[k]
    BY <1>5, <1>8
  <2>2. ASSUME ~s.inRow, In(w, e) PROVE r = s
    <3>1. e.kind = "rows" => SoundChange(e.change) /\ e.change.table # Target
      BY <1>3, <1>8, <2>2 DEF AskedIn
    <3>2. \A i \in 1..n : NoHead(EntryLines(e)[i])
      BY <1>3, <3>1, OtherLines
    <3>3. n \in 0..n
      BY <1>4
    <3> QED BY <1>2, <1>4, <2>2, <3>2, <3>3, NoHeadRead
  <2> DEFINE x == IF In(w, e) THEN r ELSE s
  <2>3. Settled(x) /\ (~s.inRow => x = s)
    BY <1>2, <1>4, <2>2
  <2> HIDE DEF x
  <2>4. ASSUME OneTable(w, l, Len(l)) PROVE Flush(x) = g[m] /\ ~x.inRow
    BY <1>6, <1>8, <2>1, <2>3, <2>4
  <2>5. Reached(w, l, g, m, x)
    BY <2>3, <2>4 DEF Reached
  <2> QED BY <2>5 DEF x, m
<1> QED BY <1>7, <1>8

\* The lines and the row events of a log, up to each entry.
Texts(w, l, f, g) == Flattens(f, Blocks(w, l)) /\ Flattens(g, EventsIn(w, l, Len(l)))

After(f, k) == Scanning!Fold(Start, f[k])

LEMMA ReachedAt ==
  ASSUME NEW w, NEW l, GoodLog(l), NEW f, NEW g, Texts(w, l, f, g), NEW k \in 0..Len(l)
  PROVE  Reached(w, l, g, k, After(f, k))
<1> DEFINE n == Len(l)
           bs == Blocks(w, l)
           T == {i \in Nat : i <= n => Reached(w, l, g, i, After(f, i))}
<1>1. /\ bs \in Seq(Seq(Lines)) /\ Len(bs) = n /\ n \in Nat
      /\ \A i \in 1..n : bs[i] = IF In(w, l[i]) THEN EntryLines(l[i]) ELSE <<>>
  BY BlocksAre
<1>2. /\ \A i \in 1..n : f[i] = f[i - 1] \o bs[i]
      /\ f[0] = <<>> /\ g[0] = <<>>
      /\ \A i \in 0..n : f[i] \in Seq(Lines)
  <2>1. \A i \in 0..Len(bs) : f[i] \in Seq(Lines)
    BY <1>1, FlattenedParts DEF Texts
  <2> QED BY <1>1, <2>1 DEF Texts, Flattens
<1> HIDE DEF bs, n
<1>3. 0 \in T
  <2>1. After(f, 0) = Start
    BY <1>2, Scanning!FoldEmpty DEF After
  <2>2. Flush(Start) = <<>> /\ Start.inRow = FALSE
    BY DEF Flush, Start
  <2>3. Reached(w, l, g, 0, After(f, 0))
    BY <1>2, <2>1, <2>2, FirstSettled DEF Reached
  <2> QED BY <2>3
<1>4. ASSUME NEW i \in Nat, i \in T PROVE i + 1 \in T
  <2> SUFFICES ASSUME i + 1 <= n PROVE Reached(w, l, g, i + 1, After(f, i + 1))
    OBVIOUS
  <2> DEFINE e == l[i + 1]
             s == After(f, i)
             lines == EntryLines(e)
  <2>1. i + 1 \in 1..n /\ i + 1 - 1 = i /\ i \in 0..n /\ Reached(w, l, g, i, s)
    BY <1>1, <1>4
  <2>2. f[i + 1] = f[i] \o bs[i + 1] /\ bs[i + 1] = (IF In(w, e) THEN lines ELSE <<>>)
        /\ f[i] \in Seq(Lines)
    <3>1. f[i + 1] = f[i] \o bs[i + 1]
      <4> DEFINE j == i + 1
      <4>1. j \in 1..n /\ j - 1 = i
        BY <2>1
      <4> HIDE DEF j
      <4>2. f[j] = f[j - 1] \o bs[j]
        BY <1>2, <4>1
      <4>3. f[j] = f[i] \o bs[j]
        BY <4>1, <4>2, Zenon
      <4> QED BY <4>3 DEF j
    <3>2. bs[i + 1] = IF In(w, l[i + 1]) THEN EntryLines(l[i + 1]) ELSE <<>>
      BY <1>1, <2>1, Zenon
    <3>3. f[i] \in Seq(Lines)
      BY <1>2, <2>1
    <3> QED BY <3>1, <3>2, <3>3, Zenon
  <2>3. Reached(w, l, g, i + 1, IF In(w, e) THEN Read(s, e, Len(lines)) ELSE s)
    BY <2>1, NextReached DEF Texts, n
  <2>4. CASE In(w, e)
    <3>1. lines \in Seq(Lines)
      BY <1>1, <2>1, <2>2, <2>4
    <3> DEFINE v == f[i]
    <3>2. f[i + 1] = v \o lines /\ v \in Seq(Lines)
      BY <2>2, <2>4
    <3> HIDE DEF v, lines
    <3>3. Scanning!Fold(Start, v \o lines) = Scanning!Fold(Scanning!Fold(Start, v), lines)
      BY <3>1, <3>2, Scanning!FoldConcat
    <3>4. SubSeq(lines, 1, Len(lines)) = lines
      BY <3>1
    <3>5. After(f, i + 1) = Read(s, e, Len(lines))
      BY <3>2, <3>3, <3>4, Zenon DEF After, Read, v, lines
    <3> QED BY <2>3, <2>4, <3>5 DEF lines
  <2>5. CASE ~In(w, e)
    <3>1. f[i + 1] = f[i] \o <<>>
      BY <2>2, <2>5
    <3> DEFINE v == f[i]
    <3>2. v \o <<>> = v
      <4>1. v \in Seq(Lines)
        BY <2>2
      <4> HIDE DEF v
      <4> QED BY <4>1
    <3>3. After(f, i + 1) = s
      BY <3>1, <3>2, Zenon DEF After
    <3> QED BY <2>3, <2>5, <3>3
  <2> QED BY <2>4, <2>5
<1>5. Nat \subseteq T
  <2> HIDE DEF T
  <2> QED BY <1>3, <1>4, Scanning!SetInduction
<1> QED BY <1>1, <1>5 DEF n

\* The text and the row events, as the model names them.
TextOf(w, l)   == FlattenSeq(Blocks(w, l))
AllEvents(w, l) == FlattenSeq(EventsIn(w, l, Len(l)))

LEMMA TextsExist ==
  ASSUME NEW w, NEW l, GoodLog(l)
  PROVE  \E f, g : /\ Texts(w, l, f, g)
                   /\ TextOf(w, l) = f[Len(l)] /\ AllEvents(w, l) = g[Len(l)]
<1>1. Blocks(w, l) \in Seq(Seq(Lines)) /\ Len(Blocks(w, l)) = Len(l) /\ Len(l) \in 0..Len(l)
  BY BlocksAre
<1>2. EventsIn(w, l, Len(l)) \in Seq(Seq(RowEvents)) /\ Len(EventsIn(w, l, Len(l))) = Len(l)
  BY <1>1, EventsInAre
<1>3. PICK f : Flattens(f, Blocks(w, l)) /\ TextOf(w, l) = f[Len(l)]
  BY <1>1, Flattening DEF TextOf
<1>4. PICK g : Flattens(g, EventsIn(w, l, Len(l))) /\ AllEvents(w, l) = g[Len(l)]
  BY <1>2, Flattening DEF AllEvents
<1> QED BY <1>3, <1>4 DEF Texts

\* The whole text gives the row events of the window.
LEMMA ScansAll ==
  ASSUME NEW w, NEW l, GoodLog(l)
  PROVE  /\ Scan(TextOf(w, l)) \in Seq(RowEvents)
         /\ OneTable(w, l, Len(l)) => Scan(TextOf(w, l)) = AllEvents(w, l)
<1>1. PICK f, g : /\ Texts(w, l, f, g)
                  /\ TextOf(w, l) = f[Len(l)] /\ AllEvents(w, l) = g[Len(l)]
  BY TextsExist
<1> DEFINE n == Len(l)
           s == After(f, n)
<1>2. n \in 0..n
  BY BlocksAre
<1>3. Reached(w, l, g, n, s)
  BY <1>1, <1>2, ReachedAt
<1>4. Scan(TextOf(w, l)) = Result(s)
  BY <1>1, ScanIs DEF After
<1> HIDE DEF s, n
<1>5. Settled(s) /\ Sound(s) /\ (OneTable(w, l, n) => Flush(s) = g[n])
  BY <1>3 DEF Reached, Settled, n
<1>6. Result(s) \in Seq(RowEvents) /\ Result(s) = Flush(s)
  BY <1>5, ResultIs
<1> QED BY <1>1, <1>4, <1>5, <1>6 DEF n

-----------------------------------------------------------------------------
(* ... and of a part of it.                                                 *)

LEMMA ExtendsOn ==
  ASSUME NEW S, NEW u \in Seq(S), NEW v \in Seq(S), NEW x \in Seq(S), Extends(u, v), Extends(v, x)
  PROVE  Extends(u, x)
<1>1. Len(u) \in Nat /\ Len(v) \in Nat /\ Len(x) \in Nat
  OBVIOUS
<1>2. \A i \in 1..Len(u) : i \in 1..Len(v)
  BY <1>1 DEF Extends
<1> QED BY <1>1, <1>2 DEF Extends

\* A concatenation begins with what it was before.
LEMMA FlattenedExtends ==
  ASSUME NEW S, NEW ss \in Seq(Seq(S)), NEW g, Flattens(g, ss), NEW k \in 0..Len(ss)
  PROVE  Extends(g[k], g[Len(ss)])
<1> DEFINE n == Len(ss)
           T == {i \in Nat : k <= i /\ i <= n => Extends(g[k], g[i])}
<1>1. n \in Nat /\ k \in Nat /\ (\A i \in 1..n : ss[i] \in Seq(S)) /\ (\A i \in 0..n : g[i] \in Seq(S))
  BY FlattenedParts
<1>2. \A u \in Seq(S) : Extends(u, u)
  BY DEF Extends
<1>3. 0 \in T
  <2>1. k <= 0 => k = 0
    BY <1>1
  <2>2. 0 \in 0..n
    BY <1>1
  <2> QED BY <1>1, <1>2, <2>1, <2>2
<1>4. ASSUME NEW i \in Nat, i \in T PROVE i + 1 \in T
  <2> SUFFICES ASSUME k <= i + 1, i + 1 <= n PROVE Extends(g[k], g[i + 1])
    OBVIOUS
  <2> DEFINE j == i + 1
  <2>1. j \in 1..n /\ j \in 0..n /\ j - 1 = i /\ i \in 0..n
    BY <1>1
  <2>2. k <= i => Extends(g[k], g[i])
    BY <1>4, <2>1
  <2>3. k > i => k = j
    BY <1>1
  <2> HIDE DEF j
  <2>4. g[j] = g[i] \o ss[j] /\ g[i] \in Seq(S) /\ ss[j] \in Seq(S) /\ g[j] \in Seq(S)
    BY <1>1, <2>1 DEF Flattens
  <2>5. Extends(g[i], g[i] \o ss[j])
    BY <2>4, Joined
  <2>6. CASE k <= i
    BY <1>1, <2>2, <2>4, <2>5, <2>6, ExtendsOn DEF j
  <2>7. CASE k > i
    BY <1>2, <2>3, <2>4, <2>7 DEF j
  <2> QED BY <1>1, <2>6, <2>7
<1>5. Nat \subseteq T
  <2> HIDE DEF T
  <2> QED BY <1>3, <1>4, Scanning!SetInduction
<1> QED BY <1>1, <1>5

\* u is a beginning of v whose last element may be another.
Cut(u, v) == Len(u) <= Len(v) /\ \A i \in 1..Len(u) - 1 : u[i] = v[i]

LEMMA CutBegins ==
  ASSUME NEW S, NEW u \in Seq(S), NEW v \in Seq(S), NEW x \in Seq(S), Extends(v, x), Cut(u, v)
  PROVE  Cut(u, x)
<1>1. Len(u) \in Nat /\ Len(v) \in Nat /\ Len(x) \in Nat
  OBVIOUS
<1>2. \A i \in 1..Len(u) - 1 : i \in 1..Len(v)
  BY <1>1 DEF Cut
<1> QED BY <1>1, <1>2 DEF Cut, Extends

LEMMA CutSelf == ASSUME NEW S, NEW u \in Seq(S) PROVE Cut(u, u)
BY DEF Cut

LEMMA CutOne ==
  ASSUME NEW S, NEW u \in Seq(S), NEW x \in S, NEW y \in S
  PROVE  Cut(u, u) /\ Cut(u, Append(u, y)) /\ Cut(Append(u, x), Append(u, y))
<1> DEFINE a == Append(u, x)
           b == Append(u, y)
           n == Len(u)
<1>1. /\ Len(a) = n + 1 /\ Len(b) = n + 1 /\ n \in Nat
      /\ \A i \in 1..n : a[i] = u[i] /\ b[i] = u[i]
  OBVIOUS
<1> HIDE DEF a, b, n
<1>2. Cut(u, u)
  BY <1>1 DEF Cut, n
<1>3. n <= Len(b) /\ n + 1 - 1 = n /\ \A i \in 1..n - 1 : i \in 1..n
  BY <1>1
<1>4. Cut(u, b)
  BY <1>1, <1>3 DEF Cut, n
<1>5. Cut(a, b)
  BY <1>1, <1>3 DEF Cut
<1> QED BY <1>2, <1>4, <1>5 DEF a, b

\* A part of the text gives row events, which are a beginning of those of the window.
LEMMA ScansPart ==
  ASSUME NEW w, NEW l, GoodLog(l), NEW m \in 0..Len(TextOf(w, l))
  PROVE  LET r == Scan(SubSeq(TextOf(w, l), 1, m)) IN
         /\ r \in Seq(RowEvents)
         /\ OneTable(w, l, Len(l)) => Cut(r, AllEvents(w, l))
<1>1. PICK f, g : /\ Texts(w, l, f, g)
                  /\ TextOf(w, l) = f[Len(l)] /\ AllEvents(w, l) = g[Len(l)]
  BY TextsExist
<1> DEFINE n == Len(l)
           u == SubSeq(TextOf(w, l), 1, m)
           bs == Blocks(w, l)
           es == EventsIn(w, l, n)
           good(r) == r \in Seq(RowEvents) /\ (OneTable(w, l, n) => Cut(r, g[n]))
<1>2. /\ bs \in Seq(Seq(Lines)) /\ Len(bs) = n /\ n \in Nat /\ n \in 0..n
      /\ \A i \in 1..n : bs[i] = IF In(w, l[i]) THEN EntryLines(l[i]) ELSE <<>>
  BY BlocksAre
<1>3. /\ es \in Seq(Seq(RowEvents)) /\ Len(es) = n
      /\ \A i \in 1..n : es[i] = IF AskedIn(w, l[i]) THEN <<AsEvent(l[i].change)>> ELSE <<>>
  BY <1>2, EventsInAre
<1>4. /\ \A i \in 0..n : g[i] \in Seq(RowEvents) /\ Extends(g[i], g[n])
      /\ \A i \in 1..n : g[i] = g[i - 1] \o es[i]
  <2>1. Flattens(g, es)
    BY <1>1 DEF Texts
  <2>2. \A i \in 0..n : g[i] \in Seq(RowEvents)
    BY <1>3, <2>1, FlattenedParts
  <2>3. \A i \in 0..n : Extends(g[i], g[n])
    <3> HIDE DEF es, n
    <3>1. \A i \in 0..Len(es) : Extends(g[i], g[Len(es)])
      BY <1>3, <2>1, FlattenedExtends
    <3> QED BY <1>3, <3>1
  <2> HIDE DEF es, n
  <2> QED BY <1>3, <2>1, <2>2, <2>3 DEF Flattens
<1>5. \A i \in 0..n : f[i] \in Seq(Lines)
  <2> HIDE DEF bs, n
  <2>1. Flattens(f, bs)
    BY <1>1 DEF Texts, bs
  <2>2. \A i \in 0..Len(bs) : f[i] \in Seq(Lines)
    BY <1>2, <2>1, FlattenedParts
  <2> QED BY <1>2, <2>2
<1>6. Begins(u, f, bs, n)
  <2>1. m \in 0..Len(f[n])
    BY <1>1
  <2>2. Flattens(f, bs)
    BY <1>1 DEF Texts
  <2> HIDE DEF bs, n
  <2>3. Begins(SubSeq(f[Len(bs)], 1, m), f, bs, Len(bs))
    BY <1>2, <2>1, <2>2, Beginnings
  <2> QED BY <1>1, <1>2, <2>3 DEF n
<1>7. Scan(u) = Result(Scanning!Fold(Start, u))
  BY ScanIs
<1> HIDE DEF u, bs, es
<1>8. ASSUME NEW k \in 0..n
      PROVE  /\ Settled(After(f, k))
             /\ OneTable(w, l, n) =>
                  /\ Flush(After(f, k)) = g[k]
                  /\ After(f, k).inRow => k # 0 /\ In(w, l[k]) /\ ~l[k].ends
  <2>1. Reached(w, l, g, k, After(f, k))
    BY <1>1, ReachedAt
  <2> QED BY <2>1 DEF Reached
<1> HIDE DEF n
<1>9. ASSUME NEW k \in 0..n, OneTable(w, l, n), NEW r \in Seq(RowEvents), Cut(r, g[k])
      PROVE  Cut(r, g[n])
  <2>1. g[k] \in Seq(RowEvents) /\ g[n] \in Seq(RowEvents) /\ Extends(g[k], g[n])
    BY <1>2, <1>4
  <2> QED BY <1>9, <2>1, CutBegins
<1>10. ASSUME NEW k \in 0..n, u = f[k] PROVE good(Scan(u))
  <2> DEFINE s == After(f, k)
  <2>1. Scan(u) = Result(s)
    BY <1>7, <1>10 DEF After
  <2>2. Settled(s) /\ Sound(s) /\ (OneTable(w, l, n) => Flush(s) = g[k])
    BY <1>8 DEF Settled
  <2> HIDE DEF s
  <2>3. Result(s) \in Seq(RowEvents) /\ Result(s) = Flush(s)
    BY <2>2, ResultIs
  <2>4. Cut(g[k], g[k])
    <3>1. g[k] \in Seq(RowEvents)
      BY <1>4
    <3> QED BY <3>1, CutSelf
  <2>5. Scan(u) \in Seq(RowEvents) /\ (OneTable(w, l, n) => Cut(Scan(u), g[n]))
    BY <1>9, <2>1, <2>2, <2>3, <2>4
  <2> QED BY <2>5
<1>11. ASSUME NEW k \in 0..n, k < n, NEW j \in 1..Len(bs[k + 1]), u = f[k] \o SubSeq(bs[k + 1], 1, j)
       PROVE  good(Scan(u))
  <2> DEFINE e == l[k + 1]
             s == After(f, k)
             lines == EntryLines(e)
             r == Read(s, e, j)
             c == e.change
  <2>1. k + 1 \in 1..n /\ k + 1 \in 0..n /\ k \in Nat /\ k + 1 - 1 = k
    BY <1>2, <1>11
  <2>2. In(w, e) /\ bs[k + 1] = lines
    <3>1. bs[k + 1] = IF In(w, e) THEN lines ELSE <<>>
      BY <1>2, <2>1, Zenon
    <3>2. 1..Len(<<>>) = {}
      OBVIOUS
    <3>3. bs[k + 1] # <<>>
      BY <1>11, <3>2
    <3> QED BY <3>1, <3>3, Zenon
  <2>3. e \in Entry /\ (e.kind = "rows" => SoundChange(c))
    BY <2>1 DEF GoodLog, n
  <2>4. Settled(s) /\ Sound(s)
    BY <1>8 DEF Settled
  <2>5. lines \in Seq(Lines) /\ j \in 1..Len(lines) /\ Sound(r)
    BY <1>11, <2>2, <2>3, <2>4, EntryRead
  <2>6. Scan(u) = Result(r)
    <3> DEFINE v == f[k]
               x == SubSeq(lines, 1, j)
    <3>1. v \in Seq(Lines)
      BY <1>5
    <3>2. x \in Seq(Lines)
      <4> HIDE DEF lines
      <4>1. \A i \in 1..j : i \in 1..Len(lines)
        BY <2>5
      <4> QED BY <2>5, <4>1
    <3>3. u = v \o x
      BY <1>11, <2>2
    <3> HIDE DEF v, x
    <3>4. Scanning!Fold(Start, v \o x) = Scanning!Fold(Scanning!Fold(Start, v), x)
      BY <3>1, <3>2, Scanning!FoldConcat
    <3>5. Scanning!Fold(Start, u) = r
      BY <3>3, <3>4, Zenon DEF v, x, After, Read
    <3> QED BY <1>7, <3>5
  <2>7. Result(r) \in Seq(RowEvents)
    BY <2>5, ResultIs
  <2> HIDE DEF r, s, lines
  <2>8. ASSUME OneTable(w, l, n) PROVE Cut(Result(r), g[n])
    <3>1. Flush(s) = g[k] /\ (s.inRow => AskedIn(w, e))
      <4>1. Flush(s) = g[k] /\ (s.inRow => k # 0 /\ In(w, l[k]) /\ ~l[k].ends)
        BY <1>8, <2>8 DEF s
      <4>2. k # 0 => k \in 1..n
        BY <1>2
      <4> QED BY <2>8, <4>1, <4>2, OpenIsAsked DEF n
    <3>2. g[k] \in Seq(RowEvents)
      BY <1>4
    <3>3. CASE AskedIn(w, e)
      <4>1. e.kind = "rows" /\ SoundChange(c) /\ c.table = Target /\ e.ends \in BOOLEAN
        BY <2>3, <3>3 DEF AskedIn, Entry, RowsEntry, QueryEntry
      <4>2. AsEvent(c) \in RowEvents
        BY <4>1, AsEventIs
      <4>3. g[k + 1] = Append(g[k], AsEvent(c))
        <5>1. g[k + 1] = g[k] \o es[k + 1]
          <6> DEFINE i == k + 1
          <6>1. i \in 1..n /\ i - 1 = k
            BY <2>1
          <6> HIDE DEF i
          <6>2. g[i] = g[i - 1] \o es[i]
            BY <1>4, <6>1
          <6>3. g[i] = g[k] \o es[i]
            BY <6>1, <6>2, Zenon
          <6> QED BY <6>3 DEF i
        <5>2. es[k + 1] = <<AsEvent(c)>>
          BY <1>3, <2>1, <3>3, Zenon
        <5>3. g[k + 1] = g[k] \o <<AsEvent(c)>>
          BY <5>1, <5>2, Zenon
        <5> QED BY <3>2, <4>2, <5>3, AppendOne
      <4>4. Open(s, c, r) \/ Closed(s, c, r)
        BY <2>4, <2>5, <4>1, TargetRead DEF r, lines
      <4>5. ASSUME NEW x \in RowEvents, Result(r) = Append(g[k], x)
            PROVE  Cut(Result(r), g[k + 1])
        BY <3>2, <4>2, <4>3, <4>5, CutOne
      <4>6. Cut(Result(r), g[k + 1])
        <5>1. CASE Open(s, c, r)
          <6>1. r.inRow = TRUE /\ r.type = c.type /\ r.events = g[k]
            BY <3>1, <5>1 DEF Open
          <6>2. CASE r.values = <<>>
            <7>1. Result(r) = g[k]
              BY <6>1, <6>2 DEF Result
            <7> QED BY <3>2, <4>2, <4>3, <7>1, CutOne
          <6>3. CASE r.values # <<>>
            <7>1. Result(r) = Append(g[k], MakeRowEvent(r.type, r.values))
              BY <2>5, <6>1, <6>3, FlushIs DEF Result
            <7>2. MakeRowEvent(r.type, r.values) \in RowEvents
              BY <2>5, <6>1, RowEventIs DEF Sound
            <7> QED BY <4>5, <7>1, <7>2
          <6> QED BY <6>2, <6>3
        <5>2. CASE Closed(s, c, r)
          <6>1. r.values = <<>> /\ r.events = Append(g[k], AsEvent(c))
            BY <3>1, <5>2 DEF Closed
          <6>2. Result(r) = Append(g[k], AsEvent(c))
            BY <6>1 DEF Result
          <6> QED BY <4>2, <4>5, <6>2
        <5> QED BY <4>4, <5>1, <5>2
      <4> QED BY <1>9, <2>1, <2>7, <2>8, <4>6
    <3>4. CASE ~AskedIn(w, e)
      <4>1. ~s.inRow
        BY <3>1, <3>4
      <4>2. e.kind = "rows" => SoundChange(c) /\ c.table # Target
        BY <2>2, <2>3, <3>4 DEF AskedIn
      <4>3. \A i \in 1..Len(lines) : NoHead(lines[i])
        BY <2>3, <4>2, OtherLines DEF lines
      <4>4. j \in 0..Len(lines)
        BY <2>5
      <4>5. r = s
        BY <2>4, <2>5, <4>1, <4>3, <4>4, NoHeadRead DEF r, lines
      <4>6. Result(r) = g[k]
        BY <2>4, <3>1, <4>5, ResultIs
      <4>7. Cut(g[k], g[k])
        BY <3>2, CutSelf
      <4> QED BY <1>9, <2>7, <2>8, <4>6, <4>7
    <3> QED BY <3>3, <3>4
  <2> QED BY <2>6, <2>7, <2>8
<1>12. good(Scan(u))
  BY <1>6, <1>10, <1>11 DEF Begins
<1> QED BY <1>1, <1>12 DEF u, n

-----------------------------------------------------------------------------
(* The reverse SQL and its batches.                                         *)

Reversed == {ReverseSQL(e) : e \in {x \in RowEvents : Reversible(x)}}

\* What a statement of the reverse SQL writes is a value, or it deletes the row.
LEMMA WrittenIs == ASSUME NEW s \in Reversed PROVE Written(s) \in Cell
<1>1. PICK e \in RowEvents : Reversible(e) /\ s = ReverseSQL(e)
  BY DEF Reversed
<1>2. /\ e.type \in Types /\ e.before \in Seq(Columns) \cup {NoImage}
      /\ e.before # NoImage /\ Len(e.before) = 2 => e.before[2] \in Values
  BY <1>1 DEF RowEvents
<1>3. Null \in Values
  BY FlashbackAssumption
<1>4. CASE e.type = "INSERT"
  <2>1. s.op = "DELETE"
    BY <1>1, <1>4 DEF ReverseSQL
  <2> QED BY <2>1 DEF Written, Cell
<1>5. CASE e.type = "DELETE"
  <2>1. s.op = "INSERT" /\ s.set = e.before /\ e.before # NoImage
    BY <1>1, <1>5 DEF ReverseSQL, Reversible
  <2> QED BY <1>2, <1>3, <2>1 DEF Written, Cell
<1>6. CASE e.type = "UPDATE"
  <2>1. s.op = "UPDATE" /\ s.set = e.before /\ e.before # NoImage
    BY <1>1, <1>6 DEF ReverseSQL, Reversible
  <2> QED BY <1>2, <1>3, <2>1 DEF Written, Cell
<1> QED BY <1>2, <1>4, <1>5, <1>6 DEF Types

\* Every statement is that of an event.
LEMMA ReversedAre ==
  ASSUME NEW evs \in Seq(RowEvents), \A i \in 1..Len(evs) : Reversible(evs[i])
  PROVE  /\ ReverseSQLBatch(evs) \in Seq(Reversed) /\ Len(ReverseSQLBatch(evs)) = Len(evs)
         /\ \A j \in 1..Len(evs) : \E i \in 1..Len(evs) : ReverseSQLBatch(evs)[j] = ReverseSQL(evs[i])
<1> DEFINE n == Len(evs)
           b == ReverseSQLBatch(evs)
<1>1. n \in Nat /\ \A i \in 1..n : evs[i] \in RowEvents
  OBVIOUS
<1>2. Len(b) = n /\ DOMAIN b = 1..n /\ \A i \in 1..n : b[n + 1 - i] = ReverseSQL(evs[i])
  BY NewestFirst
<1>3. b = [j \in DOMAIN evs |-> ReverseSQL(evs[Len(evs) + 1 - j])] /\ DOMAIN evs = 1..n
  BY DEF ReverseSQLBatch
<1> HIDE DEF n, b
<1>4. ASSUME NEW j \in 1..n PROVE n + 1 - j \in 1..n /\ n + 1 - (n + 1 - j) = j
  BY <1>1
<1>5. \A j \in 1..n : \E i \in 1..n : b[j] = ReverseSQL(evs[i])
  BY <1>2, <1>4
<1>6. \A j \in 1..n : b[j] \in Reversed
  BY <1>1, <1>5 DEF Reversed, n
<1>7. b \in Seq(Reversed)
  <2>1. b = [j \in 1..n |-> b[j]]
    BY <1>3
  <2> QED BY <1>1, <1>6, <2>1
<1> QED BY <1>2, <1>5, <1>7 DEF n, b

\* The statements of a batch, and how many there are up to its end.
Upto(s, n)  == IF n * BatchSize < Len(s) THEN n * BatchSize ELSE Len(s)
Piece(s, n) == SubSeq(s, (n - 1) * BatchSize + 1, Upto(s, n))
Pieces(s)   == (Len(s) + BatchSize - 1) \div BatchSize

LEMMA TwoParts ==
  ASSUME NEW S, NEW s \in Seq(S), NEW a \in Nat, NEW b \in Nat, a <= b, b <= Len(s)
  PROVE  /\ SubSeq(s, 1, a) \in Seq(S) /\ SubSeq(s, a + 1, b) \in Seq(S) /\ SubSeq(s, 1, b) \in Seq(S)
         /\ SubSeq(s, 1, a) \o SubSeq(s, a + 1, b) = SubSeq(s, 1, b)
         /\ Len(SubSeq(s, a + 1, b)) = b - a
         /\ \A i \in 1..b - a : SubSeq(s, a + 1, b)[i] = s[a + i]
<1> DEFINE u == SubSeq(s, 1, a)
           v == SubSeq(s, a + 1, b)
           w == SubSeq(s, 1, b)
<1>1. u \in Seq(S) /\ Len(u) = a /\ \A i \in 1..a : u[i] = s[i]
  OBVIOUS
<1>2. v \in Seq(S) /\ Len(v) = b - a /\ \A i \in 1..b - a : v[i] = s[a + i]
  OBVIOUS
<1>3. w \in Seq(S) /\ Len(w) = b /\ \A i \in 1..b : w[i] = s[i]
  OBVIOUS
<1> HIDE DEF u, v, w
<1>4. /\ u \o v \in Seq(S) /\ Len(u \o v) = b /\ Extends(u, u \o v)
      /\ \A i \in 1..b - a : (u \o v)[a + i] = v[i]
  <2>1. u \in Seq(S) /\ v \in Seq(S)
    BY <1>1, <1>2, Zenon
  <2>2. /\ u \o v \in Seq(S) /\ Len(u \o v) = Len(u) + Len(v) /\ Extends(u, u \o v)
        /\ \A i \in 1..Len(v) : (u \o v)[Len(u) + i] = v[i]
    BY ONLY <2>1, Joined, ZenonT(40)
  <2>3. a + (b - a) = b
    OBVIOUS
  <2> QED BY <1>1, <1>2, <2>2, <2>3, Zenon
<1>5. ASSUME NEW i \in 1..b PROVE (u \o v)[i] = w[i]
  <2>1. CASE i <= a
    BY <1>1, <1>3, <1>4, <2>1 DEF Extends
  <2>2. CASE i > a
    <3>1. i - a \in 1..b - a /\ a + (i - a) = i
      BY <2>2
    <3> QED BY <1>2, <1>3, <1>4, <3>1
  <2>3. i <= a \/ i > a
    OBVIOUS
  <2> QED BY <2>1, <2>2, <2>3, Zenon
<1>6. u \o v = w
  BY <1>3, <1>4, <1>5, SameSequence
<1> QED BY <1>1, <1>2, <1>3, <1>6 DEF u, v, w

LEMMA PieceIs ==
  ASSUME NEW S, NEW s \in Seq(S), NEW n \in Nat, n < Pieces(s)
  PROVE  /\ Piece(s, n + 1) \in Seq(S) /\ SubSeq(s, 1, Upto(s, n)) \in Seq(S)
         /\ SubSeq(s, 1, Upto(s, n)) \o Piece(s, n + 1) = SubSeq(s, 1, Upto(s, n + 1))
         /\ \A i \in 1..Len(Piece(s, n + 1)) : \E j \in 1..Len(s) : Piece(s, n + 1)[i] = s[j]
<1> DEFINE b == BatchSize
           l == Len(s)
           x == n * b
           y == (n + 1) * b
           a == Upto(s, n)
           e == Upto(s, n + 1)
<1>1. b \in Nat \ {0} /\ l \in Nat
  BY FlashbackAssumption
<1>2. Pieces(s) \in Nat /\ Pieces(s) * b <= l + b - 1
  <2>1. l + b - 1 \in Nat /\ Pieces(s) = (l + b - 1) \div b
    BY <1>1 DEF Pieces
  <2> HIDE DEF b, l
  <2> QED BY <1>1, <2>1, Divide
<1>3. x \in Nat /\ y = x + b
  <2> HIDE DEF b
  <2> QED BY <1>1
<1>4. x + b <= Pieces(s) * b /\ Pieces(s) * b \in Nat
  <2> HIDE DEF b
  <2> QED BY <1>1, <1>2, NextMultiple
<1>5. ASSUME NEW m, m - 1 = n PROVE Piece(s, m) = SubSeq(s, n * BatchSize + 1, Upto(s, m))
  BY <1>5, Zenon DEF Piece
<1>6. Piece(s, n + 1) = SubSeq(s, x + 1, e)
  <2> DEFINE m == n + 1
  <2>1. m - 1 = n
    OBVIOUS
  <2> HIDE DEF m
  <2>2. Piece(s, m) = SubSeq(s, n * BatchSize + 1, Upto(s, m))
    BY <1>5, <2>1
  <2> QED BY <2>2 DEF m
<1> HIDE DEF x, y, b, l
<1>7. x < l /\ a = x /\ e \in Nat /\ x <= e /\ e <= l
  BY <1>1, <1>2, <1>3, <1>4 DEF Upto, x, y, b, l
<1> HIDE DEF a, e
<1>8. /\ SubSeq(s, 1, x) \in Seq(S) /\ SubSeq(s, x + 1, e) \in Seq(S)
      /\ SubSeq(s, 1, x) \o SubSeq(s, x + 1, e) = SubSeq(s, 1, e)
      /\ Len(SubSeq(s, x + 1, e)) = e - x
      /\ \A i \in 1..e - x : SubSeq(s, x + 1, e)[i] = s[x + i]
  BY <1>3, <1>7, TwoParts DEF l
<1>9. \A i \in 1..e - x : x + i \in 1..l
  BY <1>1, <1>3, <1>7
<1> QED BY <1>6, <1>7, <1>8, <1>9, ZenonT(40) DEF a, e, l

LEMMA AllPieces ==
  ASSUME NEW S, NEW s \in Seq(S)
  PROVE  /\ Pieces(s) \in Nat /\ SubSeq(s, 1, Upto(s, 0)) = <<>>
         /\ SubSeq(s, 1, Upto(s, Pieces(s))) = s
<1> DEFINE b == BatchSize
           l == Len(s)
           p == Pieces(s)
<1>1. b \in Nat \ {0} /\ l \in Nat
  BY FlashbackAssumption
<1>2. p \in Nat /\ l + b - 1 < p * b + b
  <2>1. l + b - 1 \in Nat /\ p = (l + b - 1) \div b
    BY <1>1 DEF Pieces
  <2> HIDE DEF b, l, p
  <2> QED BY <1>1, <2>1, Divide
<1>3. p * b \in Nat /\ 0 * b = 0
  <2> HIDE DEF b, p
  <2> QED BY <1>1, <1>2
<1>4. Upto(s, p) = l
  <2> HIDE DEF b, l, p
  <2> QED BY <1>1, <1>2, <1>3 DEF Upto, b, l
<1>5. Upto(s, 0) = 0
  BY <1>1, <1>3 DEF Upto
<1>6. SubSeq(s, 1, 0) = <<>> /\ SubSeq(s, 1, Len(s)) = s
  OBVIOUS
<1> QED BY <1>2, <1>4, <1>5, <1>6

-----------------------------------------------------------------------------
(* The log at every step.                                                   *)

\* What a step does to the log: it only grows.
LogGrows == LogOK' /\ Extends(log, log') /\ Extends(past, past')

LEMMA LogIs ==
  ASSUME LogOK
  PROVE  /\ log \in Seq(Entry) /\ past \in Seq(Table) /\ Len(log) \in Nat
         /\ Len(past) = Len(log) + 1 /\ past[Len(log) + 1] = rows /\ rows \in Table
         /\ \A i \in 1..Len(log) : log[i] \in Entry
         /\ \A i \in 1..Len(log) + 1 : past[i] \in Table
<1>1. /\ log \in Seq(Entry) /\ past \in Seq(Table) /\ Len(log) \in Nat
      /\ Len(past) = Len(log) + 1 /\ past[Len(log) + 1] = rows
  BY DEF LogOK, Recorded
<1>2. /\ \A i \in 1..Len(log) : log[i] \in Entry
      /\ \A i \in 1..Len(log) + 1 : past[i] \in Table
  BY <1>1
<1>3. Len(log) + 1 \in 1..Len(log) + 1
  BY <1>1
<1> QED BY <1>1, <1>2, <1>3

LEMMA FirstLog == ASSUME Init PROVE LogOK
<1>1. rows \in Table
  BY FlashbackAssumption DEF Init, Table
<1>2. log = <<>> /\ Len(log) = 0 /\ past = <<rows>> /\ past \in Seq(Table) /\ Len(past) = 1
      /\ past[1] = rows /\ file = 1
  BY <1>1 DEF Init
<1>3. 1..Len(log) = {} /\ log \in Seq(Entry) /\ Len(past) = Len(log) + 1 /\ past[Len(log) + 1] = rows
  BY <1>2
<1> QED BY <1>2, <1>3 DEF LogOK, Recorded, InOrder, WholeStatements

LEMMA LogStays ==
  ASSUME LogOK, UNCHANGED <<rows, log, past>>, file' \in Nat \ {0}
  PROVE  LogGrows
<1>1. Len(log) \in Nat /\ Len(past) \in Nat
  BY LogIs
<1>2. Extends(log, log') /\ Extends(past, past')
  BY <1>1 DEF Extends
<1>3. Recorded(rows', log', past') /\ InOrder(log') /\ WholeStatements(log')
  BY DEF LogOK
<1> QED BY <1>2, <1>3 DEF LogGrows, LogOK

\* What the application does only adds to the log, and something.
LEMMA StatementWrites ==
  ASSUME LogOK, Statement
  PROVE  /\ LogGrows /\ Len(log') > Len(log) /\ file' = file
         /\ \A i \in Len(log) + 1..Len(log') : log'[i].by = "app" /\ log'[i].file = file
<1>1. PICK changes \in Statements : Commit(changes, "app")
  BY DEF Statement
<1>2. Chained(rows, TablesOf(rows, changes), changes) /\ Len(changes) \in {1, 2}
  BY LogIs, StatementChains
<1>3. Grown(changes, "app") /\ LogOK' /\ file' = file
  BY <1>1, <1>2, CommitGrows, CommitKeepsLog
<1>4. /\ Extends(log, log') /\ Extends(past, past') /\ Len(log') = Len(log) + Len(changes)
      /\ \A m \in 1..Len(changes) : log'[Len(log) + m].by = "app" /\ log'[Len(log) + m].file = file
  BY <1>3 DEF Grown
<1>5. ASSUME NEW i \in Len(log) + 1..Len(log') PROVE log'[i].by = "app" /\ log'[i].file = file
  <2>1. i - Len(log) \in 1..Len(changes) /\ Len(log) + (i - Len(log)) = i
    BY <1>2, <1>4, LogIs
  <2> QED BY <1>4, <2>1
<1>6. Len(log') > Len(log)
  <2>1. Len(log) \in Nat
    BY LogIs
  <2> QED BY <1>2, <1>4, <2>1
<1> QED BY <1>3, <1>4, <1>5, <1>6 DEF LogGrows

LEMMA TruncateWrites ==
  ASSUME LogOK, Truncate
  PROVE  /\ LogGrows /\ Len(log') > Len(log) /\ file' = file
         /\ \A i \in Len(log) + 1..Len(log') : log'[i].by = "app" /\ log'[i].file = file
<1> DEFINE n == Len(log)
           e == [kind |-> "query", ts |-> Clock + 1, ends |-> TRUE, file |-> file, by |-> "app"]
           none == [k \in Keys |-> Absent]
<1>1. /\ log \in Seq(Entry) /\ past \in Seq(Table) /\ n \in Nat /\ Len(past) = n + 1
      /\ \A i \in 1..n : log[i] \in Entry
      /\ Clock \in Nat /\ \A i \in 1..n : log[i].ts <= Clock
      /\ file \in Nat \ {0} /\ InOrder(log) /\ WholeStatements(log)
      /\ \A i \in 1..n : log[i].kind = "rows" =>
           Makes(past[i], log[i].change) /\ past[i + 1] = Write(past[i], log[i].change)
  BY LogIs, ClockIs DEF LogOK, Recorded
<1>2. rows' = none /\ log' = Append(log, e) /\ past' = Append(past, none) /\ file' = file
  BY DEF Truncate
<1>3. e \in QueryEntry /\ none \in Table
  BY <1>1 DEF QueryEntry, Table
<1>4. e.kind = "query" /\ e.ts = Clock + 1 /\ e.ends = TRUE /\ e.by = "app" /\ e.file = file
  OBVIOUS
<1> HIDE DEF e, none, n
<1>5. /\ log' \in Seq(Entry) /\ Len(log') = n + 1 /\ log'[n + 1] = e
      /\ \A i \in 1..n : log'[i] = log[i]
  BY <1>1, <1>2, <1>3 DEF Entry, n
<1>6. /\ past' \in Seq(Table) /\ Len(past') = n + 2 /\ past'[n + 2] = none
      /\ \A i \in 1..n + 1 : past'[i] = past[i]
  BY <1>1, <1>2, <1>3
<1>7. Extends(log, log') /\ Extends(past, past')
  BY <1>1, <1>5, <1>6 DEF Extends, n
<1>8. ASSUME NEW i \in 1..n + 1, log'[i].kind = "rows"
      PROVE  Makes(past'[i], log'[i].change) /\ past'[i + 1] = Write(past'[i], log'[i].change)
  <2>1. i # n + 1
    BY <1>4, <1>5, <1>8
  <2>2. i \in 1..n /\ i \in 1..n + 1 /\ i + 1 \in 1..n + 1
    BY <1>1, <2>1
  <2> QED BY <1>1, <1>5, <1>6, <1>8, <2>2
<1>9. Recorded(rows', log', past')
  <2>1. n + 1 + 1 = n + 2
    BY <1>1
  <2> QED BY <1>2, <1>5, <1>6, <1>8, <2>1 DEF Recorded
<1>10. InOrder(log')
  <2> SUFFICES ASSUME NEW i \in 1..n + 1, NEW j \in 1..n + 1, i <= j
               PROVE  log'[i].ts <= log'[j].ts
    BY <1>5 DEF InOrder
  <2>1. CASE j = n + 1
    <3>1. CASE i = n + 1
      BY <1>1, <1>4, <1>5, <2>1, <3>1
    <3>2. CASE i # n + 1
      <4>1. i \in 1..n
        BY <1>1, <3>2
      <4>2. log[i].ts <= Clock /\ log[i].ts \in Nat
        BY <1>1, <4>1 DEF Entry, RowsEntry, QueryEntry
      <4> QED BY <1>1, <1>4, <1>5, <2>1, <4>1, <4>2
    <3> QED BY <3>1, <3>2
  <2>2. CASE j # n + 1
    <3>1. i \in 1..n /\ j \in 1..n
      BY <1>1, <2>2
    <3> QED BY <1>1, <1>5, <3>1 DEF InOrder, n
  <2> QED BY <2>1, <2>2
<1>11. WholeStatements(log')
  <2> SUFFICES ASSUME NEW i \in 1..n + 1, ~log'[i].ends PROVE GoesOn(log', i)
    BY <1>5 DEF WholeStatements
  <2>1. i # n + 1
    BY <1>4, <1>5
  <2>2. i \in 1..n
    BY <1>1, <2>1
  <2>3. GoesOn(log, i)
    BY <1>1, <1>5, <2>2 DEF WholeStatements, n
  <2>4. i + 1 \in 1..n /\ i + 1 \in 1..n + 1
    BY <1>1, <2>3 DEF GoesOn, n
  <2> QED BY <1>5, <2>2, <2>3, <2>4 DEF GoesOn
<1>12. LogOK'
  BY <1>1, <1>2, <1>9, <1>10, <1>11 DEF LogOK
<1>13. \A i \in n + 1..n + 1 : log'[i].by = "app" /\ log'[i].file = file
  BY <1>1, <1>4, <1>5
<1>14. n + 1 > n
  BY <1>1
<1> QED BY <1>2, <1>5, <1>7, <1>12, <1>13, <1>14 DEF LogGrows, n

-----------------------------------------------------------------------------
(* The invariant of the operation.                                          *)

\* Where RunFlashback and handlePITRParse are, and what they have found and done so far.
Operation ==
  /\ pc \in {"idle", "preflight", "list", "parse", "reverse", "execute", "done", "failed"}
  /\ mode \in {"none", "cli", "daemon"} /\ start \in Nat /\ files \subseteq 1..file
  /\ seen \in 0..Len(log) /\ events \in Seq(RowEvents)
  /\ pc \in {"idle", "preflight", "list", "parse"} => events = <<>>
  /\ pc = "reverse" => events # <<>>
  /\ pc = "execute" => sqls # <<>>
  /\ sqls = <<>> => tried = 0 /\ failed = {} /\ preview = <<>>
  /\ sqls # <<>> => /\ sqls = ReverseSQLBatch(events)
                    /\ \A i \in 1..Len(events) : Reversible(events[i])
                    /\ pc \in {"execute", "done", "failed"}
                    /\ preview \in {<<>>, Preview(events, sqls)}
  /\ tried \in 0..Batches /\ failed \subseteq 1..tried
  /\ pc = "done" /\ tried > 0 => tried = Batches

\* The row events are those of the window, as the log was when the tool read it.
TheWindow == [files |-> files, start |-> start, stop |-> stop]

FromTheWindow ==
  events # <<>> /\ OneTable(TheWindow, log, seen) =>
    LET expected == FlattenSeq(EventsIn(TheWindow, log, seen))
    IN IF toolOk THEN events = expected ELSE Cut(events, expected)

\* What the log has of the operation is its reverse SQL, each change made by one statement.
MadeBySql ==
  \A i \in 1..Len(log) : log[i].by = "undo" =>
    /\ i > seen /\ tried > 0 /\ log[i].kind = "rows"
    /\ \E j \in 1..Len(sqls) : Undoing(past[i], sqls[j], log[i].change)

\* The batches tried, one after the other, are a run of their statements.
Replayed ==
  sqls # <<>> /\ failed = {} /\ (\A i \in seen + 1..Len(log) : log[i].by = "undo") =>
    LET t == RunBatch(past[seen + 1], SubSeq(sqls, 1, Upto(sqls, tried)))
    IN Run(t) /\ t.ok = TRUE /\ t.table = rows

FlashbackInv == LogOK /\ Operation /\ FromTheWindow /\ MadeBySql /\ Replayed

LEMMA SqlsAre ==
  ASSUME Operation
  PROVE  /\ sqls \in Seq(Reversed) /\ Batches = Pieces(sqls) /\ Batches \in Nat
         /\ sqls # <<>> => Len(sqls) = Len(events)
         /\ \A n : Batch(n) = Piece(sqls, n)
<1>1. ASSUME sqls # <<>> PROVE sqls \in Seq(Reversed) /\ Len(sqls) = Len(events)
  BY <1>1, ReversedAre DEF Operation
<1>2. Batches = Pieces(sqls) /\ \A n : Batch(n) = Piece(sqls, n)
  BY DEF Batches, Pieces, Batch, Piece, Upto
<1>3. sqls \in Seq(Reversed)
  <2>1. <<>> \in Seq(Reversed)
    OBVIOUS
  <2> QED BY <1>1, <2>1
<1>4. Pieces(sqls) \in Nat
  BY <1>3, AllPieces
<1> QED BY <1>1, <1>2, <1>3, <1>4

LEMMA InitFlashback == ASSUME Init PROVE FlashbackInv
<1>1. LogOK
  BY FirstLog
<1>2. Operation
  <2>1. sqls = <<>> /\ Len(sqls) = 0 /\ Len(log) = 0 /\ <<>> \in Seq(RowEvents)
    BY DEF Init
  <2>2. Batches \in Nat
    <3>1. Len(sqls) + BatchSize - 1 \in Nat /\ BatchSize \in Nat \ {0}
      BY <2>1, FlashbackAssumption
    <3> QED BY <3>1, Divide DEF Batches
  <2> QED BY <2>1, <2>2 DEF Init, Operation
<1>3. FromTheWindow /\ Replayed
  BY DEF Init, FromTheWindow, Replayed
<1>4. MadeBySql
  BY DEF Init, MadeBySql
<1> QED BY <1>1, <1>2, <1>3, <1>4 DEF FlashbackInv

\* A batch that commits: every change of it is that of a statement.
LEMMA BatchWrites ==
  ASSUME LogOK, Operation, tried < Batches, NEW t, t = RunBatch(rows, Batch(tried + 1)),
         Commit(t.changes, "undo")
  PROVE  /\ LogGrows /\ Len(log') >= Len(log) /\ file' = file /\ Run(t) /\ rows' = t.table
         /\ \A i \in Len(log) + 1..Len(log') :
              /\ log'[i].by = "undo" /\ log'[i].kind = "rows" /\ log'[i].file = file
              /\ \E j \in 1..Len(sqls) : Undoing(past'[i], sqls[j], log'[i].change)
<1> DEFINE batch == Piece(sqls, tried + 1)
           n == Len(log)
           k == Len(t.changes)
<1>1. sqls \in Seq(Reversed) /\ tried \in Nat /\ tried < Pieces(sqls) /\ Batch(tried + 1) = batch
  BY SqlsAre DEF Operation
<1>2. /\ batch \in Seq(Reversed)
      /\ \A i \in 1..Len(batch) : \E j \in 1..Len(sqls) : batch[i] = sqls[j]
  BY <1>1, PieceIs
<1>3. t = RunBatch(rows, batch)
  BY <1>1
<1> HIDE DEF batch
<1>4. \A i \in 1..Len(batch) : Written(batch[i]) \in Cell
  BY <1>2, WrittenIs
<1>5. rows \in Table /\ n \in Nat
  BY LogIs
<1>6. Effects(rows, batch, Len(batch), t)
  BY <1>2, <1>3, <1>4, <1>5, RunEffects
<1>7. /\ Run(t) /\ Chained(rows, TablesOf(rows, t.changes), t.changes)
      /\ Last(TablesOf(rows, t.changes)) = t.table
      /\ \A i \in 1..k : \E j \in 1..Len(batch) :
           Undoing(TablesOf(rows, t.changes)[i], batch[j], t.changes[i])
  BY <1>6 DEF Effects
<1>8. Grown(t.changes, "undo") /\ LogOK' /\ file' = file
  BY <1>7, CommitGrows, CommitKeepsLog
<1>9. /\ Extends(log, log') /\ Extends(past, past') /\ Len(log') = n + k
      /\ \A m \in 1..k : /\ log'[n + m].kind = "rows" /\ log'[n + m].by = "undo"
                         /\ log'[n + m].change = t.changes[m] /\ log'[n + m].file = file
      /\ \A m \in 1..k + 1 : past'[n + m] = TablesOf(rows, t.changes)[m]
      /\ rows' = Last(TablesOf(rows, t.changes))
  BY <1>8 DEF Grown
<1>10. k \in Nat
  BY <1>7 DEF Chained
<1> HIDE DEF n, k
<1>11. ASSUME NEW i \in n + 1..n + k
       PROVE  /\ log'[i].by = "undo" /\ log'[i].kind = "rows" /\ log'[i].file = file
              /\ \E j \in 1..Len(sqls) : Undoing(past'[i], sqls[j], log'[i].change)
  <2> DEFINE m == i - n
  <2>1. m \in 1..k /\ m \in 1..k + 1 /\ n + m = i
    BY <1>5, <1>10
  <2> HIDE DEF m
  <2>2. /\ log'[i].kind = "rows" /\ log'[i].by = "undo" /\ log'[i].change = t.changes[m]
        /\ log'[i].file = file
        /\ past'[i] = TablesOf(rows, t.changes)[m]
    BY <1>9, <2>1
  <2>3. PICK j \in 1..Len(batch) : Undoing(TablesOf(rows, t.changes)[m], batch[j], t.changes[m])
    BY <1>7, <2>1 DEF k
  <2>4. PICK x \in 1..Len(sqls) : batch[j] = sqls[x]
    BY <1>2
  <2> QED BY <2>2, <2>3, <2>4
<1>12. n + k >= n
  BY <1>5, <1>10
<1> QED BY <1>7, <1>8, <1>9, <1>11, <1>12 DEF LogGrows, n, k

LEMMA LogSteps ==
  ASSUME LogOK, Operation, [Next]_vars
  PROVE  /\ LogGrows /\ file \in Nat /\ file' \in Nat /\ file <= file'
         /\ Len(log) \in Nat /\ Len(log') \in Nat /\ Len(log) <= Len(log')
<1>1. file \in Nat \ {0}
  BY DEF LogOK
<1>2. ASSUME UNCHANGED server PROVE LogGrows /\ file' = file
  BY <1>1, <1>2, LogStays DEF server
<1>3. LogGrows /\ file <= file' /\ file' \in Nat
  <2>1. CASE Statement
    BY <1>1, <2>1, StatementWrites
  <2>2. CASE Truncate
    BY <1>1, <2>2, TruncateWrites
  <2>3. CASE Rotate
    <3>1. UNCHANGED <<rows, log, past>> /\ file' = file + 1
      BY <2>3 DEF Rotate
    <3>2. file' \in Nat \ {0} /\ file <= file'
      BY <1>1, <3>1
    <3> QED BY <3>1, <3>2, LogStays
  <2>4. CASE ExecuteBatch
    <3>1. CASE UNCHANGED server
      BY <1>1, <1>2, <3>1
    <3>2. CASE ~UNCHANGED server
      <4>1. tried < Batches /\ tried' = tried + 1
        BY <2>4 DEF ExecuteBatch
      <4>2. Commit(RunBatch(rows, Batch(tried + 1)).changes, "undo")
        BY <2>4, <3>2, <4>1 DEF ExecuteBatch
      <4> QED BY <1>1, <4>1, <4>2, BatchWrites
    <3> QED BY <3>1, <3>2
  <2>5. CASE StartCLI \/ StartDaemon \/ Preflight \/ ListFiles \/ ParseText \/ Undo
               \/ FinishExecute \/ Kill
    <3>1. UNCHANGED server
      BY <2>5 DEF StartCLI, StartDaemon, Preflight, ListFiles, ParseText, Undo, FinishExecute, Kill
    <3> QED BY <1>1, <1>2, <3>1
  <2>6. CASE UNCHANGED vars
    BY <1>1, <1>2, <2>6 DEF vars
  <2> QED BY <2>1, <2>2, <2>3, <2>4, <2>5, <2>6 DEF Next
<1>4. Len(log) \in Nat /\ Len(log') \in Nat /\ Len(log) <= Len(log')
  <2>1. log' \in Seq(Entry)
    BY <1>3 DEF LogGrows, LogOK, Recorded
  <2> QED BY <1>3, <2>1, LogIs DEF LogGrows, Extends
<1> QED BY <1>1, <1>3, <1>4

\* The model's text of the log.
LEMMA TextIs == ASSUME LogOK PROVE Text(log) = TextOf(TheWindow, log)
<1> DEFINE a == [i \in DOMAIN log |-> IF InWindow(log[i]) THEN EntryLines(log[i]) ELSE <<>>]
           b == [i \in 1..Len(log) |-> IF In(TheWindow, log[i]) THEN EntryLines(log[i]) ELSE <<>>]
<1>1. log \in Seq(Entry)
  BY LogIs
<1>2. DOMAIN log = 1..Len(log)
  BY <1>1
<1>3. \A e : InWindow(e) <=> In(TheWindow, e)
  BY DEF InWindow, In, TheWindow
<1>4. a = b
  BY <1>2, <1>3
<1> QED BY <1>4 DEF Text, TextOf, Blocks

LEMMA ParseFinds ==
  ASSUME LogOK, ParseText
  PROVE  /\ events' \in Seq(RowEvents)
         /\ OneTable(TheWindow, log, Len(log)) =>
              IF toolOk' THEN events' = AllEvents(TheWindow, log)
              ELSE Cut(events', AllEvents(TheWindow, log))
<1> DEFINE text == TextOf(TheWindow, log)
<1>1. GoodLog(log)
  BY LogIsGood
<1>2. \/ toolOk' = TRUE /\ events' = Scan(text)
      \/ toolOk' = FALSE /\ \E n \in 0..Len(text) : events' = Scan(SubSeq(text, 1, n))
  BY TextIs DEF ParseText
<1> HIDE DEF text
<1>3. CASE toolOk' = TRUE /\ events' = Scan(text)
  BY <1>1, <1>3, ScansAll DEF text
<1>4. ASSUME toolOk' = FALSE, NEW n \in 0..Len(text), events' = Scan(SubSeq(text, 1, n))
      PROVE  /\ events' \in Seq(RowEvents)
             /\ OneTable(TheWindow, log, Len(log)) => Cut(events', AllEvents(TheWindow, log))
  BY <1>1, <1>4, ScansPart DEF text
<1> QED BY <1>2, <1>3, <1>4

LEMMA OperationSteps ==
  ASSUME LogOK, Operation, [Next]_vars
  PROVE  Operation'
<1>1. /\ file \in Nat /\ file' \in Nat /\ file <= file'
      /\ Len(log) \in Nat /\ Len(log') \in Nat /\ Len(log) <= Len(log')
  BY LogSteps
<1>2. sqls' = sqls => Batches' = Batches
  BY DEF Batches
<1>3. /\ files \subseteq 1..file' /\ 1..file \subseteq 1..file' /\ seen \in 0..Len(log')
  <2>1. files \subseteq 1..file /\ seen \in 0..Len(log)
    BY DEF Operation
  <2>2. 1..file \subseteq 1..file' /\ 0..Len(log) \subseteq 0..Len(log')
    BY <1>1
  <2> QED BY <2>1, <2>2
<1>4. CASE UNCHANGED <<pc, request, files, parsed, result>>
  BY <1>2, <1>3, <1>4 DEF Operation, request, parsed, result
<1>5. CASE StartCLI
  BY <1>2, <1>3, <1>5 DEF Operation, StartCLI, parsed, result
<1>6. CASE StartDaemon
  <2>1. files' \subseteq 1..file'
    <3>1. files' = files \/ files' = BinlogFiles \/ \E f \in 1..file : files' = {f}
      BY <1>6 DEF StartDaemon
    <3> QED BY <1>3, <3>1 DEF BinlogFiles
  <2>2. /\ pc = "idle" /\ pc' \in {"parse", "failed"} /\ mode' = "daemon" /\ start' \in Nat
        /\ UNCHANGED <<seen, toolOk, events, sqls, tried, failed, preview>>
    BY <1>6, ClockIs DEF StartDaemon, Fail, parsed, result
  <2> QED BY <1>2, <1>3, <2>1, <2>2 DEF Operation
<1>7. CASE Preflight
  <2>1. /\ pc = "preflight" /\ pc' \in {"list", "failed"}
        /\ UNCHANGED <<mode, start, files, seen, toolOk, events, sqls, tried, failed, preview>>
    BY <1>7 DEF Preflight, Fail, request, parsed, result
  <2> QED BY <1>2, <1>3, <2>1 DEF Operation
<1>8. CASE ListFiles
  <2>1. /\ pc = "list" /\ pc' \in {"parse", "failed"} /\ files' \in {files, 1..file}
        /\ UNCHANGED <<mode, start, seen, toolOk, events, sqls, tried, failed, preview>>
    BY <1>8 DEF ListFiles, Fail, BinlogFiles, request, parsed, result
  <2> QED BY <1>2, <1>3, <2>1 DEF Operation
<1>9. CASE ParseText
  <2>1. events' \in Seq(RowEvents)
    BY <1>9, ParseFinds
  <2>2. /\ pc = "parse" /\ pc' \in {"reverse", "done", "failed"} /\ (pc' = "reverse" => events' # <<>>)
        /\ seen' = Len(log) /\ UNCHANGED <<mode, start, files, sqls, tried, failed, preview>>
    BY <1>9 DEF ParseText, Fail, request, result
  <2>3. seen' \in 0..Len(log')
    BY <1>1, <2>2
  <2>4. sqls = <<>> /\ tried = 0
    BY <2>2 DEF Operation
  <2> QED BY <1>2, <1>3, <2>1, <2>2, <2>3, <2>4 DEF Operation
<1>10. CASE Undo
  <2>1. /\ pc = "reverse" /\ UNCHANGED <<mode, start, files, seen, toolOk, events, tried, failed>>
    BY <1>10 DEF Undo, request, parsed
  <2>2. sqls = <<>> /\ tried = 0 /\ failed = {} /\ preview = <<>> /\ events \in Seq(RowEvents)
        /\ events # <<>>
    BY <2>1 DEF Operation
  <2>3. CASE UNCHANGED <<sqls, preview>> /\ pc' = "failed"
    BY <1>2, <1>3, <2>1, <2>3 DEF Operation
  <2>4. CASE (\A i \in DOMAIN events : Reversible(events[i])) /\ sqls' = ReverseSQLBatch(events)
    <3>1. \A i \in 1..Len(events) : Reversible(events[i])
      BY <2>2, <2>4
    <3>2. sqls' \in Seq(Reversed) /\ Len(sqls') = Len(events)
      BY <2>2, <2>4, <3>1, ReversedAre
    <3>3. sqls' # <<>>
      BY <2>2, <3>2
    <3>4. Batches' \in Nat
      <4>1. Pieces(sqls') \in Nat
        BY <3>2, AllPieces
      <4> QED BY <4>1 DEF Batches, Pieces
    <3>5. /\ pc' \in {"execute", "done", "failed"} /\ preview' \in {<<>>, Preview(events, sqls')}
      BY <1>10, <2>2, <2>4 DEF Undo, Fail
    <3> QED BY <1>3, <2>1, <2>2, <2>4, <3>1, <3>3, <3>4, <3>5 DEF Operation
  <2> QED BY <1>10, <2>3, <2>4 DEF Undo, Fail
<1>11. CASE ExecuteBatch
  <2>1. /\ pc = "execute" /\ tried < Batches /\ tried' = tried + 1
        /\ (failed' = failed \/ failed' = failed \cup {tried'})
        /\ UNCHANGED <<pc, mode, files, seen, toolOk, events, sqls, preview>>
    BY <1>11 DEF ExecuteBatch, request, parsed
  <2>2. Batches \in Nat /\ tried \in 0..Batches /\ failed \subseteq 1..tried /\ sqls # <<>>
    BY <2>1, SqlsAre DEF Operation
  <2>3. tried' \in 0..Batches /\ failed' \subseteq 1..tried'
    <3>1. tried' \in 0..Batches /\ 1..tried \subseteq 1..tried' /\ tried' \in 1..tried'
      BY <2>1, <2>2
    <3> QED BY <2>1, <2>2, <3>1
  <2>4. Batches' = Batches /\ sqls' # <<>> /\ pc' = "execute"
    BY <1>2, <2>1, <2>2
  <2> HIDE DEF Batches
  <2>5. /\ mode' = mode /\ start' = start /\ files' = files /\ seen' = seen
        /\ events' = events /\ sqls' = sqls /\ preview' = preview
    BY <1>11, <2>1 DEF ExecuteBatch, request
  <2>6. /\ files' \subseteq 1..file' /\ seen' \in 0..Len(log') /\ events' \in Seq(RowEvents)
        /\ mode' \in {"none", "cli", "daemon"} /\ start' \in Nat
    BY <1>3, <2>5 DEF Operation
  <2>7. /\ sqls' = ReverseSQLBatch(events') /\ preview' \in {<<>>, Preview(events', sqls')}
        /\ \A i \in 1..Len(events') : Reversible(events'[i])
    BY <2>2, <2>5 DEF Operation
  <2> QED BY <2>3, <2>4, <2>6, <2>7 DEF Operation
<1>12. CASE FinishExecute
  BY <1>2, <1>3, <1>12 DEF Operation, FinishExecute, request, parsed, result
<1>13. CASE Kill
  BY <1>2, <1>3, <1>13 DEF Operation, Kill, Fail, request, parsed, result
<1>14. Statement \/ Truncate \/ Rotate \/ UNCHANGED vars
         => UNCHANGED <<pc, request, files, parsed, result>>
  BY DEF Statement, Truncate, Rotate, vars
<1> QED
  BY <1>4, <1>5, <1>6, <1>7, <1>8, <1>9, <1>10, <1>11, <1>12, <1>13, <1>14 DEF Next

-----------------------------------------------------------------------------
(* The row events of the window.                                            *)

\* What the window has of a log does not depend on what the log has later.
LEMMA WindowStays ==
  ASSUME NEW w, NEW l \in Seq(Entry), WholeStatements(l), NEW m, Extends(l, m), NEW n \in 0..Len(l)
  PROVE  EventsIn(w, m, n) = EventsIn(w, l, n) /\ (OneTable(w, m, n) <=> OneTable(w, l, n))
<1>1. Len(l) \in Nat /\ \A i \in 1..n : i \in 1..Len(l)
  OBVIOUS
<1>2. \A i \in 1..Len(l) : m[i] = l[i]
  BY DEF Extends
<1>3. \A i \in 1..n : m[i] = l[i]
  BY <1>1, <1>2
<1>4. EventsIn(w, m, n) = EventsIn(w, l, n)
  BY <1>3 DEF EventsIn
<1>5. ASSUME NEW i \in 1..n, ~l[i].ends PROVE m[i + 1] = l[i + 1]
  BY <1>1, <1>2, <1>5 DEF WholeStatements, GoesOn
<1>6. OneTable(w, m, n) <=> OneTable(w, l, n)
  BY <1>3, <1>5 DEF OneTable
<1> QED BY <1>4, <1>6

LEMMA FromTheWindowSteps ==
  ASSUME LogOK, Operation, FromTheWindow, [Next]_vars
  PROVE  FromTheWindow'
<1>1. LogGrows /\ log \in Seq(Entry) /\ WholeStatements(log) /\ seen \in 0..Len(log)
  BY LogSteps DEF LogOK, Recorded, Operation
<1>2. CASE UNCHANGED <<TheWindow, parsed>>
  <2>1. /\ EventsIn(TheWindow, log', seen) = EventsIn(TheWindow, log, seen)
        /\ (OneTable(TheWindow, log', seen) <=> OneTable(TheWindow, log, seen))
    BY <1>1, WindowStays DEF LogGrows
  <2>2. TheWindow' = TheWindow /\ seen' = seen /\ toolOk' = toolOk /\ events' = events
    BY <1>2 DEF parsed
  <2> HIDE DEF TheWindow
  <2> QED BY <2>1, <2>2 DEF FromTheWindow
<1>3. CASE events' = <<>>
  BY <1>3 DEF FromTheWindow
<1>4. CASE ParseText
  <2> DEFINE e == AllEvents(TheWindow, log)
             n == Len(log)
  <2>1. OneTable(TheWindow, log, n) => IF toolOk' THEN events' = e ELSE Cut(events', e)
    BY <1>4, ParseFinds
  <2>2. e = FlattenSeq(EventsIn(TheWindow, log, n))
    BY DEF AllEvents
  <2>3. TheWindow' = TheWindow /\ seen' = n /\ log' = log
    BY <1>4 DEF ParseText, TheWindow, request, server
  <2> HIDE DEF TheWindow, e, n
  <2> QED BY <2>1, <2>2, <2>3, Zenon DEF FromTheWindow
<1>5. CASE StartCLI \/ StartDaemon \/ ListFiles
  <2>1. pc \in {"idle", "list"} /\ events' = events
    BY <1>5 DEF StartCLI, StartDaemon, ListFiles, parsed
  <2> QED BY <1>3, <2>1 DEF Operation
<1>6. CASE ~(ParseText \/ StartCLI \/ StartDaemon \/ ListFiles)
  <2>1. UNCHANGED <<request, files, parsed>>
    <3>1. CASE Statement \/ Truncate \/ Rotate
      BY <3>1 DEF Statement, Truncate, Rotate
    <3>2. CASE Preflight \/ Undo
      BY <3>2 DEF Preflight, Undo
    <3>3. CASE ExecuteBatch \/ FinishExecute \/ Kill
      BY <3>3 DEF ExecuteBatch, FinishExecute, Kill
    <3>4. CASE UNCHANGED vars
      BY <3>4 DEF vars
    <3> QED BY <1>6, <3>1, <3>2, <3>3, <3>4 DEF Next
  <2> QED BY <1>2, <2>1 DEF TheWindow, request
<1> QED BY <1>4, <1>5, <1>6

-----------------------------------------------------------------------------
(* What the operation has done to the table.                                *)

\* An entry of the log stays the change it was.
LEMMA MadeBySqlStays ==
  ASSUME LogOK, LogGrows, NEW i \in 1..Len(log)
  PROVE  log'[i] = log[i] /\ past'[i] = past[i]
<1>1. i \in 1..Len(past)
  BY LogIs
<1> QED BY <1>1 DEF LogGrows, Extends

LEMMA MadeBySqlSteps ==
  ASSUME LogOK, Operation, MadeBySql, [Next]_vars
  PROVE  MadeBySql'
<1>1. LogGrows /\ Len(log) \in Nat /\ Len(log') \in Nat /\ Len(log) <= Len(log')
  BY LogSteps
<1>2. tried \in Nat
  BY SqlsAre DEF Operation
\* The entries there were.
<1>3. ASSUME NEW i \in 1..Len(log), log'[i].by = "undo"
      PROVE  /\ i > seen' /\ tried' > 0 /\ log'[i].kind = "rows"
             /\ \E j \in 1..Len(sqls') : Undoing(past'[i], sqls'[j], log'[i].change)
  <2>1. log'[i] = log[i] /\ past'[i] = past[i]
    BY <1>1, MadeBySqlStays
  <2>2. /\ i > seen /\ tried > 0 /\ log[i].kind = "rows"
        /\ \E j \in 1..Len(sqls) : Undoing(past[i], sqls[j], log[i].change)
    BY <1>3, <2>1 DEF MadeBySql
  <2>3. sqls' = sqls /\ seen' = seen /\ tried' > 0
    <3>1. sqls # <<>> /\ pc \in {"execute", "done", "failed"}
      BY <2>2 DEF Operation
    <3>2. CASE Statement \/ Truncate \/ Rotate
      BY <2>2, <3>2 DEF Statement, Truncate, Rotate, parsed, result
    <3>3. CASE ExecuteBatch
      <4>1. sqls' = sqls /\ seen' = seen /\ tried' = tried + 1
        BY <3>3 DEF ExecuteBatch, parsed
      <4> QED BY <1>2, <4>1
    <3>4. CASE FinishExecute \/ Kill
      BY <2>2, <3>4 DEF FinishExecute, Kill, parsed, result
    <3>5. CASE UNCHANGED vars
      BY <2>2, <3>5 DEF vars, parsed, result
    <3>6. ~(StartCLI \/ StartDaemon \/ Preflight \/ ListFiles \/ ParseText \/ Undo)
      BY <3>1 DEF StartCLI, StartDaemon, Preflight, ListFiles, ParseText, Undo
    <3> QED BY <3>2, <3>3, <3>4, <3>5, <3>6 DEF Next
  <2> QED BY <2>1, <2>2, <2>3
\* Those of the step.
<1>4. ASSUME NEW i \in Len(log) + 1..Len(log'), log'[i].by = "undo"
      PROVE  /\ i > seen' /\ tried' > 0 /\ log'[i].kind = "rows"
             /\ \E j \in 1..Len(sqls') : Undoing(past'[i], sqls'[j], log'[i].change)
  <2>1. ~Statement /\ ~Truncate
    BY <1>4, StatementWrites, TruncateWrites
  <2>2. ~UNCHANGED log
    BY <1>1
  <2>3. ExecuteBatch
    BY <2>1, <2>2 DEF Next, vars, server, Rotate, StartCLI, StartDaemon, Preflight, ListFiles,
                      ParseText, Undo, FinishExecute, Kill
  <2>4. /\ tried < Batches /\ tried' = tried + 1 /\ sqls' = sqls /\ seen' = seen
        /\ Commit(RunBatch(rows, Batch(tried + 1)).changes, "undo")
    BY <2>2, <2>3 DEF ExecuteBatch, parsed, server
  <2>5. /\ log'[i].kind = "rows"
        /\ \E j \in 1..Len(sqls) : Undoing(past'[i], sqls[j], log'[i].change)
    BY <2>4, BatchWrites
  <2>6. i > seen /\ tried + 1 > 0
    BY <1>1, <1>2 DEF Operation
  <2> QED BY <2>4, <2>5, <2>6
<1>5. \A i \in 1..Len(log') : i \in 1..Len(log) \/ i \in Len(log) + 1..Len(log')
  BY <1>1
<1> QED BY <1>3, <1>4, <1>5 DEF MadeBySql

\* A run of no statement, and of those of the first batches.
LEMMA RunNothing == ASSUME NEW table PROVE RunBatch(table, <<>>) = Fresh(table)
BY RunFolds, Running!FoldEmpty

LEMMA ReplayedSteps ==
  ASSUME LogOK, Operation, MadeBySql, Replayed, [Next]_vars
  PROVE  Replayed'
<1>1. /\ LogGrows /\ Len(log) \in Nat /\ Len(log') \in Nat /\ Len(log) <= Len(log')
      /\ past[Len(log) + 1] = rows /\ seen \in 0..Len(log)
      /\ Len(past) = Len(log) + 1
  BY LogSteps, LogIs DEF Operation
<1>2. sqls \in Seq(Reversed) /\ Batches = Pieces(sqls) /\ tried \in Nat
      /\ \A n : Batch(n) = Piece(sqls, n)
  BY SqlsAre DEF Operation
<1> SUFFICES ASSUME sqls' # <<>>, failed' = {}, \A i \in seen' + 1..Len(log') : log'[i].by = "undo"
             PROVE  LET t == RunBatch(past'[seen' + 1], SubSeq(sqls', 1, Upto(sqls', tried')))
                    IN Run(t) /\ t.ok = TRUE /\ t.table = rows'
  BY DEF Replayed
<1>3. CASE UNCHANGED <<rows, log, past, parsed, result>>
  BY <1>3 DEF Replayed, parsed, result
<1>4. CASE Undo
  <2> DEFINE p == past[seen + 1]
  <2>1. sqls = <<>> /\ tried = 0 /\ UNCHANGED <<log, past, rows, seen, tried>>
    BY <1>4 DEF Undo, Operation, parsed, server
  <2>2. ~\E i \in seen + 1..Len(log) : TRUE
    <3> SUFFICES ASSUME NEW i \in seen + 1..Len(log) PROVE FALSE
      OBVIOUS
    <3>1. log[i].by = "undo" /\ i \in 1..Len(log)
      BY <1>1, <2>1
    <3> QED BY <2>1, <3>1 DEF MadeBySql
  <2>3. seen = Len(log)
    <3>1. seen < Len(log) => Len(log) \in seen + 1..Len(log)
      BY <1>1
    <3> QED BY <1>1, <2>2, <3>1
  <2>4. p = rows
    BY <1>1, <2>3
  <2>5. SubSeq(sqls', 1, Upto(sqls', tried')) = <<>>
    <3>1. Operation' /\ (Operation' => sqls' \in Seq(Reversed))
      <4>1. Operation'
        BY OperationSteps
      <4>2. events' \in Seq(RowEvents) /\ \A i \in 1..Len(events') : Reversible(events'[i])
        BY <4>1 DEF Operation
      <4>3. sqls' = ReverseSQLBatch(events')
        BY <4>1 DEF Operation
      <4> QED BY <4>1, <4>2, <4>3, ReversedAre
    <3> QED BY <2>1, <3>1, AllPieces
  <2>6. /\ Run(Fresh(rows)) /\ Fresh(rows).ok = TRUE /\ Fresh(rows).table = rows
    BY FreshRuns DEF Fresh
  <2> QED BY <2>1, <2>4, <2>5, <2>6, RunNothing
<1>5. CASE ExecuteBatch /\ ~UNCHANGED <<rows, log, past, parsed, result>>
  <2> DEFINE p == past[seen + 1]
             u == SubSeq(sqls, 1, Upto(sqls, tried))
             v == Piece(sqls, tried + 1)
             r == RunBatch(p, u)
             t == RunBatch(rows, v)
  <2>1. tried < Batches /\ tried' = tried + 1 /\ UNCHANGED <<seen, sqls>>
    BY <1>5 DEF ExecuteBatch, parsed
  <2>2. failed' # failed \cup {tried'}
    OBVIOUS
  <2>3. RunBatch(rows, Batch(tried')) = t
    BY <1>2, <2>1
  <2> HIDE DEF t
  <2>4. t.ok /\ Commit(t.changes, "undo") /\ failed' = failed
    BY <1>5, <2>2, <2>3 DEF ExecuteBatch
  <2>5. Run(t) /\ rows' = t.table
    BY <1>2, <2>1, <2>4, BatchWrites DEF t
  <2>6. t.ok = TRUE
    BY <2>4
  <2>7. Run(r) /\ r.ok = TRUE /\ r.table = rows
    <3>1. \A i \in seen + 1..Len(log) : log[i].by = "undo"
      <4> SUFFICES ASSUME NEW i \in seen + 1..Len(log) PROVE log[i].by = "undo"
        OBVIOUS
      <4>1. i \in 1..Len(log) /\ i \in seen + 1..Len(log')
        BY <1>1
      <4>2. log'[i] = log[i]
        BY <1>1, <4>1, MadeBySqlStays
      <4> QED BY <2>1, <4>1, <4>2
    <3> QED BY <2>1, <2>4, <3>1 DEF Replayed
  <2>8. u \in Seq(Reversed) /\ v \in Seq(Reversed)
        /\ u \o v = SubSeq(sqls, 1, Upto(sqls, tried + 1))
    BY <1>2, <2>1, PieceIs
  <2>9. past'[seen + 1] = p
    <3>1. seen + 1 \in 1..Len(past)
      BY <1>1
    <3> QED BY <1>1, <3>1 DEF LogGrows, Extends
  <2> HIDE DEF p, u, v, r
  <2>10. Same(RunBatch(p, u \o v), RunBatch(r.table, v))
    BY <2>7, <2>8, RunConcat DEF r
  <2>11. Same(RunBatch(p, u \o v), t)
    BY <2>7, <2>10 DEF t
  <2> QED BY <2>1, <2>5, <2>6, <2>8, <2>9, <2>11 DEF Same
<1>6. ~Statement /\ ~Truncate
  <2> SUFFICES ASSUME Statement \/ Truncate PROVE FALSE
    OBVIOUS
  <2>1. /\ Len(log') > Len(log) /\ \A i \in Len(log) + 1..Len(log') : log'[i].by = "app"
        /\ seen' = seen
    BY StatementWrites, TruncateWrites DEF Statement, Truncate, parsed
  <2>2. Len(log') \in Len(log) + 1..Len(log') /\ Len(log') \in seen + 1..Len(log')
    BY <1>1, <2>1
  <2> QED BY <2>1, <2>2
<1>7. ~(StartCLI \/ StartDaemon \/ Preflight \/ ListFiles \/ ParseText)
  <2> SUFFICES ASSUME StartCLI \/ StartDaemon \/ Preflight \/ ListFiles \/ ParseText PROVE FALSE
    OBVIOUS
  <2>1. pc \in {"idle", "preflight", "list", "parse"} /\ sqls' = sqls
    BY DEF StartCLI, StartDaemon, Preflight, ListFiles, ParseText, result
  <2> QED BY <2>1 DEF Operation
<1>8. Rotate \/ FinishExecute \/ Kill \/ UNCHANGED vars
        => UNCHANGED <<rows, log, past, parsed, result>>
  BY DEF Rotate, FinishExecute, Kill, vars, server
<1> QED BY <1>3, <1>4, <1>5, <1>6, <1>7, <1>8 DEF Next

\* The invariant is one.
LEMMA FlashbackInvariant == Spec => []FlashbackInv
<1>1. Init => FlashbackInv
  BY InitFlashback
<1>2. FlashbackInv /\ [Next]_vars => FlashbackInv'
  <2> SUFFICES ASSUME FlashbackInv, [Next]_vars PROVE FlashbackInv'
    OBVIOUS
  <2>1. LogOK'
    BY LogSteps DEF FlashbackInv, LogGrows
  <2>2. Operation' /\ FromTheWindow' /\ MadeBySql' /\ Replayed'
    BY OperationSteps, FromTheWindowSteps, MadeBySqlSteps, ReplayedSteps DEF FlashbackInv
  <2> QED BY <2>1, <2>2 DEF FlashbackInv
<1> QED BY <1>1, <1>2, PTL DEF Spec

-----------------------------------------------------------------------------
(* The theorems.                                                            *)

\* The operation never leaves its states: the log is as long as the tables it goes
\* through, what was tried and what failed are batches that there are, and the preview
\* stays within its limit.
THEOREM FlashbackTypeCorrect == Spec => []FlashbackTypeOK
<1>1. FlashbackInv => FlashbackTypeOK
  <2> SUFFICES ASSUME LogOK, Operation PROVE FlashbackTypeOK
    BY DEF FlashbackInv
  <2>1. /\ rows \in [Keys -> Values \cup {Absent}] /\ Len(past) = Len(log) + 1 /\ Last(past) = rows
    BY LogIs DEF Table, Last
  <2>2. /\ sqls # <<>> => Len(sqls) = Len(events)
        /\ events \in Seq(RowEvents) /\ PreviewCap \in Nat
    BY SqlsAre, FlashbackAssumption DEF Operation
  <2>3. Len(preview) <= PreviewCap
    <3> DEFINE n == IF Len(sqls) > PreviewCap THEN PreviewCap ELSE Len(sqls)
    <3>1. CASE preview = <<>>
      BY <2>2, <3>1
    <3>2. CASE preview = Preview(events, sqls)
      <4>1. n \in Nat /\ n <= PreviewCap
        BY <2>2, SqlsAre
      <4>2. preview = [i \in 1..n |-> [sequence |-> i, sqlType |-> events[i].type,
                                       reverseSql |-> sqls[Len(sqls) + 1 - i]]]
        BY <3>2 DEF Preview
      <4> HIDE DEF n
      <4>3. Len(preview) = n
        BY <4>1, <4>2
      <4> QED BY <4>1, <4>3
    <3> QED BY <3>1, <3>2 DEF Operation
  <2> QED BY <2>1, <2>2, <2>3 DEF FlashbackTypeOK, Operation
<1> QED BY <1>1, FlashbackInvariant, PTL

\* Entry i of the preview is that of event i in every state, up to the limit of the
\* preview and no further (serve.go).
THEOREM PreviewAlwaysMirrors == Spec => []PreviewMirrors
<1>1. FlashbackInv => PreviewMirrors
  <2> SUFFICES ASSUME Operation, preview # <<>> PROVE PreviewMirrors
    BY DEF FlashbackInv, PreviewMirrors
  <2> DEFINE n == IF Len(events) > PreviewCap THEN PreviewCap ELSE Len(events)
  <2>1. /\ preview = Preview(events, sqls) /\ sqls = ReverseSQLBatch(events)
        /\ events \in Seq(RowEvents) /\ Len(sqls) = Len(events)
    BY SqlsAre DEF Operation
  <2>2. /\ DOMAIN preview = 1..n
        /\ \A i \in 1..n : /\ preview[i].sqlType = events[i].type
                           /\ preview[i].reverseSql = ReverseSQL(events[i])
    BY <2>1, PreviewIsMirrored
  <2>3. preview = [i \in 1..n |-> [sequence |-> i, sqlType |-> events[i].type,
                                   reverseSql |-> sqls[Len(sqls) + 1 - i]]]
    BY <2>1 DEF Preview
  <2>4. n \in Nat /\ n \in {PreviewCap, Len(events)}
    BY <2>1, FlashbackAssumption
  <2> HIDE DEF n
  <2>5. Len(preview) = n
    BY <2>3, <2>4
  <2> QED BY <2>2, <2>4, <2>5 DEF PreviewMirrors
<1> QED BY <1>1, FlashbackInvariant, PTL

\* The window, as the properties of the model name it.
LEMMA WindowIs ==
  /\ Expected = FlattenSeq(EventsIn(TheWindow, log, seen))
  /\ OneTablePerStatement <=> OneTable(TheWindow, log, seen)
  /\ \A e : /\ InWindow(e) <=> In(TheWindow, e)
            /\ Asked(e) <=> AskedIn(TheWindow, e)
<1>1. \A e : InWindow(e) <=> In(TheWindow, e)
  BY DEF InWindow, In, TheWindow
<1>2. \A e : Asked(e) <=> AskedIn(TheWindow, e)
  BY <1>1 DEF Asked, AskedIn
<1>3. OneTablePerStatement <=> OneTable(TheWindow, log, seen)
  BY <1>1 DEF OneTablePerStatement, OneTable
<1>4. Expected = FlattenSeq(EventsIn(TheWindow, log, seen))
  BY <1>2 DEF Expected, EventsIn
<1> QED BY <1>1, <1>2, <1>3, <1>4

\* The scan of the tool's text gives the row changes of the target in the window, with
\* their images and in their order, and a text that breaks off gives a beginning of them,
\* whatever the log (parseBinlogWithMySQLBinlog).
THEOREM EventsAreAlwaysTheWindow == Spec => []EventsAreTheWindow
<1>1. FlashbackInv => EventsAreTheWindow
  <2> SUFFICES ASSUME Operation, FromTheWindow, pc = "reverse", OneTablePerStatement
               PROVE  IF toolOk THEN events = Expected
                      ELSE /\ Len(events) <= Len(Expected)
                           /\ \A i \in 1..Len(events) - 1 : events[i] = Expected[i]
    BY DEF FlashbackInv, EventsAreTheWindow
  <2>1. events # <<>>
    BY DEF Operation
  <2>2. IF toolOk THEN events = Expected ELSE Cut(events, Expected)
    BY <2>1, WindowIs DEF FromTheWindow
  <2> QED BY <2>2 DEF Cut
<1> QED BY <1>1, FlashbackInvariant, PTL

\* A set of numbers that has, with a number, every one before it.
LEMMA DownSet ==
  ASSUME NEW n \in Nat, NEW S, S \subseteq 1..n, \A i, j \in 1..n : i <= j /\ j \in S => i \in S
  PROVE  Cardinality(S) \in 0..n /\ S = 1..Cardinality(S)
<1> DEFINE T == {m \in Nat : m <= n => \E b \in 0..m : S \cap (1..m) = 1..b}
<1>1. 0 \in T
  <2>1. 0 \in 0..0 /\ S \cap (1..0) = 1..0
    OBVIOUS
  <2> QED BY <2>1
<1>2. ASSUME NEW m \in Nat, m \in T PROVE m + 1 \in T
  <2> SUFFICES ASSUME m + 1 <= n PROVE \E b \in 0..m + 1 : S \cap (1..m + 1) = 1..b
    OBVIOUS
  <2>1. PICK b \in 0..m : S \cap (1..m) = 1..b
    BY <1>2
  <2>2. m + 1 \in 1..n /\ m + 1 \in 0..m + 1 /\ b \in 0..m + 1
    BY <2>1
  <2>3. CASE m + 1 \in S
    <3>1. S \cap (1..m + 1) = 1..m + 1
      BY <2>2, <2>3
    <3> QED BY <2>2, <3>1
  <2>4. CASE m + 1 \notin S
    <3>1. S \cap (1..m + 1) = S \cap (1..m)
      BY <2>4
    <3> QED BY <2>1, <2>2, <3>1
  <2> QED BY <2>3, <2>4
<1>3. Nat \subseteq T
  <2> HIDE DEF T
  <2> QED BY <1>1, <1>2, Running!SetInduction
<1>4. PICK b \in 0..n : S \cap (1..n) = 1..b
  <2>1. n \in T
    BY <1>3
  <2> QED BY <2>1
<1>5. S = 1..b
  BY <1>4
<1>6. Cardinality(1..b) = b
  <2>1. 1 \in Int /\ b \in Int
    OBVIOUS
  <2>2. Cardinality(1..b) = IF 1 > b THEN 0 ELSE b - 1 + 1
    BY <2>1, FS_Interval
  <2> QED BY <2>2
<1> QED BY <1>5, <1>6

\* The statement of one more event comes first.
LEMMA ReverseAppend ==
  ASSUME NEW S, NEW evs \in Seq(S), NEW e \in S
  PROVE  ReverseSQLBatch(Append(evs, e)) = <<ReverseSQL(e)>> \o ReverseSQLBatch(evs)
<1> DEFINE R == {ReverseSQL(x) : x \in S}
           n == Len(evs)
           m == n + 1
           u == Append(evs, e)
           a == ReverseSQLBatch(u)
           r == ReverseSQLBatch(evs)
           one == <<ReverseSQL(e)>>
<1>1. /\ n \in Nat /\ u \in Seq(S) /\ Len(u) = m /\ u[m] = e /\ \A i \in 1..n : u[i] = evs[i]
      /\ DOMAIN evs = 1..n /\ DOMAIN u = 1..m
      /\ \A i \in 1..n : evs[i] \in S
  OBVIOUS
<1>2. a = [i \in 1..m |-> ReverseSQL(u[m + 1 - i])]
  BY <1>1 DEF ReverseSQLBatch
<1>3. r = [i \in 1..n |-> ReverseSQL(evs[n + 1 - i])]
  BY <1>1 DEF ReverseSQLBatch
<1>4. one \in Seq(R) /\ Len(one) = 1 /\ one[1] = ReverseSQL(e)
  OBVIOUS
<1> HIDE DEF u, a, r, one, n
<1>5. ASSUME NEW i \in 1..m PROVE m + 1 - i \in 1..m /\ u[m + 1 - i] \in S
  <2>1. m + 1 - i \in 1..m
    BY <1>1
  <2> QED BY <1>1, <2>1
<1>6. a \in Seq(R) /\ Len(a) = m
  <2> HIDE DEF m
  <2>1. m \in Nat
    BY <1>1 DEF m
  <2>2. \A i \in 1..m : ReverseSQL(u[m + 1 - i]) \in R
    BY <1>5
  <2> HIDE DEF R
  <2> QED BY <1>2, <2>1, <2>2
<1>7. r \in Seq(R) /\ Len(r) = n
  <2>1. \A i \in 1..n : n + 1 - i \in 1..n
    BY <1>1
  <2>2. \A i \in 1..n : ReverseSQL(evs[n + 1 - i]) \in R
    BY <1>1, <2>1
  <2> HIDE DEF R
  <2> QED BY <1>1, <1>3, <2>2
<1> HIDE DEF R
<1>8. /\ one \o r \in Seq(R) /\ Len(one \o r) = 1 + n /\ (one \o r)[1] = ReverseSQL(e)
      /\ \A i \in 1..n : (one \o r)[1 + i] = r[i]
  <2>1. /\ one \o r \in Seq(R) /\ Len(one \o r) = Len(one) + Len(r) /\ Extends(one, one \o r)
        /\ \A i \in 1..Len(r) : (one \o r)[Len(one) + i] = r[i]
    <3>1. ASSUME NEW x \in Seq(R), NEW v \in Seq(R)
          PROVE  /\ x \o v \in Seq(R) /\ Len(x \o v) = Len(x) + Len(v) /\ Extends(x, x \o v)
                 /\ \A i \in 1..Len(v) : (x \o v)[Len(x) + i] = v[i]
      BY Joined
    <3> QED BY <1>4, <1>7, <3>1
  <2> QED BY <1>4, <1>7, <2>1 DEF Extends
<1>9. ASSUME NEW i \in 1..m PROVE a[i] = (one \o r)[i]
  <2>1. CASE i = 1
    <3>1. m + 1 - i = m
      BY <1>1, <2>1
    <3> QED BY <1>1, <1>2, <1>8, <2>1, <3>1
  <2>2. CASE i # 1
    <3> DEFINE j == i - 1
    <3>1. j \in 1..n /\ 1 + j = i /\ m + 1 - i = n + 1 - j /\ n + 1 - j \in 1..n
      BY <1>1, <2>2
    <3>2. a[i] = ReverseSQL(u[n + 1 - j])
      BY <1>2, <3>1
    <3>3. (one \o r)[i] = r[j]
      BY <1>8, <3>1
    <3>4. r[j] = ReverseSQL(evs[n + 1 - j])
      BY <1>3, <3>1
    <3> QED BY <1>1, <3>1, <3>2, <3>3, <3>4
  <2> QED BY <2>1, <2>2
<1>10. m = 1 + n
  BY <1>1
<1>11. a = one \o r
  <2> HIDE DEF m
  <2> QED BY <1>6, <1>8, <1>9, <1>10, SameSequence
<1> QED BY <1>11 DEF a, one, r, u

\* The reverse statement of an entry of the log.
LEMMA UndoesEntry ==
  ASSUME NEW table \in Table, NEW c, Makes(table, c), c.table = Target,
         TextNull \notin {c.key, c.before, c.after}
  PROVE  LET t == RunStatement(Fresh(Write(table, c)), ReverseSQL(AsEvent(c)))
         IN t.ok = TRUE /\ t.table = table
<1>1. PICK k \in Keys, w \in Cell : w # table[k] /\ c = Change(table, k, w)
  BY OtherRowIs DEF Makes
<1>2. c.key = k /\ c.before = table[k] /\ c.after = w
  BY <1>1, ChangeIs
<1>3. TextNull \notin {k, table[k], w} /\ w \in Values \cup {Absent}
  BY <1>2 DEF Cell
<1> DEFINE t == RunStatement(Fresh(Write(table, c)), ReverseSQL(AsEvent(c)))
<1>4. t.ok /\ t.table = table
  BY <1>1, <1>3, FlashbackAssumption, UndoesChange
<1> HIDE DEF t
<1> QED BY <1>4 DEF t

\* Undone from its end, the window leaves the table that was before it.
LEMMA UndoesWindow ==
  ASSUME LogOK, Operation, FromTheWindow, sqls # <<>>, Undoable
  PROVE  LET t == RunBatch(past[seen + 1], sqls)
         IN Run(t) /\ t.ok = TRUE /\ t.table = Before
<1> DEFINE w == TheWindow
           es == EventsIn(w, log, seen)
           late == {i \in 1..seen : log[i].ts < start}
           b == Cardinality(late)
<1>1. /\ seen \in Nat /\ seen \in 0..Len(log) /\ Len(log) \in Nat
      /\ \A i \in 1..seen : i \in 1..Len(log)
      /\ \A i \in 1..Len(log) : log[i] \in Entry
      /\ \A i \in 1..Len(log) + 1 : past[i] \in Table
      /\ \A i \in 1..Len(log) : log[i].kind = "rows" =>
           Makes(past[i], log[i].change) /\ past[i + 1] = Write(past[i], log[i].change)
  BY LogIs DEF Operation, LogOK, Recorded
<1>2. events \in Seq(RowEvents) /\ events # <<>> /\ sqls = ReverseSQLBatch(events)
  BY SqlsAre DEF Operation
<1>3. events = FlattenSeq(es)
  BY <1>2, WindowIs DEF FromTheWindow, Undoable
<1>4. es \in Seq(Seq(RowEvents)) /\ Len(es) = seen
      /\ \A i \in 1..seen :
           es[i] = IF AskedIn(w, log[i]) THEN <<AsEvent(log[i].change)>> ELSE <<>>
  BY <1>1, LogIsGood, EventsInAre
<1>8. start \in Nat /\ \A i \in 1..Len(log) : log[i].ts \in Nat
  BY <1>1 DEF Operation, Entry, RowsEntry, QueryEntry
<1>5. b \in 0..seen /\ late = 1..b
  <2>1. ASSUME NEW i \in 1..seen, NEW j \in 1..seen, i <= j, j \in late PROVE i \in late
    <3>1. log[i].ts <= log[j].ts /\ log[j].ts < start
      BY <1>1, <2>1 DEF LogOK, InOrder
    <3>2. log[i].ts < start
      BY <1>1, <1>8, <3>1
    <3> QED BY <3>2
  <2>2. late \subseteq 1..seen
    OBVIOUS
  <2> HIDE DEF late
  <2> QED BY <1>1, <2>1, <2>2, DownSet
<1>6. Before = past[b + 1]
  BY DEF Before
<1>7. /\ \A i \in 1..seen : i > b => In(w, log[i]) /\ log[i].kind = "rows"
      /\ \A i \in 1..seen : i <= b => ~AskedIn(w, log[i])
      /\ \A i \in 1..seen : AskedIn(w, log[i]) =>
           TextNull \notin {log[i].change.key, log[i].change.before, log[i].change.after}
  <2>1. \A i \in 1..seen : log[i].ts < start <=> i <= b
    <3>1. \A i \in 1..seen : i \in late <=> i \in 1..b
      BY <1>5
    <3> HIDE DEF b
    <3> QED BY <1>1, <1>5, <3>1
  <2> HIDE DEF b, late
  <2>2. ASSUME NEW i \in 1..seen, i > b PROVE In(w, log[i]) /\ log[i].kind = "rows"
    <3>1. log[i].ts >= start
      BY <1>1, <1>5, <1>8, <2>1, <2>2
    <3> QED BY <2>2, <3>1, WindowIs DEF Undoable
  <2>3. ASSUME NEW i \in 1..seen, i <= b PROVE ~AskedIn(w, log[i])
    <3>1. ~(log[i].ts >= w.start)
      BY <1>1, <1>8, <2>1, <2>3 DEF TheWindow
    <3> QED BY <3>1 DEF AskedIn, In
  <2>4. \A i \in 1..seen : AskedIn(w, log[i]) =>
          TextNull \notin {log[i].change.key, log[i].change.before, log[i].change.after}
    BY WindowIs DEF Undoable
  <2> QED BY <2>2, <2>3, <2>4
<1> HIDE DEF b, es, late, w
<1>9. PICK g : /\ Flattens(g, es) /\ events = g[seen]
               /\ \A i \in 0..seen : g[i] \in Seq(RowEvents)
  BY <1>3, <1>4, Flattening
<1> DEFINE run(k) == RunBatch(past[k + 1], ReverseSQLBatch(g[k]))
           good(k) == /\ k <= b => g[k] = <<>>
                      /\ b <= k => Run(run(k)) /\ run(k).ok = TRUE /\ run(k).table = past[b + 1]
           T == {k \in Nat : k <= seen => good(k)}
<1>10. ASSUME g[b] = <<>> PROVE Run(run(b)) /\ run(b).ok = TRUE /\ run(b).table = past[b + 1]
  <2>1. ReverseSQLBatch(g[b]) = <<>>
    BY <1>10 DEF ReverseSQLBatch
  <2>2. run(b) = Fresh(past[b + 1])
    BY <2>1, RunNothing
  <2> HIDE DEF run
  <2> QED BY <2>2, FreshRuns DEF Fresh
<1>11. 0 \in T
  <2>1. g[0] = <<>> /\ (b <= 0 => b = 0)
    BY <1>1, <1>5, <1>9 DEF Flattens
  <2> HIDE DEF run
  <2> QED BY <1>10, <2>1
<1> HIDE DEF run, good
<1>12. ASSUME NEW k \in Nat, k \in T PROVE k + 1 \in T
  <2> SUFFICES ASSUME k + 1 <= seen PROVE good(k + 1)
    OBVIOUS
  <2> DEFINE m == k + 1
             c == log[m].change
             s == ReverseSQL(AsEvent(c))
  <2>1. m \in 1..seen /\ m - 1 = k /\ k \in 0..seen /\ m \in 1..Len(log) /\ good(k)
        /\ k + 1 \in 1..Len(log) + 1 /\ m \in Nat
    BY <1>1, <1>12
  <2> HIDE DEF m
  <2>2. g[m] = g[k] \o (IF AskedIn(w, log[m]) THEN <<AsEvent(c)>> ELSE <<>>) /\ g[k] \in Seq(RowEvents)
    BY <1>4, <1>9, <2>1 DEF Flattens
  <2>3. CASE m <= b
    <3>1. g[m] = <<>>
      <4>1. k <= b
        BY <1>1, <1>5, <2>3 DEF m
      <4>2. g[k] = <<>> /\ ~AskedIn(w, log[m])
        BY <1>7, <2>1, <2>3, <4>1 DEF good
      <4>3. g[m] = <<>> \o <<>>
        BY <2>2, <4>2
      <4> QED BY <4>3
    <3>2. b <= m => b = m
      BY <1>5, <2>1, <2>3
    <3>3. good(m)
      BY <1>10, <3>1, <3>2 DEF good
    <3> QED BY <3>3 DEF m
  <2>4. CASE m > b
    <3>1. b <= k
      BY <1>1, <1>5, <2>1, <2>4 DEF m
    <3>2. Run(run(k)) /\ run(k).ok = TRUE /\ run(k).table = past[b + 1]
      BY <2>1, <3>1 DEF good
    <3>3. /\ In(w, log[m]) /\ log[m].kind = "rows"
          /\ Makes(past[m], c) /\ past[m + 1] = Write(past[m], c) /\ past[m] \in Table
      BY <1>1, <1>7, <2>1, <2>4 DEF m
    <3> HIDE DEF c
    <3>4. ASSUME Run(run(m)), run(m).ok = TRUE, run(m).table = past[b + 1] PROVE good(k + 1)
      <4>1. ~(m <= b)
        BY <1>5, <2>1, <2>4
      <4>2. good(m)
        BY <3>4, <4>1 DEF good
      <4> QED BY <4>2 DEF m
    <3>5. CASE c.table = Target
      <4> DEFINE v == ReverseSQLBatch(g[k])
      <4>1. AskedIn(w, log[m]) /\ TextNull \notin {c.key, c.before, c.after}
        BY <1>7, <2>1, <3>3, <3>5 DEF AskedIn, c
      <4>2. AsEvent(c) \in RowEvents
        BY <3>3, MakesSound, AsEventIs
      <4>3. g[m] = Append(g[k], AsEvent(c))
        BY <2>2, <4>1, <4>2, AppendOne
      <4>4. ReverseSQLBatch(g[m]) = <<s>> \o v
        BY <2>2, <4>2, <4>3, ReverseAppend
      <4>5. /\ RunStatement(Fresh(past[m + 1]), s).ok = TRUE
            /\ RunStatement(Fresh(past[m + 1]), s).table = past[m]
        BY <3>3, <3>5, <4>1, UndoesEntry
      <4> DEFINE S == {s} \cup {v[i] : i \in DOMAIN v}
      <4>6. s \in S /\ v \in Seq(S)
        <5>1. Len(v) \in Nat /\ DOMAIN v = 1..Len(v)
          BY <2>2, NewestFirst
        <5>2. v = [i \in DOMAIN g[k] |-> ReverseSQL(g[k][Len(g[k]) + 1 - i])]
          BY DEF ReverseSQLBatch
        <5> HIDE DEF v
        <5>3. v = [i \in 1..Len(v) |-> v[i]]
          BY <5>1, <5>2
        <5> QED BY <5>1, <5>3
      <4> HIDE DEF S, s, v
      <4>7. Same(RunBatch(past[m + 1], <<s>> \o v),
                 RunBatch(RunStatement(Fresh(past[m + 1]), s).table, v))
        BY <4>5, <4>6, RunCons
      <4>8. RunBatch(past[m], v) = run(k)
        BY DEF v, m, run
      <4>9. run(m) = RunBatch(past[m + 1], <<s>> \o v)
        BY <4>4 DEF run
      <4> QED BY <3>2, <3>4, <4>5, <4>7, <4>8, <4>9 DEF Same
    <3>6. CASE c.table # Target
      <4>1. g[m] = g[k]
        <5> DEFINE x == g[k]
        <5>1. x \in Seq(RowEvents)
          BY <2>2
        <5> HIDE DEF x
        <5>2. x \o <<>> = x
          BY <5>1
        <5>3. g[m] = x \o <<>>
          BY <2>2, <3>6 DEF AskedIn, c, x
        <5> QED BY <5>2, <5>3 DEF x
      <4>2. past[m + 1] = past[k + 1]
        BY <3>3, <3>6 DEF Write, m
      <4>3. run(m) = run(k)
        BY <4>1, <4>2 DEF run
      <4> QED BY <3>2, <3>4, <4>3
    <3> QED BY <3>5, <3>6
  <2>5. m <= b \/ m > b
    BY <1>5, <2>1
  <2> QED BY <2>3, <2>4, <2>5
<1>13. good(seen)
  <2> HIDE DEF T
  <2>1. seen \in T
    BY <1>1, <1>11, <1>12, Running!SetInduction
  <2> QED BY <1>1, <2>1 DEF T
<1>14. run(seen) = RunBatch(past[seen + 1], sqls)
  BY <1>2, <1>9 DEF run
<1> QED BY <1>5, <1>6, <1>13, <1>14 DEF good

\* Whatever the window and the log, the reverse SQL applied where the tool stopped
\* reading gives the table before the window, and no statement of it fails (reverse.go).
THEOREM AlwaysUndoes == Spec => []Undoes
<1>1. FlashbackInv => Undoes
  <2> SUFFICES ASSUME LogOK, Operation, FromTheWindow, sqls # <<>>, Undoable
               PROVE  LET t == RunBatch(past[seen + 1], sqls) IN t.ok /\ t.table = Before
    BY DEF FlashbackInv, Undoes
  <2> DEFINE t == RunBatch(past[seen + 1], sqls)
  <2>1. t.ok = TRUE /\ t.table = Before
    BY UndoesWindow
  <2> HIDE DEF t
  <2>2. t.ok /\ t.table = Before
    BY <2>1
  <2> QED BY <2>2 DEF t
<1> QED BY <1>1, FlashbackInvariant, PTL

\* However the statements are cut into batches: a command line that ends without a failed
\* batch, over a table left alone, has put the table back (ExecuteRollback).
THEOREM AlwaysRestored == Spec => []Restored
<1>1. FlashbackInv => Restored
  <2> SUFFICES ASSUME LogOK, Operation, FromTheWindow, Replayed, pc = "done", tried > 0,
                      failed = {}, Undoable, \A i \in seen + 1..Len(log) : log[i].by = "undo"
               PROVE  rows = Before
    BY DEF FlashbackInv, Restored
  <2>1. tried = Batches /\ sqls # <<>>
    BY DEF Operation
  <2>2. SubSeq(sqls, 1, Upto(sqls, tried)) = sqls
    BY <2>1, SqlsAre, AllPieces
  <2>3. RunBatch(past[seen + 1], sqls).table = rows
    BY <2>1, <2>2 DEF Replayed
  <2>4. RunBatch(past[seen + 1], sqls).table = Before
    BY <2>1, UndoesWindow
  <2> QED BY <2>3, <2>4
<1> QED BY <1>1, FlashbackInvariant, PTL

\* A statement of the reverse SQL that changes a row there is found it by what some event
\* had made of it.
LEMMA FindsAfterImage ==
  ASSUME NEW e \in RowEvents, Reversible(e), e.after # NoImage => Len(e.after) = 2,
         NEW table \in Table, NEW c, Undoing(table, ReverseSQL(e), c), table[c.key] # Absent
  PROVE  e.after = <<c.key, table[c.key]>>
<1> DEFINE s == ReverseSQL(e)
<1>1. PICK k \in Found(table, s) : c = Change(table, k, Written(s))
  BY DEF Undoing
<1>2. StatementOk(table, s) /\ c.key = k
  BY <1>1 DEF Undoing, Change
<1>3. e.type \in Types /\ e.after \in Seq(Columns) \cup {NoImage}
  BY DEF RowEvents
<1>4. e.type # "DELETE"
  <2> SUFFICES ASSUME e.type = "DELETE" PROVE FALSE
    OBVIOUS
  <2>1. s.op = "INSERT"
    BY DEF ReverseSQL
  <2> HIDE DEF s
  <2>2. table[k] = Absent
    BY <1>1, <1>2, <2>1 DEF StatementOk
  <2> QED BY <1>2, <2>2
<1>5. s.op # "INSERT" /\ s.where = e.after /\ e.after # NoImage
  BY <1>3, <1>4 DEF ReverseSQL, Reversible, Types
<1> HIDE DEF s
<1>6. Matches(table, e.after, k)
  BY <1>1, <1>5 DEF Found
<1> DEFINE v == e.after
<1>7. v \in Seq(Columns) /\ Len(v) = 2 /\ v[1] = k /\ v[2] = table[k]
  BY <1>3, <1>5, <1>6 DEF Matches
<1> HIDE DEF v
<1>8. v = <<k, table[k]>>
  BY <1>7
<1> QED BY <1>2, <1>8 DEF v

\* The images of the window's events have two columns.
TwoColumned == {e \in RowEvents : e.after # NoImage => Len(e.after) = 2}

LEMMA TwoColumns ==
  ASSUME NEW w, NEW l, GoodLog(l), NEW n \in 0..Len(l)
  PROVE  FlattenSeq(EventsIn(w, l, n)) \in Seq(TwoColumned)
<1> DEFINE S == TwoColumned
           es == EventsIn(w, l, n)
<1>1. /\ es \in Seq(Seq(RowEvents)) /\ Len(es) = n /\ n \in Nat
      /\ \A i \in 1..n : es[i] = IF AskedIn(w, l[i]) THEN <<AsEvent(l[i].change)>> ELSE <<>>
      /\ \A i \in 1..n : l[i].kind = "rows" => SoundChange(l[i].change)
  <2>1. Len(l) \in Nat /\ \A i \in 1..n : i \in 1..Len(l)
    BY DEF GoodLog
  <2>2. n \in Nat /\ \A i \in 1..n : l[i].kind = "rows" => SoundChange(l[i].change)
    BY <2>1 DEF GoodLog
  <2> HIDE DEF es
  <2> QED BY <2>2, EventsInAre DEF es
<1>2. ASSUME NEW i \in 1..n PROVE es[i] \in Seq(S)
  <2> DEFINE c == l[i].change
  <2>1. CASE AskedIn(w, l[i])
    <3>1. AsEvent(c) \in RowEvents
      BY <1>1, <2>1, AsEventIs DEF AskedIn
    <3>2. AsEvent(c).after # NoImage => Len(AsEvent(c).after) = 2
      <4>1. ASSUME NEW x, NEW y PROVE Len(<<x, y>>) = 2
        OBVIOUS
      <4>2. AsEvent(c).after = IF c.after = Absent THEN NoImage
                               ELSE <<ParseColumnValue(c.key), ParseColumnValue(c.after)>>
        BY DEF AsEvent, RowEvent
      <4> QED BY <4>1, <4>2
    <3> DEFINE x == AsEvent(c)
    <3>3. x \in S
      BY <3>1, <3>2 DEF TwoColumned
    <3> HIDE DEF x, S
    <3>4. <<x>> \in Seq(S)
      BY <3>3
    <3> QED BY <1>1, <2>1, <3>4 DEF x
  <2>2. CASE ~AskedIn(w, l[i])
    <3>1. es[i] = <<>>
      BY <1>1, <2>2
    <3> HIDE DEF S
    <3> QED BY <3>1
  <2> QED BY <2>1, <2>2
<1> HIDE DEF es, S
<1>3. es \in Seq(Seq(S))
  <2> DEFINE Q == Seq(S)
  <2>1. \A i \in 1..n : es[i] \in Q
    BY <1>2
  <2>2. DOMAIN es = 1..n /\ es = [i \in DOMAIN es |-> es[i]]
    BY <1>1
  <2> HIDE DEF Q
  <2>3. es \in Seq(Q)
    BY <1>1, <2>1, <2>2
  <2> QED BY <2>3 DEF Q
<1>4. PICK g : FlattenSeq(es) = g[n] /\ \A i \in 0..n : g[i] \in Seq(S)
  BY <1>1, <1>3, Flattening
<1> QED BY <1>1, <1>4 DEF es, S

\* A row that the application has written after the tool read the log.
LaterChange(i) ==
  LET c == log[i].change IN
  /\ i \in seen + 1..Len(log)
  /\ log[i].by = "app" /\ log[i].kind = "rows" /\ c.table = Target /\ c.after # Absent
  /\ \A j \in DOMAIN events : events[j].after # <<c.key, c.after>>

\* A change of that row.
Overwrites(n, k) == log[n].by = "app" /\ (log[n].kind = "rows" => log[n].change.key = k)

LEMMA ChangeSurvives ==
  ASSUME LogOK, Operation, FromTheWindow, MadeBySql, toolOk, OneTablePerStatement,
         NEW i \in Nat, LaterChange(i), NEW j \in i + 1..Len(log),
         log[j].by = "undo", log[j].change.key = log[i].change.key,
         \A n \in i + 1..j - 1 : ~Overwrites(n, log[i].change.key)
  PROVE  FALSE
<1> DEFINE c == log[i].change
           k == c.key
           T == {n \in Nat : i + 1 <= n /\ n <= j => past[n][k] = c.after}
<1>1. /\ seen \in Nat /\ seen \in 0..Len(log) /\ Len(log) \in Nat
      /\ \A n \in 1..Len(log) : log[n] \in Entry
      /\ \A n \in 1..Len(log) + 1 : past[n] \in Table
      /\ \A n \in 1..Len(log) : log[n].kind = "rows" =>
           Makes(past[n], log[n].change) /\ past[n + 1] = Write(past[n], log[n].change)
  BY LogIs DEF Operation, LogOK, Recorded
<1>2. /\ i \in 1..Len(log) /\ j \in 1..Len(log) /\ j \in Nat
      /\ log[i].kind = "rows" /\ c.table = Target /\ c.after # Absent
      /\ \A x \in DOMAIN events : events[x].after # <<k, c.after>>
  <2>1. i \in seen + 1..Len(log)
    BY DEF LaterChange
  <2>2. i \in 1..Len(log) /\ j \in 1..Len(log) /\ j \in Nat
    BY <1>1, <2>1
  <2> QED BY <2>2 DEF LaterChange
<1>3. /\ k \in Keys /\ past[i + 1][k] = c.after
  <2>1. /\ Makes(past[i], c) /\ past[i + 1] = Write(past[i], c) /\ past[i] \in Table
    BY <1>1, <1>2
  <2>2. PICK x \in Keys, v \in Cell : c = Change(past[i], x, v)
    BY <1>2, <2>1, OtherRowIs DEF Makes
  <2>3. x = k /\ v = c.after /\ Write(past[i], c) = [past[i] EXCEPT ![x] = v]
    BY <2>1, <2>2, ChangeIs
  <2> QED BY <2>1, <2>2, <2>3 DEF Table
<1>4. /\ events \in Seq(TwoColumned)
      /\ DOMAIN events = 1..Len(events)
  <2>1. events = <<>> \/ events = FlattenSeq(EventsIn(TheWindow, log, seen))
    BY WindowIs DEF FromTheWindow
  <2>2. FlattenSeq(EventsIn(TheWindow, log, seen)) \in Seq(TwoColumned)
    BY <1>1, LogIsGood, TwoColumns
  <2>3. events \in Seq(TwoColumned)
    <3>1. <<>> \in Seq(TwoColumned)
      OBVIOUS
    <3> QED BY <2>1, <2>2, <3>1, Zenon
  <2>4. DOMAIN events = 1..Len(events)
    BY DEF Operation
  <2> QED BY <2>3, <2>4
<1> HIDE DEF c, k
\* No statement finds the row while it is what the application made it.
<1>5. ASSUME NEW n \in 1..Len(log), past[n][k] = c.after, log[n].by = "undo"
      PROVE  log[n].kind = "rows" /\ log[n].change.key # k
  <2>1. PICK x \in 1..Len(sqls) : Undoing(past[n], sqls[x], log[n].change)
    BY <1>5 DEF MadeBySql
  <2>2. log[n].kind = "rows" /\ sqls # <<>>
    BY <1>5 DEF MadeBySql, Operation
  <2>3. /\ sqls = ReverseSQLBatch(events) /\ Len(sqls) = Len(events)
        /\ \A y \in 1..Len(events) : Reversible(events[y])
    BY <2>2, SqlsAre DEF Operation
  <2>4. PICK y \in 1..Len(events) : sqls[x] = ReverseSQL(events[y])
    BY <2>1, <2>3, ReversedAre DEF Operation
  <2>5. events[y] \in RowEvents /\ Reversible(events[y])
        /\ (events[y].after # NoImage => Len(events[y].after) = 2)
    <3>1. events[y] \in TwoColumned
      BY <1>4, <2>4
    <3> QED BY <2>3, <2>4, <3>1 DEF TwoColumned
  <2> SUFFICES ASSUME log[n].change.key = k PROVE FALSE
    BY <2>2
  <2>6. past[n] \in Table /\ past[n][k] # Absent
    BY <1>1, <1>2, <1>5 DEF c
  <2>7. events[y].after = <<k, c.after>>
    BY <1>5, <2>1, <2>4, <2>5, <2>6, FindsAfterImage
  <2> QED BY <1>2, <1>4, <2>4, <2>7 DEF c, k
<1>6. 0 \in T
  BY <1>2
<1>7. ASSUME NEW n \in Nat, n \in T PROVE n + 1 \in T
  <2> SUFFICES ASSUME i + 1 <= n + 1, n + 1 <= j PROVE past[n + 1][k] = c.after
    OBVIOUS
  <2>1. CASE n = i
    BY <1>3, <2>1
  <2>2. CASE n # i
    <3>1. n \in i + 1..j - 1 /\ n \in 1..Len(log) /\ past[n][k] = c.after
      BY <1>1, <1>2, <1>7, <2>2
    <3>2. ~Overwrites(n, k) /\ log[n].by \in {"app", "undo"}
      BY <1>1, <3>1 DEF k, c, Entry, RowsEntry, QueryEntry
    <3>3. log[n].kind = "rows" /\ log[n].change.key # k
      BY <1>5, <3>1, <3>2 DEF Overwrites
    <3>4. past[n + 1] = Write(past[n], log[n].change) /\ past[n] \in Table
      BY <1>1, <3>1, <3>3
    <3>5. ASSUME NEW table \in Table, NEW d, d.key # k PROVE Write(table, d)[k] = table[k]
      BY <1>3, <3>5 DEF Write, Table
    <3> QED BY <3>1, <3>3, <3>4, <3>5
  <2> QED BY <2>1, <2>2
<1>8. past[j][k] = c.after
  <2>1. i + 1 <= j /\ j <= j
    BY <1>2
  <2> HIDE DEF T
  <2>2. j \in T
    BY <1>2, <1>6, <1>7, Running!SetInduction
  <2> QED BY <2>1, <2>2 DEF T
<1> QED BY <1>2, <1>5, <1>8 DEF k, c

\* No batch of the reverse SQL takes back what the application has written to a row after
\* the tool read the log, whatever the order of their steps (the WHERE clauses of
\* reverse.go).
THEOREM LaterChangesAlwaysSurvive == Spec => []LaterChangesSurvive
<1>1. FlashbackInv => LaterChangesSurvive
  <2> SUFFICES ASSUME LogOK, Operation, FromTheWindow, MadeBySql, toolOk, OneTablePerStatement,
                      NEW i \in seen + 1..Len(log), LaterChange(i),
                      NEW j \in i + 1..Len(log), log[j].by = "undo",
                      log[j].change.key = log[i].change.key
               PROVE  \E n \in i + 1..j - 1 : Overwrites(n, log[i].change.key)
    BY DEF FlashbackInv, LaterChangesSurvive, LaterChange, Overwrites
  <2>1. i \in Nat
    BY DEF Operation
  <2> QED BY <2>1, ChangeSurvives
<1> QED BY <1>1, FlashbackInvariant, PTL

-----------------------------------------------------------------------------
(* The same log through the parser in Go.                                   *)

Parser  == INSTANCE SequenceFolds WITH Op <- ParseEvent
PerFile == INSTANCE SequenceFolds WITH Op <- ParseNext

\* The events a file can hold, the rows the parser makes of them, and what it is asked for.
Pairs        == (Keys \cup {Null}) \X Cell
BinlogEvents == [kind : {"format", "tableMap", "rows", "query"}, ts : Nat, table : Tables,
                 type : Types, before : Pairs, after : Pairs]
LibraryRows  == [type : Types, before : Pairs \cup {NoImage}, after : Pairs \cup {NoImage}]
Options      == [start : Nat, end : Nat]

Readings == [opts : Options, mapped : SUBSET Tables, events : Seq(LibraryRows), ddl : Seq(Nat),
             stopped : BOOLEAN]

LEMMA Associates ==
  ASSUME NEW S, NEW u \in Seq(S), NEW v \in Seq(S), NEW w \in Seq(S)
  PROVE  (u \o v) \o w = u \o (v \o w)
OBVIOUS

LEMMA ConcatIs ==
  ASSUME NEW S, NEW u \in Seq(S), NEW v \in Seq(S), NEW w \in Seq(S), NEW none, none = <<>>
  PROVE  /\ u \o none = u /\ none \o u = u /\ none \in Seq(S)
         /\ (u \o v) \o w = u \o (v \o w)
         /\ u \o v \in Seq(S)
<1>1. u \o none = u /\ none \o u = u /\ none \in Seq(S) /\ u \o v \in Seq(S)
  OBVIOUS
<1>2. (u \o v) \o w = u \o (v \o w)
  OBVIOUS
<1> QED BY <1>1, <1>2

\* What one event adds, if anything, comes after what was read.
LEMMA EventParsed ==
  ASSUME NEW s \in Readings, NEW e \in BinlogEvents
  PROVE  LET r == ParseEvent(s, e) IN
         r \in Readings /\ r.opts = s.opts /\ Extends(s.events, r.events)
<1> DEFINE r == ParseEvent(s, e)
           Good == r \in Readings /\ r.opts = s.opts /\ Extends(s.events, r.events)
<1>1. \/ r = s \/ r = [s EXCEPT !.stopped = TRUE] \/ r = [s EXCEPT !.mapped = @ \cup {e.table}]
      \/ r = [s EXCEPT !.ddl = Append(@, e.ts)] \/ r = Convert(s, e)
  <2>1. ParseEvent(s, e) \in {s, [s EXCEPT !.stopped = TRUE], Dispatch(s, e)}
    BY DEF ParseEvent
  <2>2. Dispatch(s, e) \in {s, [s EXCEPT !.mapped = @ \cup {e.table}],
                            [s EXCEPT !.ddl = Append(@, e.ts)], Convert(s, e)}
    BY DEF Dispatch, BinlogEvents
  <2> QED BY <2>1, <2>2
<1> HIDE DEF r
<1>2. s.events \in Seq(LibraryRows) /\ Extends(s.events, s.events)
  BY DEF Readings, Extends
<1>3. ASSUME r = s PROVE Good
  BY <1>2, <1>3
<1>4. ASSUME r = [s EXCEPT !.stopped = TRUE] PROVE Good
  <2>1. r \in Readings /\ r.opts = s.opts /\ r.events = s.events
    BY <1>4 DEF Readings
  <2> QED BY <1>2, <2>1
<1>5. ASSUME r = [s EXCEPT !.mapped = @ \cup {e.table}] PROVE Good
  <2>1. e.table \in Tables
    BY DEF BinlogEvents
  <2>2. r \in Readings /\ r.opts = s.opts /\ r.events = s.events
    BY <1>5, <2>1 DEF Readings
  <2> QED BY <1>2, <2>2
<1>6. ASSUME r = [s EXCEPT !.ddl = Append(@, e.ts)] PROVE Good
  <2>1. e.ts \in Nat
    BY DEF BinlogEvents
  <2>2. Append(s.ddl, e.ts) \in Seq(Nat)
    BY <2>1 DEF Readings
  <2>3. r \in Readings /\ r.opts = s.opts /\ r.events = s.events
    BY <1>6, <2>2 DEF Readings
  <2> QED BY <1>2, <2>3
<1>7. ASSUME r = Convert(s, e), r # s PROVE Good
  <2> DEFINE d == RowData(e.type, e.before, e.after)
             x == RowEvent(e.type, d.before, d.after)
  <2>1. r = [s EXCEPT !.events = Append(@, x)]
    BY <1>7 DEF Convert
  <2>2. x \in LibraryRows
    BY DEF RowData, RowEvent, LibraryRows, BinlogEvents
  <2> HIDE DEF x
  <2>3. r \in Readings /\ r.opts = s.opts /\ r.events = Append(s.events, x)
    <3>1. Append(s.events, x) \in Seq(LibraryRows)
      BY <1>2, <2>2
    <3> QED BY <2>1, <3>1 DEF Readings
  <2>4. Extends(s.events, Append(s.events, x))
    BY <1>2, <2>2 DEF Extends
  <2> QED BY <2>3, <2>4
<1>8. Good
  BY <1>1, <1>3, <1>4, <1>5, <1>6, <1>7
<1> QED BY <1>8 DEF r

\* The same for events in a row: what is read first is not lost.
LEMMA PartParsed ==
  ASSUME NEW s \in Readings, NEW u \in Seq(BinlogEvents)
  PROVE  LET r == Parser!Fold(s, u) IN
         r \in Readings /\ r.opts = s.opts /\ Extends(s.events, r.events)
<1> DEFINE r(k) == Parser!Fold(s, SubSeq(u, 1, k))
           Good(x) == x \in Readings /\ x.opts = s.opts /\ Extends(s.events, x.events)
           T == {k \in Nat : k <= Len(u) => Good(r(k))}
<1>1. r(0) = s /\ \A k \in Nat : k + 1 <= Len(u) => r(k + 1) = ParseEvent(r(k), u[k + 1])
  <2>1. 1 \in Nat \ {0} /\ 1 - 1 = 0 /\ \A k \in Nat : 1 <= k + 1
    OBVIOUS
  <2>2. /\ Parser!Fold(s, SubSeq(u, 1, 1 - 1)) = s
        /\ \A k \in Nat : 1 <= k + 1 /\ k + 1 <= Len(u) =>
             Parser!Fold(s, SubSeq(u, 1, k + 1)) = ParseEvent(Parser!Fold(s, SubSeq(u, 1, k)), u[k + 1])
    BY <2>1, Parser!FoldPart
  <2> QED BY <2>1, <2>2
<1> HIDE DEF r
<1>2. 0 \in T
  <2>1. Extends(s.events, s.events)
    BY DEF Extends, Readings
  <2> QED BY <1>1, <2>1
<1>3. ASSUME NEW k \in Nat, k \in T PROVE k + 1 \in T
  <2> SUFFICES ASSUME k + 1 <= Len(u) PROVE Good(r(k + 1))
    OBVIOUS
  <2>1. Good(r(k)) /\ u[k + 1] \in BinlogEvents
    BY <1>3
  <2>2. r(k + 1) = ParseEvent(r(k), u[k + 1])
    BY <1>1
  <2> DEFINE x == r(k)
             y == ParseEvent(x, u[k + 1])
  <2>3. y \in Readings /\ y.opts = x.opts /\ Extends(x.events, y.events)
    BY <2>1, EventParsed
  <2> HIDE DEF y
  <2>4. Extends(s.events, y.events)
    <3>1. /\ s.events \in Seq(LibraryRows) /\ x.events \in Seq(LibraryRows)
          /\ y.events \in Seq(LibraryRows)
      BY <2>1, <2>3 DEF Readings
    <3>2. Extends(s.events, x.events)
      BY <2>1
    <3> QED BY <2>3, <3>1, <3>2 DEF Extends
  <2> QED BY <2>1, <2>2, <2>3, <2>4 DEF y
<1>4. Len(u) \in T
  <2> HIDE DEF T
  <2>1. Len(u) \in Nat
    OBVIOUS
  <2> QED BY <1>2, <1>3, <2>1, Parser!SetInduction
<1>5. Good(r(Len(u))) /\ SubSeq(u, 1, Len(u)) = u
  BY <1>4
<1> QED BY <1>5 DEF r

LEMMA EntryEventsAre ==
  ASSUME NEW e \in Entry
  PROVE  /\ EntryEvents(e) \in Seq(BinlogEvents)
         /\ e.kind = "query" => /\ EntryEvents(e) = <<BinlogEvent("query", e.ts, OtherRow)>>
                                /\ BinlogEvent("query", e.ts, OtherRow) \in BinlogEvents
         /\ e.kind # "query" =>
              /\ EntryEvents(e) = <<BinlogEvent("tableMap", e.ts, e.change), BinlogEvent("rows", e.ts, e.change)>>
              /\ BinlogEvent("tableMap", e.ts, e.change) \in BinlogEvents
              /\ BinlogEvent("rows", e.ts, e.change) \in BinlogEvents
<1>1. ASSUME NEW kind \in {"tableMap", "rows", "query"}, NEW ts \in Nat, NEW c \in RowChanges
      PROVE  BinlogEvent(kind, ts, c) \in BinlogEvents
  BY DEF BinlogEvent, BinlogEvents, RowChanges, Pairs
<1>2. e.ts \in Nat /\ OtherRow \in RowChanges
  BY OtherRowIs DEF Entry, RowsEntry, QueryEntry
<1>3. CASE e.kind = "query"
  <2> DEFINE x == BinlogEvent("query", e.ts, OtherRow)
  <2>1. x \in BinlogEvents
    BY <1>1, <1>2
  <2>2. EntryEvents(e) = <<x>>
    BY <1>3 DEF EntryEvents
  <2> HIDE DEF x
  <2>3. <<x>> \in Seq(BinlogEvents)
    BY <2>1
  <2> QED BY <1>3, <2>1, <2>2, <2>3 DEF x
<1>4. CASE e.kind # "query"
  <2> DEFINE x == BinlogEvent("tableMap", e.ts, e.change)
             y == BinlogEvent("rows", e.ts, e.change)
  <2>1. e.change \in RowChanges
    BY <1>4 DEF Entry, RowsEntry, QueryEntry
  <2>2. x \in BinlogEvents /\ y \in BinlogEvents
    BY <1>1, <1>2, <2>1
  <2>3. EntryEvents(e) = <<x, y>>
    BY <1>4 DEF EntryEvents
  <2> HIDE DEF x, y
  <2>4. <<x, y>> \in Seq(BinlogEvents)
    BY <2>2
  <2> QED BY <1>4, <2>2, <2>3, <2>4 DEF x, y
<1> QED BY <1>3, <1>4

\* What the parser makes of an entry: its row, if that is sought.
Row(opts, e) == IF Sought(e, opts) THEN <<LibraryEvent(e.change)>> ELSE <<>>

LEMMA RowIs ==
  ASSUME NEW w \in Options, NEW e \in Entry
  PROVE  /\ Row(w, e) \in Seq(LibraryRows)
         /\ Sought(e, w) => LibraryEvent(e.change) \in LibraryRows
<1>1. ASSUME Sought(e, w) PROVE LibraryEvent(e.change) \in LibraryRows
  <2>1. e.change \in RowChanges
    BY <1>1 DEF Sought, Entry, RowsEntry, QueryEntry
  <2> QED BY <2>1 DEF LibraryEvent, LibraryRows, RowEvent, RowChanges, Types, Pairs
<1>2. <<>> \in Seq(LibraryRows)
  OBVIOUS
<1>3. ASSUME NEW x \in LibraryRows PROVE <<x>> \in Seq(LibraryRows)
  OBVIOUS
<1> QED BY <1>1, <1>2, <1>3 DEF Row

\* The table map of a row has the row's time, so that a window has both or neither.
LEMMA RowParsed ==
  ASSUME NEW s \in Readings, NEW ts \in Nat, NEW c \in RowChanges
  PROVE  LET r == ParseEvent(ParseEvent(s, BinlogEvent("tableMap", ts, c)), BinlogEvent("rows", ts, c)) IN
         /\ s.stopped => r = s
         /\ r.stopped => s.stopped \/ ts > s.opts.end
         /\ ~s.stopped => r.events = IF c.table = Target /\ ts \in s.opts.start..s.opts.end
                                     THEN Append(s.events, LibraryEvent(c)) ELSE s.events
<1> DEFINE x == BinlogEvent("tableMap", ts, c)
           y == BinlogEvent("rows", ts, c)
           a == ParseEvent(s, x)
           r == ParseEvent(a, y)
           Good == /\ s.stopped => r = s
                   /\ r.stopped => s.stopped \/ ts > s.opts.end
                   /\ ~s.stopped => r.events = IF c.table = Target /\ ts \in s.opts.start..s.opts.end
                                               THEN Append(s.events, LibraryEvent(c)) ELSE s.events
<1>1. /\ x.kind = "tableMap" /\ x.ts = ts /\ x.table = c.table
      /\ y.kind = "rows" /\ y.ts = ts /\ y.table = c.table /\ y.type = c.type
      /\ y.before = <<c.key, c.before>> /\ y.after = <<c.key, c.after>>
  BY DEF BinlogEvent
<1>2. /\ s.opts.start \in Nat /\ s.opts.end \in Nat /\ s.mapped \in SUBSET Tables
      /\ s = [opts |-> s.opts, mapped |-> s.mapped, events |-> s.events, ddl |-> s.ddl,
              stopped |-> s.stopped]
  BY DEF Readings, Options
<1>3. c.table \in Tables /\ c.type \in Types
  BY DEF RowChanges
<1> HIDE DEF x, y
<1>4. ASSUME s.stopped \/ ts < s.opts.start PROVE Good
  <2>1. a = s
    BY <1>1, <1>4 DEF ParseEvent
  <2>2. r = s
    BY <1>1, <1>4, <2>1 DEF ParseEvent
  <2> HIDE DEF r, a
  <2> QED BY <1>2, <1>4, <2>2
<1>5. ASSUME ~s.stopped /\ ts >= s.opts.start /\ ts > s.opts.end PROVE Good
  <2>1. a = [s EXCEPT !.stopped = TRUE]
    BY <1>1, <1>2, <1>5 DEF ParseEvent
  <2> HIDE DEF a
  <2>2. a.stopped /\ a.events = s.events
    BY <1>2, <2>1
  <2>3. r = a
    BY <2>2 DEF ParseEvent
  <2> HIDE DEF r
  <2> QED BY <1>2, <1>5, <2>2, <2>3
<1>6. ASSUME ~s.stopped /\ ts \in s.opts.start..s.opts.end PROVE Good
  <2>1. a = [s EXCEPT !.mapped = @ \cup {c.table}]
    BY <1>1, <1>2, <1>6 DEF ParseEvent, Dispatch
  <2> HIDE DEF a
  <2>2. /\ ~a.stopped /\ a.events = s.events /\ c.table \in a.mapped /\ a.opts = s.opts
        /\ a = [opts |-> a.opts, mapped |-> a.mapped, events |-> a.events, ddl |-> a.ddl,
                stopped |-> a.stopped]
    BY <1>2, <1>6, <2>1
  <2>3. r = Convert(a, y)
    BY <1>1, <1>2, <1>6, <2>2 DEF ParseEvent, Dispatch
  <2>4. ASSUME c.table # Target PROVE Good
    <3>1. r = a
      BY <1>1, <2>3, <2>4 DEF Convert
    <3> HIDE DEF r
    <3> QED BY <1>6, <2>2, <2>4, <3>1
  <2>5. ASSUME c.table = Target PROVE Good
    <3> DEFINE d == RowData(y.type, y.before, y.after)
               z == RowEvent(y.type, d.before, d.after)
    <3>1. r = [a EXCEPT !.events = Append(@, z)]
      BY <1>1, <2>2, <2>3, <2>5 DEF Convert
    <3>2. z = LibraryEvent(c)
      BY <1>1, <1>3 DEF RowData, RowEvent, LibraryEvent, Types
    <3> HIDE DEF z, r
    <3>3. r.events = Append(s.events, LibraryEvent(c)) /\ r.stopped = a.stopped
      BY <2>2, <3>1, <3>2
    <3> QED BY <1>6, <2>2, <2>5, <3>3
  <2> QED BY <2>4, <2>5
<1>7. Good
  BY <1>2, <1>4, <1>5, <1>6
<1> QED BY <1>7 DEF x, y

LEMMA EntryParsed ==
  ASSUME NEW s \in Readings, NEW e \in Entry
  PROVE  LET r == Parser!Fold(s, EntryEvents(e)) IN
         /\ s.stopped => r.stopped /\ r.events = s.events
         /\ r.stopped => s.stopped \/ e.ts > s.opts.end
         /\ ~s.stopped => r.events = s.events \o Row(s.opts, e)
<1> DEFINE r == Parser!Fold(s, EntryEvents(e))
<1>1. s.events \in Seq(LibraryRows) /\ s.opts \in Options /\ s.opts.end \in Nat /\ e.ts \in Nat
  BY DEF Readings, Options, Entry, RowsEntry, QueryEntry
<1>2. CASE e.kind = "query"
  <2> DEFINE x == BinlogEvent("query", e.ts, OtherRow)
             none == <<>>
  <2>1. EntryEvents(e) = <<x>> /\ x \in BinlogEvents /\ x.kind = "query" /\ x.ts = e.ts
    BY <1>2, EntryEventsAre DEF BinlogEvent
  <2> HIDE DEF x
  <2>2. none \in Seq(BinlogEvents) /\ <<x>> = Append(none, x) /\ Parser!Fold(s, none) = s
    BY <2>1, Parser!FoldEmpty
  <2> HIDE DEF none
  <2>3. Parser!Fold(s, Append(none, x)) = ParseEvent(s, x)
    BY <2>1, <2>2, Parser!FoldAppend
  <2>4. r = ParseEvent(s, x)
    BY <2>1, <2>2, <2>3
  <2> HIDE DEF r
  <2>5. r.events = s.events /\ (s.stopped => r = s) /\ (r.stopped => s.stopped \/ e.ts > s.opts.end)
    <3>1. \/ r = s
          \/ ~s.stopped /\ e.ts > s.opts.end /\ r = [s EXCEPT !.stopped = TRUE]
          \/ ~s.stopped /\ r = [s EXCEPT !.ddl = Append(@, x.ts)]
      BY <2>1, <2>4 DEF ParseEvent, Dispatch
    <3> QED BY <3>1 DEF Readings
  <2>6. Row(s.opts, e) = none /\ s.events \o none = s.events
    <3>1. Row(s.opts, e) = none
      BY <1>2 DEF Row, Sought, none
    <3>2. s.events \o none = s.events
      BY <1>1, ConcatIs DEF none
    <3> QED BY <3>1, <3>2
  <2> QED BY <2>5, <2>6 DEF r
<1>3. CASE e.kind # "query"
  <2> DEFINE x == BinlogEvent("tableMap", e.ts, e.change)
             y == BinlogEvent("rows", e.ts, e.change)
             none == <<>>
  <2>1. /\ EntryEvents(e) = <<x, y>> /\ x \in BinlogEvents /\ y \in BinlogEvents
        /\ e.kind = "rows" /\ e.change \in RowChanges
    BY <1>3, EntryEventsAre DEF Entry, RowsEntry, QueryEntry
  <2>2. LET q == ParseEvent(ParseEvent(s, x), y) IN
        /\ s.stopped => q = s
        /\ q.stopped => s.stopped \/ e.ts > s.opts.end
        /\ ~s.stopped => q.events = IF e.change.table = Target /\ e.ts \in s.opts.start..s.opts.end
                                    THEN Append(s.events, LibraryEvent(e.change)) ELSE s.events
    BY <1>1, <2>1, RowParsed
  <2> HIDE DEF x, y
  <2>3. /\ none \in Seq(BinlogEvents) /\ Append(none, x) \in Seq(BinlogEvents)
        /\ <<x, y>> = Append(Append(none, x), y) /\ Parser!Fold(s, none) = s
    BY <2>1, Parser!FoldEmpty
  <2> HIDE DEF none
  <2>4. Parser!Fold(s, Append(none, x)) = ParseEvent(s, x)
    BY <2>1, <2>3, Parser!FoldAppend
  <2>5. Parser!Fold(s, Append(Append(none, x), y)) = ParseEvent(Parser!Fold(s, Append(none, x)), y)
    <3>1. ASSUME NEW u \in Seq(BinlogEvents)
          PROVE  Parser!Fold(s, Append(u, y)) = ParseEvent(Parser!Fold(s, u), y)
      BY <2>1, Parser!FoldAppend
    <3> QED BY <2>3, <3>1
  <2>6. r = ParseEvent(ParseEvent(s, x), y)
    BY <2>1, <2>3, <2>4, <2>5
  <2>7. s.events \o Row(s.opts, e) = IF e.change.table = Target /\ e.ts \in s.opts.start..s.opts.end
                                     THEN Append(s.events, LibraryEvent(e.change)) ELSE s.events
    <3>1. CASE Sought(e, s.opts)
      <4>1. LibraryEvent(e.change) \in LibraryRows
        BY <1>1, <3>1, RowIs
      <4>2. Row(s.opts, e) = <<LibraryEvent(e.change)>>
        BY <3>1 DEF Row
      <4>3. s.events \o <<LibraryEvent(e.change)>> = Append(s.events, LibraryEvent(e.change))
        <5> DEFINE z == LibraryEvent(e.change)
        <5> HIDE DEF z
        <5>1. s.events \o <<z>> = Append(s.events, z)
          BY <1>1, <4>1, AppendOne DEF z
        <5> QED BY <5>1 DEF z
      <4> QED BY <3>1, <4>2, <4>3 DEF Sought
    <3>2. CASE ~Sought(e, s.opts)
      <4>1. Row(s.opts, e) = <<>> /\ s.events \o <<>> = s.events
        BY <1>1, <3>2, ConcatIs DEF Row
      <4> QED BY <2>1, <3>2, <4>1 DEF Sought
    <3> QED BY <3>1, <3>2
  <2> HIDE DEF r
  <2> QED BY <2>2, <2>6, <2>7 DEF r
<1> QED BY <1>2, <1>3

\* The events of a file and the rows of some files, entry by entry.
EventParts(l, f)   == [i \in 1..Len(l) |-> IF l[i].file = f THEN EntryEvents(l[i]) ELSE <<>>]
RowParts(w, l, fs) == [i \in 1..Len(l) |-> IF l[i].file \in fs THEN Row(w, l[i]) ELSE <<>>]
Rows(w, l, fs)     == FlattenSeq(RowParts(w, l, fs))

LEMMA EventPartsAre ==
  ASSUME NEW l \in Seq(Entry), NEW f
  PROVE  /\ EventParts(l, f) \in Seq(Seq(BinlogEvents)) /\ Len(EventParts(l, f)) = Len(l)
         /\ \A i \in 1..Len(l) : EventParts(l, f)[i] = IF l[i].file = f THEN EntryEvents(l[i]) ELSE <<>>
<1> DEFINE b(i) == IF l[i].file = f THEN EntryEvents(l[i]) ELSE <<>>
           n == Len(l)
<1>1. n \in Nat /\ \A i \in 1..n : l[i] \in Entry
  OBVIOUS
<1>2. ASSUME NEW i \in 1..n PROVE b(i) \in Seq(BinlogEvents)
  <2>1. EntryEvents(l[i]) \in Seq(BinlogEvents)
    BY <1>1, EntryEventsAre
  <2>2. <<>> \in Seq(BinlogEvents)
    OBVIOUS
  <2> QED BY <2>1, <2>2
<1>3. EventParts(l, f) = [i \in 1..n |-> b(i)]
  BY DEF EventParts
<1> HIDE DEF b, n
<1>4. /\ EventParts(l, f) \in Seq(Seq(BinlogEvents)) /\ Len(EventParts(l, f)) = n
      /\ \A i \in 1..n : EventParts(l, f)[i] = b(i)
  BY <1>1, <1>2, <1>3
<1> QED BY <1>4 DEF b, n

LEMMA RowPartsAre ==
  ASSUME NEW w \in Options, NEW l \in Seq(Entry), NEW fs
  PROVE  /\ RowParts(w, l, fs) \in Seq(Seq(LibraryRows)) /\ Len(RowParts(w, l, fs)) = Len(l)
         /\ \A i \in 1..Len(l) : RowParts(w, l, fs)[i] = IF l[i].file \in fs THEN Row(w, l[i]) ELSE <<>>
<1> DEFINE b(i) == IF l[i].file \in fs THEN Row(w, l[i]) ELSE <<>>
           n == Len(l)
<1>1. n \in Nat /\ \A i \in 1..n : l[i] \in Entry
  OBVIOUS
<1>2. ASSUME NEW i \in 1..n PROVE b(i) \in Seq(LibraryRows)
  <2>1. Row(w, l[i]) \in Seq(LibraryRows)
    BY <1>1, RowIs
  <2>2. <<>> \in Seq(LibraryRows)
    OBVIOUS
  <2> QED BY <2>1, <2>2
<1>3. RowParts(w, l, fs) = [i \in 1..n |-> b(i)]
  BY DEF RowParts
<1> HIDE DEF b, n
<1>4. /\ RowParts(w, l, fs) \in Seq(Seq(LibraryRows)) /\ Len(RowParts(w, l, fs)) = n
      /\ \A i \in 1..n : RowParts(w, l, fs)[i] = b(i)
  BY <1>1, <1>2, <1>3
<1> QED BY <1>4 DEF b, n

LEMMA FirstReading ==
  ASSUME NEW w \in Options
  PROVE  /\ Reading(w) \in Readings /\ Reading(w).opts = w /\ Reading(w).events = <<>>
         /\ ~Reading(w).stopped
         /\ BinlogEvent("format", 0, OtherRow) \in BinlogEvents
         /\ ParseEvent(Reading(w), BinlogEvent("format", 0, OtherRow)) = Reading(w)
<1> DEFINE x == BinlogEvent("format", 0, OtherRow)
           s == Reading(w)
<1>1. x \in BinlogEvents /\ x.kind = "format" /\ x.ts = 0
  BY OtherRowIs DEF BinlogEvent, BinlogEvents, RowChanges, Pairs
<1>2. s \in Readings /\ s.opts = w /\ s.events = <<>> /\ s.stopped = FALSE
  <2>1. <<>> \in Seq(LibraryRows) /\ <<>> \in Seq(Nat)
    OBVIOUS
  <2> QED BY <2>1 DEF Reading, Readings
<1>3. w.end \in Nat
  BY DEF Options
<1> HIDE DEF s, x
<1>4. ParseEvent(s, x) = s
  BY <1>1, <1>2, <1>3 DEF ParseEvent, Dispatch
<1> QED BY <1>1, <1>2, <1>4 DEF s, x

\* After the entries up to k, those of file f are read, or what comes is too late: an
\* event after the end means that every later one is.
LEMMA EntriesParsed ==
  ASSUME NEW w \in Options, NEW l \in Seq(Entry), InOrder(l), NEW f,
         NEW g, Flattens(g, EventParts(l, f)), NEW h, Flattens(h, RowParts(w, l, {f})),
         NEW k \in 0..Len(l)
  PROVE  LET r == Parser!Fold(Reading(w), g[k]) IN
         r.events = h[k] /\ (r.stopped => \E i \in 1..k : l[i].ts > w.end)
<1> DEFINE n == Len(l)
           r(i) == Parser!Fold(Reading(w), g[i])
           Good(i) == r(i).events = h[i] /\ (r(i).stopped => \E j \in 1..i : l[j].ts > w.end)
           T == {i \in Nat : i <= n => Good(i)}
<1>1. /\ n \in Nat /\ w.end \in Nat
      /\ \A i \in 1..n : l[i] \in Entry /\ l[i].ts \in Nat
  <2>1. \A e \in Entry : e.ts \in Nat
    BY DEF Entry, RowsEntry, QueryEntry
  <2> QED BY <2>1 DEF Options
<1>2. /\ \A i \in 0..n : g[i] \in Seq(BinlogEvents)
      /\ \A i \in 1..n : g[i] = g[i - 1] \o (IF l[i].file = f THEN EntryEvents(l[i]) ELSE <<>>)
      /\ g[0] = <<>>
  <2>1. EventParts(l, f) \in Seq(Seq(BinlogEvents)) /\ Len(EventParts(l, f)) = n
    BY EventPartsAre
  <2>2. \A i \in 0..n : g[i] \in Seq(BinlogEvents)
    BY <2>1, FlattenedParts
  <2>3. \A i \in 1..n : EventParts(l, f)[i] = IF l[i].file = f THEN EntryEvents(l[i]) ELSE <<>>
    BY EventPartsAre
  <2> QED BY <2>1, <2>2, <2>3 DEF Flattens
<1>3. /\ \A i \in 0..n : h[i] \in Seq(LibraryRows)
      /\ \A i \in 1..n : h[i] = h[i - 1] \o (IF l[i].file = f THEN Row(w, l[i]) ELSE <<>>)
      /\ h[0] = <<>>
  <2>1. RowParts(w, l, {f}) \in Seq(Seq(LibraryRows)) /\ Len(RowParts(w, l, {f})) = n
    BY RowPartsAre
  <2>2. \A i \in 0..n : h[i] \in Seq(LibraryRows)
    BY <2>1, FlattenedParts
  <2>3. \A i \in 1..n : RowParts(w, l, {f})[i] = IF l[i].file = f THEN Row(w, l[i]) ELSE <<>>
    BY RowPartsAre
  <2> QED BY <2>1, <2>2, <2>3 DEF Flattens
<1>4. 0 \in T
  <2>1. r(0) = Reading(w)
    BY <1>2, Parser!FoldEmpty
  <2> QED BY <1>3, <2>1, FirstReading
<1>5. ASSUME NEW i \in Nat, i \in T PROVE i + 1 \in T
  <2> SUFFICES ASSUME i + 1 <= n PROVE Good(i + 1)
    OBVIOUS
  <2> DEFINE j == i + 1
             s == r(i)
             e == l[j]
  <2>1. j \in 1..n /\ j - 1 = i /\ i \in 0..n /\ Good(i) /\ \A m \in 1..i : m \in 1..j /\ m <= j
    BY <1>1, <1>5
  <2>2. e \in Entry /\ e.ts \in Nat
    <3> HIDE DEF j
    <3> QED BY <1>1, <2>1
  <2>3. s \in Readings /\ s.opts = w
    <3>1. g[i] \in Seq(BinlogEvents)
      BY <1>2, <2>1
    <3>2. Reading(w) \in Readings /\ Reading(w).opts = w
      BY FirstReading
    <3> QED BY <3>1, <3>2, PartParsed
  <2> HIDE DEF j
  <2>4. /\ g[j] = g[i] \o (IF e.file = f THEN EntryEvents(e) ELSE <<>>)
        /\ h[j] = h[i] \o (IF e.file = f THEN Row(w, e) ELSE <<>>)
        /\ g[i] \in Seq(BinlogEvents) /\ h[i] \in Seq(LibraryRows)
    BY <1>2, <1>3, <2>1
  <2>5. s.events = h[i] /\ (s.stopped => \E m \in 1..j : m <= j /\ l[m].ts > w.end)
    <3>1. s.events = h[i] /\ (s.stopped => \E m \in 1..i : l[m].ts > w.end)
      BY <2>1
    <3> QED BY <2>1, <3>1
  <2> HIDE DEF s, e
  <2>6. ASSUME e.file # f PROVE Good(j)
    <3>1. g[j] = g[i] /\ h[j] = h[i]
      BY <2>4, <2>6, ConcatIs
    <3>2. r(j) = s
      BY <3>1 DEF s
    <3> HIDE DEF r
    <3> QED BY <2>5, <3>1, <3>2
  <2>7. ASSUME e.file = f PROVE Good(j)
    <3> DEFINE q == Parser!Fold(s, EntryEvents(e))
    <3>1. r(j) = q
      <4>1. EntryEvents(e) \in Seq(BinlogEvents)
        BY <2>2, EntryEventsAre
      <4>2. g[j] = g[i] \o EntryEvents(e)
        BY <2>4, <2>7
      <4>3. Parser!Fold(Reading(w), g[i] \o EntryEvents(e))
              = Parser!Fold(Parser!Fold(Reading(w), g[i]), EntryEvents(e))
        BY <2>4, <4>1, Parser!FoldConcat
      <4> QED BY <4>2, <4>3 DEF s
    <3>2. /\ s.stopped => q.stopped /\ q.events = s.events
          /\ q.stopped => s.stopped \/ e.ts > w.end
          /\ ~s.stopped => q.events = s.events \o Row(w, e)
      BY <2>2, <2>3, EntryParsed
    <3>3. h[j] = h[i] \o Row(w, e)
      BY <2>4, <2>7
    <3> HIDE DEF r, q
    <3>4. q.events = h[j]
      <4>1. CASE ~s.stopped
        BY <2>5, <3>2, <3>3, <4>1
      <4>2. CASE s.stopped
        <5>1. PICK m \in 1..j : m <= j /\ l[m].ts > w.end
          BY <2>5, <4>2
        <5>2. l[m].ts <= e.ts
          <6>1. m \in 1..n /\ j \in 1..n
            BY <1>1, <2>1
          <6> QED BY <5>1, <6>1 DEF InOrder, e
        <5>3. e.ts > w.end
          <6>1. l[m].ts \in Nat
            BY <1>1, <2>1
          <6> QED BY <1>1, <2>2, <5>1, <5>2, <6>1
        <5>4. Row(w, e) = <<>>
          BY <1>1, <2>2, <5>3 DEF Row, Sought
        <5>5. h[i] \o <<>> = h[i]
          BY <2>4, ConcatIs
        <5> QED BY <2>5, <3>2, <3>3, <4>2, <5>4, <5>5
      <4> QED BY <4>1, <4>2
    <3>5. q.stopped => \E m \in 1..j : l[m].ts > w.end
      <4>1. j \in 1..j
        BY <2>1
      <4> QED BY <2>5, <3>2, <4>1 DEF e
    <3> QED BY <3>1, <3>4, <3>5
  <2>8. Good(j)
    BY <2>6, <2>7
  <2> QED BY <2>8 DEF j
<1>6. Nat \subseteq T
  <2> HIDE DEF T
  <2> QED BY <1>4, <1>5, Parser!SetInduction
<1> QED BY <1>1, <1>6

\* The events of file f, whatever the length of the log.
EventsOf(l, f) == <<BinlogEvent("format", 0, OtherRow)>> \o FlattenSeq(EventParts(l, f))

LEMMA FileParsed ==
  ASSUME NEW w \in Options, NEW l \in Seq(Entry), InOrder(l), NEW f
  PROVE  /\ EventsOf(l, f) \in Seq(BinlogEvents) /\ Rows(w, l, {f}) \in Seq(LibraryRows)
         /\ Parser!Fold(Reading(w), EventsOf(l, f)).events = Rows(w, l, {f})
<1> DEFINE n == Len(l)
           x == BinlogEvent("format", 0, OtherRow)
<1>1. EventParts(l, f) \in Seq(Seq(BinlogEvents)) /\ Len(EventParts(l, f)) = n /\ n \in 0..n
  BY EventPartsAre
<1>2. RowParts(w, l, {f}) \in Seq(Seq(LibraryRows)) /\ Len(RowParts(w, l, {f})) = n
  BY RowPartsAre
<1>3. PICK g : /\ Flattens(g, EventParts(l, f)) /\ FlattenSeq(EventParts(l, f)) = g[n]
               /\ g[n] \in Seq(BinlogEvents)
  BY <1>1, Flattening
<1>4. PICK h : /\ Flattens(h, RowParts(w, l, {f})) /\ Rows(w, l, {f}) = h[n]
               /\ h[n] \in Seq(LibraryRows)
  BY <1>1, <1>2, Flattening DEF Rows
<1>5. Parser!Fold(Reading(w), g[n]).events = h[n]
  BY <1>1, <1>3, <1>4, EntriesParsed
<1>6. x \in BinlogEvents /\ ParseEvent(Reading(w), x) = Reading(w)
  BY FirstReading
<1> HIDE DEF x
<1>7. Parser!Fold(Reading(w), <<x>> \o g[n]) = Parser!Fold(ParseEvent(Reading(w), x), g[n])
  BY <1>3, <1>6, Parser!FoldCons
<1>8. EventsOf(l, f) = <<x>> \o g[n]
  BY <1>3 DEF EventsOf, x
<1>9. <<x>> \o g[n] \in Seq(BinlogEvents)
  BY <1>3, <1>6
<1> QED BY <1>4, <1>5, <1>6, <1>7, <1>8, <1>9

\* What is read of a file that breaks off is a beginning of what is in it.
LEMMA PartOfFileParsed ==
  ASSUME NEW w \in Options, NEW l \in Seq(Entry), InOrder(l), NEW f, NEW n \in 0..Len(EventsOf(l, f))
  PROVE  LET r == Parser!Fold(Reading(w), SubSeq(EventsOf(l, f), 1, n)) IN
         r.events \in Seq(LibraryRows) /\ Extends(r.events, Rows(w, l, {f}))
<1> DEFINE u == EventsOf(l, f)
           a == SubSeq(u, 1, n)
           b == SubSeq(u, n + 1, Len(u))
           s == Reading(w)
<1>1. u \in Seq(BinlogEvents) /\ Parser!Fold(s, u).events = Rows(w, l, {f})
  BY FileParsed
<1>2. a \in Seq(BinlogEvents) /\ b \in Seq(BinlogEvents) /\ a \o b = u
  <2> HIDE DEF u
  <2>1. n \in Nat /\ Len(u) \in Nat /\ n <= Len(u)
    BY <1>1 DEF u
  <2>2. SubSeq(u, 1, Len(u)) = u
    BY <1>1
  <2> DEFINE k == Len(u)
  <2> HIDE DEF k
  <2>3. /\ SubSeq(u, 1, n) \in Seq(BinlogEvents) /\ SubSeq(u, n + 1, k) \in Seq(BinlogEvents)
        /\ SubSeq(u, 1, n) \o SubSeq(u, n + 1, k) = SubSeq(u, 1, k)
    <3>1. k \in Nat /\ k <= Len(u)
      BY <2>1 DEF k
    <3> QED BY <1>1, <2>1, <3>1, TwoParts DEF k
  <2>4. SubSeq(u, 1, k) = u
    BY <2>2 DEF k
  <2> QED BY ONLY <2>3, <2>4, Zenon DEF a, b, k
<1>3. s \in Readings
  BY FirstReading
<1> HIDE DEF a, b, s, u
<1> DEFINE r == Parser!Fold(s, a)
           q == Parser!Fold(r, b)
<1>4. r \in Readings
  BY <1>2, <1>3, PartParsed
<1>5. Parser!Fold(s, a \o b) = q
  <2>1. ASSUME NEW x \in Seq(BinlogEvents), NEW y \in Seq(BinlogEvents)
        PROVE  Parser!Fold(s, x \o y) = Parser!Fold(Parser!Fold(s, x), y)
    BY Parser!FoldConcat
  <2> QED BY <1>2, <2>1
<1>6. Extends(r.events, q.events)
  <2> HIDE DEF r
  <2> QED BY <1>2, <1>4, PartParsed
<1>7. r.events \in Seq(LibraryRows)
  BY <1>4 DEF Readings
<1>8. Extends(r.events, Rows(w, l, {f}))
  BY <1>1, <1>2, <1>5, <1>6
<1> QED BY <1>7, <1>8 DEF s, a, u

LEMMA NoRows ==
  ASSUME NEW w \in Options, NEW l \in Seq(Entry), NEW fs, \A i \in 1..Len(l) : l[i].file \notin fs
  PROVE  Rows(w, l, fs) = <<>>
<1> DEFINE n == Len(l)
<1>1. RowParts(w, l, fs) \in Seq(Seq(LibraryRows)) /\ Len(RowParts(w, l, fs)) = n /\ n \in Nat
  BY RowPartsAre
<1>2. PICK h : Flattens(h, RowParts(w, l, fs)) /\ Rows(w, l, fs) = h[n]
  BY <1>1, Flattening DEF Rows
<1>3. h[0] = <<>> /\ \A i \in 1..n : h[i] = h[i - 1] \o <<>>
  <2>1. \A i \in 1..n : RowParts(w, l, fs)[i] = <<>>
    <3>1. \A i \in 1..n : RowParts(w, l, fs)[i] = IF l[i].file \in fs THEN Row(w, l[i]) ELSE <<>>
      BY RowPartsAre
    <3> QED BY <3>1
  <2> QED BY <1>1, <1>2, <2>1 DEF Flattens
<1> DEFINE T == {i \in Nat : i <= n => h[i] = <<>>}
<1>4. 0 \in T
  BY <1>3
<1>5. ASSUME NEW i \in Nat, i \in T PROVE i + 1 \in T
  <2> SUFFICES ASSUME i + 1 <= n PROVE h[i + 1] = <<>>
    OBVIOUS
  <2>1. i + 1 \in 1..n /\ i + 1 - 1 = i /\ h[i] = <<>>
    BY <1>1, <1>5
  <2>2. <<>> \o <<>> = <<>>
    OBVIOUS
  <2> QED BY <1>3, <2>1, <2>2
<1>6. n \in T
  <2> HIDE DEF T
  <2> QED BY <1>1, <1>4, <1>5, Parser!SetInduction
<1> QED BY <1>1, <1>2, <1>6

\* Files are written one after the other, so that the rows of files before and of files
\* after come apart.
FilesInOrder(l) == \A i, j \in 1..Len(l) : i <= j => l[i].file <= l[j].file

LEMMA SplitFiles ==
  ASSUME NEW w \in Options, NEW l \in Seq(Entry), FilesInOrder(l),
         NEW A \in SUBSET Nat, NEW B \in SUBSET Nat, \A a \in A, b \in B : a < b
  PROVE  Rows(w, l, A \cup B) = Rows(w, l, A) \o Rows(w, l, B)
<1> DEFINE n == Len(l)
           p(fs, i) == IF l[i].file \in fs THEN Row(w, l[i]) ELSE <<>>
<1>1. /\ n \in 0..n /\ n \in Nat
      /\ \A i \in 1..n : l[i] \in Entry
      /\ \A i \in 1..n : Row(w, l[i]) \in Seq(LibraryRows)
  BY RowIs
<1>2. \A fs : /\ RowParts(w, l, fs) \in Seq(Seq(LibraryRows)) /\ Len(RowParts(w, l, fs)) = n
              /\ \A i \in 1..n : RowParts(w, l, fs)[i] = p(fs, i)
  BY RowPartsAre
<1>3. \A fs : \E h : /\ h[0] = <<>> /\ \A i \in 1..n : h[i] = h[i - 1] \o p(fs, i)
                     /\ \A i \in 0..n : h[i] \in Seq(LibraryRows)
                     /\ Rows(w, l, fs) = h[n]
  <2> SUFFICES ASSUME NEW fs
               PROVE  \E h : /\ h[0] = <<>> /\ \A i \in 1..n : h[i] = h[i - 1] \o p(fs, i)
                             /\ \A i \in 0..n : h[i] \in Seq(LibraryRows)
                             /\ Rows(w, l, fs) = h[n]
    OBVIOUS
  <2>1. RowParts(w, l, fs) \in Seq(Seq(LibraryRows)) /\ Len(RowParts(w, l, fs)) = n
    BY <1>2
  <2>2. PICK h : /\ Flattens(h, RowParts(w, l, fs)) /\ Rows(w, l, fs) = h[n]
                 /\ \A i \in 0..n : h[i] \in Seq(LibraryRows)
    BY <2>1, Flattening DEF Rows
  <2>3. h[0] = <<>> /\ \A i \in 1..n : h[i] = h[i - 1] \o p(fs, i)
    BY <1>2, <2>1, <2>2 DEF Flattens
  <2> HIDE DEF p
  <2> QED BY <2>2, <2>3
<1>4. PICK f : /\ f[0] = <<>> /\ \A i \in 1..n : f[i] = f[i - 1] \o p(A, i)
               /\ \A i \in 0..n : f[i] \in Seq(LibraryRows)
               /\ Rows(w, l, A) = f[n]
  BY <1>3
<1>5. PICK g : /\ g[0] = <<>> /\ \A i \in 1..n : g[i] = g[i - 1] \o p(B, i)
               /\ \A i \in 0..n : g[i] \in Seq(LibraryRows)
               /\ Rows(w, l, B) = g[n]
  BY <1>3
<1>6. PICK h : /\ h[0] = <<>> /\ \A i \in 1..n : h[i] = h[i - 1] \o p(A \cup B, i)
               /\ \A i \in 0..n : h[i] \in Seq(LibraryRows)
               /\ Rows(w, l, A \cup B) = h[n]
  BY <1>3
<1> DEFINE Good(i) == h[i] = f[i] \o g[i] /\ (g[i] # <<>> => \E j \in 1..i : l[j].file \in B)
           T == {i \in Nat : i <= n => Good(i)}
<1>7. 0 \in T
  <2>1. <<>> \o <<>> = <<>>
    OBVIOUS
  <2> QED BY <1>4, <1>5, <1>6, <2>1
<1>8. ASSUME NEW i \in Nat, i \in T PROVE i + 1 \in T
  <2> HIDE DEF Good
  <2> SUFFICES ASSUME i + 1 <= n PROVE Good(i + 1)
    BY <1>1
  <2> DEFINE j == i + 1
             x == Row(w, l[j])
  <2>1. /\ j \in 1..n /\ j - 1 = i /\ i \in 0..n /\ Good(i) /\ j \in 1..j
        /\ \A m \in 1..i : m \in 1..j /\ m <= j /\ m \in 1..n
    BY <1>1, <1>8
  <2> USE DEF Good
  <2> HIDE DEF j
  <2>2. x \in Seq(LibraryRows) /\ f[i] \in Seq(LibraryRows) /\ g[i] \in Seq(LibraryRows)
    BY <1>1, <1>4, <1>5, <2>1
  <2>3. f[j] = f[i] \o p(A, j) /\ g[j] = g[i] \o p(B, j) /\ h[j] = h[i] \o p(A \cup B, j)
    BY <1>4, <1>5, <1>6, <2>1
  <2>4. h[i] = f[i] \o g[i] /\ (g[i] # <<>> => \E m \in 1..i : l[m].file \in B)
    BY <2>1
  <2>5. g[i] # <<>> => \E m \in 1..j : m \in 1..n /\ m <= j /\ l[m].file \in B
    BY <2>1, <2>4
  <2> HIDE DEF x
  <2>6. ASSUME l[j].file \in A PROVE Good(j)
    <3>1. g[i] = <<>>
      <4> SUFFICES ASSUME g[i] # <<>> PROVE FALSE
        OBVIOUS
      <4>1. PICK m \in 1..j : m \in 1..n /\ m <= j /\ l[m].file \in B
        BY <2>5
      <4>2. l[m].file <= l[j].file
        BY <2>1, <4>1 DEF FilesInOrder
      <4>3. l[j].file < l[m].file
        BY <2>6, <4>1
      <4>4. l[j].file \in Nat /\ l[m].file \in Nat
        BY <2>6, <4>1
      <4> QED BY <4>2, <4>3, <4>4
    <3>2. l[j].file \notin B
      <4> SUFFICES ASSUME l[j].file \in B PROVE FALSE
        OBVIOUS
      <4>1. l[j].file < l[j].file /\ l[j].file \in Nat
        BY <2>6
      <4> QED BY <4>1
    <3>3. f[j] = f[i] \o x /\ g[j] = g[i] \o <<>> /\ h[j] = h[i] \o x
      BY <2>3, <2>6, <3>2 DEF x
    <3> DEFINE none == <<>>
    <3>4. none \in Seq(LibraryRows) /\ f[i] \o none = f[i] /\ none \o none = none
      BY <2>2
    <3>5. (f[i] \o x) \o none = f[i] \o x
      <4> DEFINE y == f[i] \o x
      <4>1. y \in Seq(LibraryRows)
        BY <2>2
      <4> HIDE DEF y
      <4> QED BY <4>1
    <3>6. g[j] = none /\ h[j] = f[j] \o g[j]
      <4>1. g[i] = none
        BY <3>1
      <4> HIDE DEF none
      <4>2. g[j] = g[i] \o none
        BY <3>3 DEF none
      <4> QED BY <2>4, <3>3, <3>4, <3>5, <4>1, <4>2
    <3> QED BY <3>6
  <2>7. ASSUME l[j].file \in B, l[j].file \notin A PROVE Good(j)
    <3>1. f[j] = f[i] \o <<>> /\ g[j] = g[i] \o x /\ h[j] = h[i] \o x
      BY <2>3, <2>7 DEF x
    <3>2. f[i] \o <<>> = f[i]
      BY <2>2, ConcatIs
    <3>3. (f[i] \o g[i]) \o x = f[i] \o (g[i] \o x)
      <4>1. ASSUME NEW a \in Seq(LibraryRows), NEW b \in Seq(LibraryRows), NEW c \in Seq(LibraryRows)
            PROVE  (a \o b) \o c = a \o (b \o c)
        BY Associates
      <4> QED BY <2>2, <4>1
    <3> QED BY <2>1, <2>4, <2>7, <3>1, <3>2, <3>3
  <2>8. ASSUME l[j].file \notin A, l[j].file \notin B PROVE Good(j)
    <3> DEFINE none == <<>>
    <3>1. f[j] = f[i] \o none /\ g[j] = g[i] \o none /\ h[j] = h[i] \o none
      BY <2>3, <2>8
    <3>2. f[i] \o none = f[i] /\ g[i] \o none = g[i]
      BY <2>2, ConcatIs
    <3>3. h[i] \o none = h[i]
      <4>1. h[i] \in Seq(LibraryRows)
        BY <1>6, <2>1
      <4> QED BY <4>1, ConcatIs
    <3> HIDE DEF none
    <3>4. f[j] = f[i] /\ g[j] = g[i] /\ h[j] = h[i]
      BY <3>1, <3>2, <3>3
    <3>5. g[j] # <<>> => \E m \in 1..j : l[m].file \in B
      BY <2>5, <3>4
    <3> QED BY <2>4, <3>4, <3>5
  <2>9. Good(j)
    BY <2>6, <2>7, <2>8
  <2> QED BY <2>9 DEF j
<1>9. n \in T
  <2> HIDE DEF T
  <2> QED BY <1>1, <1>7, <1>8, Parser!SetInduction
<1>10. Good(n)
  <2> HIDE DEF Good
  <2> QED BY <1>1, <1>9
<1> HIDE DEF p, n
<1> QED BY <1>4, <1>5, <1>6, <1>10

\* Each entry is in the file in use when it was logged, and the files only go up.
Filed == FilesInOrder(log) /\ \A i \in 1..Len(log) : log[i].file <= file

LEMMA FiledSteps ==
  ASSUME LogOK, Operation, Filed, [Next]_vars
  PROVE  Filed'
<1> DEFINE n == Len(log)
           m == Len(log')
<1>1. /\ LogGrows /\ file \in Nat /\ file' \in Nat /\ file <= file'
      /\ n \in Nat /\ m \in Nat /\ n <= m
  BY LogSteps
<1>2. \A i \in 1..n : log'[i] = log[i] /\ log[i].file \in Nat
  <2>1. \A i \in 1..n : log[i] \in Entry
    BY LogIs
  <2> QED BY <1>1, <2>1 DEF LogGrows, Extends, Entry, RowsEntry, QueryEntry
<1>3. ASSUME m # n PROVE \A i \in n + 1..m : log'[i].file = file'
  <2>1. CASE Statement
    BY <2>1, StatementWrites
  <2>2. CASE Truncate
    BY <2>2, TruncateWrites
  <2>3. CASE ExecuteBatch
    <3>1. CASE UNCHANGED server
      BY <1>3, <3>1 DEF server
    <3>2. CASE ~UNCHANGED server
      <4>1. tried < Batches /\ tried' = tried + 1
        BY <2>3 DEF ExecuteBatch
      <4>2. Commit(RunBatch(rows, Batch(tried + 1)).changes, "undo")
        BY <2>3, <3>2, <4>1 DEF ExecuteBatch
      <4> QED BY <4>1, <4>2, BatchWrites
    <3> QED BY <3>1, <3>2
  <2>4. CASE UNCHANGED log
    BY <1>3, <2>4
  <2> QED BY <2>1, <2>2, <2>3, <2>4
          DEF Next, Rotate, StartCLI, StartDaemon, Preflight, ListFiles, ParseText, Undo,
              FinishExecute, Kill, server, vars
<1>4. \A i \in 1..n : log[i].file <= file
  BY DEF Filed
<1> HIDE DEF m, n
<1>5. ASSUME NEW i \in 1..m PROVE log'[i].file <= file' /\ log'[i].file \in Nat
  <2>1. CASE i \in 1..n
    BY <1>1, <1>2, <1>4, <2>1
  <2>2. CASE i \notin 1..n
    <3>1. m # n /\ i \in n + 1..m
      BY <1>1, <2>2
    <3> QED BY <1>1, <1>3, <3>1
  <2> QED BY <2>1, <2>2
<1>6. ASSUME NEW i \in 1..m, NEW j \in 1..m, i <= j PROVE log'[i].file <= log'[j].file
  <2>1. CASE j \in 1..n
    <3>1. i \in 1..n
      BY <1>1, <1>6, <2>1
    <3>2. log[i].file <= log[j].file
      BY <1>6, <2>1, <3>1 DEF Filed, FilesInOrder, n
    <3> QED BY <1>2, <2>1, <3>1, <3>2
  <2>2. CASE j \notin 1..n
    <3>1. m # n /\ j \in n + 1..m
      BY <1>1, <2>2
    <3>2. log'[j].file = file'
      BY <1>3, <3>1
    <3> QED BY <1>5, <3>2
  <2> QED BY <2>1, <2>2
<1> QED BY <1>5, <1>6 DEF Filed, FilesInOrder, m

LEMMA AlwaysFiled == Spec => [](LogOK /\ Filed)
<1>1. Init => Filed
  <2> SUFFICES ASSUME Init PROVE Filed
    OBVIOUS
  <2>1. log = <<>> /\ Len(log) = 0
    BY DEF Init
  <2>2. 1..Len(log) = {}
    BY <2>1
  <2> QED BY <2>2 DEF Filed, FilesInOrder
<1>2. FlashbackInv /\ Filed /\ [Next]_vars => Filed'
  BY FiledSteps DEF FlashbackInv
<1>3. FlashbackInv => LogOK
  BY DEF FlashbackInv
<1> QED BY <1>1, <1>2, <1>3, FlashbackInvariant, PTL DEF Spec

\* The files as ParseFiles gets them: file b breaks off after n events, or does not open.
FileAt(l, f, b, n) ==
  [events |-> IF f = b THEN SubSeq(EventsOf(l, f), 1, n) ELSE EventsOf(l, f),
   broken |-> f = b, opens |-> f # b \/ n > 0]

Items(w, l, m, b, n) == [i \in 1..m |-> [file |-> FileAt(l, i, b, n), opts |-> w, last |-> i = m]]

Nothing == [events |-> <<>>, ddl |-> <<>>, err |-> FALSE]

Triple(x) == x = [events |-> x.events, ddl |-> x.ddl, err |-> x.err]

LEMMA ParseIs ==
  \A w, x : LET r == Parser!Fold(Reading(w), x.events) IN
            Parse(w, x) = [events |-> r.events, ddl |-> r.ddl, err |-> x.broken /\ ~r.stopped]
BY DEF Parse, Parser!Fold, FoldLeft, MapThenFoldSet, Max, Parser!FoldLeft, Parser!MapThenFoldSet,
       Parser!Max

\* A file that is whole gives its rows and no error, file b a beginning of them.
FilesRead(w, l, b, n) ==
  \A f : LET p == Parse(w, FileAt(l, f, b, n)) IN
         /\ p.err \in BOOLEAN /\ p.events \in Seq(LibraryRows)
         /\ f # b => p.err = FALSE /\ p.events = Rows(w, l, {f})
         /\ f = b => Extends(p.events, Rows(w, l, {b}))

LEMMA OneFileParsed ==
  ASSUME NEW w \in Options, NEW l \in Seq(Entry), InOrder(l), NEW b, NEW n \in 0..Len(EventsOf(l, b))
  PROVE  FilesRead(w, l, b, n)
<1> SUFFICES ASSUME NEW f
             PROVE  LET p == Parse(w, FileAt(l, f, b, n)) IN
                    /\ p.err \in BOOLEAN /\ p.events \in Seq(LibraryRows)
                    /\ f # b => p.err = FALSE /\ p.events = Rows(w, l, {f})
                    /\ f = b => Extends(p.events, Rows(w, l, {b}))
  BY DEF FilesRead
<1> DEFINE x == FileAt(l, f, b, n)
           r == Parser!Fold(Reading(w), x.events)
           p == Parse(w, x)
<1>1. p = [events |-> r.events, ddl |-> r.ddl, err |-> x.broken /\ ~r.stopped]
  BY ParseIs
<1>2. x.broken = (f = b) /\ x.events = IF f = b THEN SubSeq(EventsOf(l, f), 1, n) ELSE EventsOf(l, f)
  BY DEF FileAt
<1> HIDE DEF x
<1>3. f # b => r.events = Rows(w, l, {f}) /\ r.events \in Seq(LibraryRows)
  BY <1>2, FileParsed
<1>4. f = b => r.events \in Seq(LibraryRows) /\ Extends(r.events, Rows(w, l, {b}))
  <2>1. ASSUME f = b PROVE r.events \in Seq(LibraryRows) /\ Extends(r.events, Rows(w, l, {b}))
    <3>1. x.events = SubSeq(EventsOf(l, b), 1, n)
      BY <1>2, <2>1
    <3> QED BY <3>1, PartOfFileParsed
  <2> QED BY <2>1
<1> HIDE DEF r, p
<1>5. p.err \in BOOLEAN /\ p.events = r.events
  BY <1>1
<1>6. f # b => p.err = FALSE
  BY <1>1, <1>2
<1> QED BY <1>3, <1>4, <1>5, <1>6 DEF p, x

LEMMA ParseNextIs ==
  ASSUME NEW a, Triple(a), NEW x
  PROVE  LET r == ParseNext(a, x)
             p == Parse(x.opts, x.file) IN
         /\ Triple(r)
         /\ a.err => r = a
         /\ ~a.err /\ ~x.file.opens => r.err = TRUE /\ r.events = a.events
         /\ ~a.err /\ x.file.opens =>
              /\ r.err = (p.err /\ x.last)
              /\ r.events = IF p.err /\ x.last THEN a.events ELSE a.events \o p.events
<1> DEFINE p == Parse(x.opts, x.file)
           r == ParseNext(a, x)
           Good == /\ Triple(r)
                   /\ a.err => r = a
                   /\ ~a.err /\ ~x.file.opens => r.err = TRUE /\ r.events = a.events
                   /\ ~a.err /\ x.file.opens =>
                        /\ r.err = (p.err /\ x.last)
                        /\ r.events = IF p.err /\ x.last THEN a.events ELSE a.events \o p.events
<1>1. ASSUME a.err PROVE Good
  <2>1. r = a
    BY <1>1 DEF ParseNext
  <2> HIDE DEF r
  <2> QED BY <1>1, <2>1
<1>2. ASSUME ~a.err, ~x.file.opens PROVE Good
  <2>1. r = [a EXCEPT !.err = TRUE]
    BY <1>2 DEF ParseNext
  <2> HIDE DEF r
  <2>2. Triple(r) /\ r.err = TRUE /\ r.events = a.events
    BY <2>1 DEF Triple
  <2> QED BY <1>2, <2>2
<1>3. ASSUME ~a.err, x.file.opens PROVE Good
  <2>1. r = [events |-> IF p.err /\ x.last THEN a.events ELSE a.events \o p.events,
             ddl |-> a.ddl \o p.ddl, err |-> p.err /\ x.last]
    BY <1>3, Zenon DEF ParseNext
  <2> HIDE DEF r, p
  <2>2. Triple(r) /\ r.err = (p.err /\ x.last)
        /\ r.events = IF p.err /\ x.last THEN a.events ELSE a.events \o p.events
    BY <2>1 DEF Triple
  <2> QED BY <1>3, <2>2
<1>4. Good
  BY <1>1, <1>2, <1>3
<1> QED BY <1>4

LEMMA NextFile ==
  ASSUME NEW w \in Options, NEW l \in Seq(Entry), FilesInOrder(l), NEW a \in Nat, NEW k \in Nat, a <= k + 1
  PROVE  /\ Rows(w, l, a..k + 1) = Rows(w, l, a..k) \o Rows(w, l, {k + 1})
         /\ Rows(w, l, k + 1..k) = <<>>
<1>1. a..k + 1 = a..k \cup {k + 1} /\ a..k \in SUBSET Nat /\ {k + 1} \in SUBSET Nat
  OBVIOUS
<1>2. \A x \in a..k, y \in {k + 1} : x < y
  OBVIOUS
<1>3. Rows(w, l, a..k \cup {k + 1}) = Rows(w, l, a..k) \o Rows(w, l, {k + 1})
  <2> DEFINE A == a..k
             B == {k + 1}
  <2>1. A \in SUBSET Nat /\ B \in SUBSET Nat /\ \A x \in A, y \in B : x < y
    BY <1>1, <1>2
  <2> HIDE DEF A, B
  <2>2. Rows(w, l, A \cup B) = Rows(w, l, A) \o Rows(w, l, B)
    BY <2>1, SplitFiles
  <2> QED BY <2>2 DEF A, B
<1>4. Rows(w, l, k + 1..k) = <<>>
  <2>1. \A i \in 1..Len(l) : l[i].file \notin k + 1..k
    OBVIOUS
  <2> QED BY <2>1, NoRows
<1> QED BY <1>1, <1>3, <1>4

\* What ParseFiles has after file k: the rows of the files, or those before file b and an
\* error, or those and a beginning of the rows of b and those of the files after it.
Whole(a, w, l, k)    == a.err = FALSE /\ a.events = Rows(w, l, 1..k)
Given(a, w, l, b)    == a.err = TRUE /\ a.events = Rows(w, l, 1..b - 1)
Broken(a, w, l, b, k, part) ==
  a.err = FALSE /\ a.events = (Rows(w, l, 1..b - 1) \o part) \o Rows(w, l, b + 1..k)

\* The parser takes one file after the other.
LEMMA FileByFile ==
  ASSUME NEW A, NEW v \in Seq(A)
  PROVE  /\ PerFile!Fold(Nothing, SubSeq(v, 1, 0)) = Nothing
         /\ \A k \in Nat : k + 1 <= Len(v) =>
              PerFile!Fold(Nothing, SubSeq(v, 1, k + 1)) = ParseNext(PerFile!Fold(Nothing, SubSeq(v, 1, k)), v[k + 1])
<1>1. 1 \in Nat \ {0} /\ 1 - 1 = 0 /\ \A k \in Nat : 1 <= k + 1
  OBVIOUS
<1>2. /\ PerFile!Fold(Nothing, SubSeq(v, 1, 1 - 1)) = Nothing
      /\ \A k \in Nat : 1 <= k + 1 /\ k + 1 <= Len(v) =>
           PerFile!Fold(Nothing, SubSeq(v, 1, k + 1)) = ParseNext(PerFile!Fold(Nothing, SubSeq(v, 1, k)), v[k + 1])
  BY <1>1, PerFile!FoldPart
<1> QED BY <1>1, <1>2

LEMMA FilesParsed ==
  ASSUME NEW w \in Options, NEW l \in Seq(Entry), InOrder(l), FilesInOrder(l),
         NEW m \in Nat, NEW b \in 0..m, NEW n \in 0..Len(EventsOf(l, b))
  PROVE  LET a == PerFile!Fold(Nothing, Items(w, l, m, b, n)) IN
         /\ b = 0 => Whole(a, w, l, m)
         /\ b # 0 =>
              \/ (n = 0 \/ b = m) /\ Given(a, w, l, b)
              \/ n # 0 /\ \E part \in Seq(LibraryRows) :
                            Extends(part, Rows(w, l, {b})) /\ Broken(a, w, l, b, m, part)
<1> DEFINE u == Items(w, l, m, b, n)
           S == {u[i] : i \in 1..m}
           a(k) == PerFile!Fold(Nothing, SubSeq(u, 1, k))
           q == Parse(w, FileAt(l, b, b, n))
           lost == n = 0 \/ (b = m /\ q.err)
           Good(k) == /\ Triple(a(k))
                      /\ b = 0 \/ k < b => Whole(a(k), w, l, k)
                      /\ b # 0 /\ b <= k /\ lost => Given(a(k), w, l, b)
                      /\ b # 0 /\ b <= k /\ ~lost => Broken(a(k), w, l, b, k, q.events)
           T == {k \in Nat : k <= m => Good(k)}
<1>1. /\ u \in Seq(S) /\ Len(u) = m
      /\ \A i \in 1..m : u[i] = [file |-> FileAt(l, i, b, n), opts |-> w, last |-> i = m]
  BY DEF Items
<1>2. n \in Nat /\ b \in Nat
  <2>1. EventsOf(l, b) \in Seq(BinlogEvents)
    BY FileParsed
  <2> QED BY <2>1
<1>3. /\ q.events \in Seq(LibraryRows) /\ Extends(q.events, Rows(w, l, {b})) /\ q.err \in BOOLEAN
      /\ \A f : LET p == Parse(w, FileAt(l, f, b, n)) IN
                /\ p.err \in BOOLEAN /\ p.events \in Seq(LibraryRows)
                /\ f # b => p.err = FALSE /\ p.events = Rows(w, l, {f})
  <2>1. FilesRead(w, l, b, n)
    BY OneFileParsed
  <2> QED BY <2>1 DEF FilesRead
<1>4. /\ Rows(w, l, 1..b - 1) \in Seq(LibraryRows)
      /\ \A k \in Nat : /\ Rows(w, l, {k}) \in Seq(LibraryRows) /\ Rows(w, l, 1..k) \in Seq(LibraryRows)
                        /\ Rows(w, l, b + 1..k) \in Seq(LibraryRows)
  <2> SUFFICES ASSUME NEW fs PROVE Rows(w, l, fs) \in Seq(LibraryRows)
    OBVIOUS
  <2>1. RowParts(w, l, fs) \in Seq(Seq(LibraryRows))
    BY RowPartsAre
  <2>2. Len(RowParts(w, l, fs)) \in 0..Len(RowParts(w, l, fs))
    BY <2>1
  <2> QED BY <2>1, <2>2, Flattening DEF Rows
<1>5. a(0) = Nothing /\ \A k \in Nat : k + 1 <= m => a(k + 1) = ParseNext(a(k), u[k + 1])
  <2> HIDE DEF u, S
  <2>1. /\ PerFile!Fold(Nothing, SubSeq(u, 1, 0)) = Nothing
        /\ \A k \in Nat : k + 1 <= Len(u) =>
             PerFile!Fold(Nothing, SubSeq(u, 1, k + 1)) = ParseNext(PerFile!Fold(Nothing, SubSeq(u, 1, k)), u[k + 1])
    BY <1>1, FileByFile
  <2> QED BY <1>1, <2>1
<1> HIDE DEF a, u, S
<1>6. 0 \in T
  <2>1. Triple(a(0)) /\ a(0).err = FALSE /\ a(0).events = <<>>
    BY <1>5 DEF Nothing, Triple
  <2>2. Rows(w, l, 1..0) = <<>>
    <3>1. \A i \in 1..Len(l) : l[i].file \notin 1..0
      OBVIOUS
    <3> QED BY <3>1, NoRows
  <2>3. ~(b # 0 /\ b <= 0)
    BY <1>2
  <2>4. Whole(a(0), w, l, 0)
    BY <2>1, <2>2 DEF Whole
  <2>5. Good(0)
    BY <2>1, <2>3, <2>4
  <2> HIDE DEF Good
  <2> QED BY <2>5
<1>7. ASSUME NEW k \in Nat, k \in T PROVE k + 1 \in T
  <2> HIDE DEF Good
  <2> SUFFICES ASSUME k + 1 <= m PROVE Good(k + 1)
    OBVIOUS
  <2> DEFINE j == k + 1
             c == a(k)
             d == a(j)
             x == u[j]
             p == Parse(w, FileAt(l, j, b, n))
  <2>1. /\ j \in 1..m /\ j \in Nat /\ k <= m /\ j - 1 = k /\ j # 0
        /\ (b = j => b - 1 = k) /\ (b <= k \/ b = j \/ j < b) /\ (b <= k => b < j)
    BY <1>2
  <2>2. Good(k)
    BY <1>7, <2>1
  <2>3. d = ParseNext(c, x)
    BY <1>5
  <2>4. /\ Rows(w, l, 1..j) = Rows(w, l, 1..k) \o Rows(w, l, {j})
        /\ b <= k => Rows(w, l, b + 1..j) = Rows(w, l, b + 1..k) \o Rows(w, l, {j})
        /\ b = j => Rows(w, l, b + 1..j) = <<>>
    <3>1. 1 \in Nat /\ 1 <= k + 1
      OBVIOUS
    <3>2. Rows(w, l, 1..j) = Rows(w, l, 1..k) \o Rows(w, l, {j})
      BY <3>1, NextFile
    <3>3. ASSUME b <= k PROVE Rows(w, l, b + 1..j) = Rows(w, l, b + 1..k) \o Rows(w, l, {j})
      <4>1. b + 1 \in Nat /\ b + 1 <= k + 1
        BY <1>2, <3>3
      <4> QED BY <4>1, NextFile
    <3>4. ASSUME b = j PROVE Rows(w, l, b + 1..j) = <<>>
      <4>1. Rows(w, l, j + 1..j) = <<>>
        <5>1. j \in Nat /\ j <= j + 1
          BY <2>1
        <5> HIDE DEF j
        <5> QED BY <5>1, NextFile
      <4> QED BY <3>4, <4>1
    <3> QED BY <3>2, <3>3, <3>4
  <2> HIDE DEF j
  <2>5. x.file = FileAt(l, j, b, n) /\ x.opts = w /\ x.last = (j = m)
    BY <1>1, <2>1
  <2>6. /\ j # b \/ n > 0 => x.file.opens = TRUE
        /\ ~(j # b \/ n > 0) => x.file.opens = FALSE
        /\ j = m => x.last = TRUE
        /\ j # m => x.last = FALSE
    <3>1. FileAt(l, j, b, n).opens = (j # b \/ n > 0)
      BY DEF FileAt
    <3> QED BY <2>5, <3>1
  <2>7. /\ p.err \in BOOLEAN /\ p.events \in Seq(LibraryRows)
        /\ j # b => p.err = FALSE /\ p.events = Rows(w, l, {j})
    BY <1>3
  <2>8. j = b => p = q
    OBVIOUS
  <2> HIDE DEF c, d, x, p, q
  <2>9. /\ Triple(d)
        /\ c.err => d = c
        /\ ~c.err /\ ~x.file.opens => d.err = TRUE /\ d.events = c.events
        /\ ~c.err /\ x.file.opens =>
             /\ d.err = (p.err /\ x.last)
             /\ d.events = IF p.err /\ x.last THEN c.events ELSE c.events \o p.events
    <3>1. Triple(c)
      BY <2>2 DEF Good, c
    <3>2. p = Parse(x.opts, x.file)
      BY <2>5 DEF p
    <3> QED BY <2>3, <3>1, <3>2, ParseNextIs
  <2>10. ASSUME b = 0 \/ j < b PROVE Good(j)
    <3>1. Whole(c, w, l, k)
      BY <1>2, <2>1, <2>2, <2>10 DEF Good, c, j
    <3>2. j # b /\ ~(b # 0 /\ b <= j)
      BY <1>2, <2>1, <2>10
    <3>3. d.err = FALSE /\ d.events = c.events \o Rows(w, l, {j})
      BY <2>6, <2>7, <2>9, <3>1, <3>2 DEF Whole
    <3>4. Whole(d, w, l, j)
      BY <2>4, <3>1, <3>3 DEF Whole
    <3> QED BY <2>9, <3>2, <3>4 DEF Good, d
  <2>11. ASSUME b = j PROVE Good(j)
    <3>1. Whole(c, w, l, k) /\ c.events = Rows(w, l, 1..b - 1)
      BY <1>2, <2>1, <2>2, <2>11 DEF Good, c, Whole, j
    <3>2. b # 0 /\ b <= j /\ ~(b = 0 \/ j < b) /\ p = q
      BY <1>2, <2>1, <2>8, <2>11
    <3>3. ASSUME lost PROVE Given(d, w, l, b)
      <4>1. CASE n = 0
        BY <1>2, <2>6, <2>9, <2>11, <3>1, <4>1 DEF Given, Whole
      <4>2. CASE n # 0
        <5>1. x.file.opens /\ p.err /\ x.last
          <6>1. n > 0 /\ b = m /\ q.err
            BY <1>2, <3>3, <4>2
          <6> QED BY <2>6, <2>11, <3>2, <6>1
        <5> QED BY <2>9, <3>1, <5>1 DEF Given, Whole
      <4> QED BY <4>1, <4>2
    <3>4. ASSUME ~lost PROVE Broken(d, w, l, b, j, q.events)
      <4>1. x.file.opens /\ ~(p.err /\ x.last)
        <5>1. n > 0 /\ ~(b = m /\ q.err)
          BY <1>2, <3>4
        <5> QED BY <2>6, <2>11, <3>2, <5>1
      <4>2. d.err = FALSE /\ d.events = Rows(w, l, 1..b - 1) \o q.events
        BY <2>7, <2>9, <3>1, <3>2, <4>1 DEF Whole
      <4> DEFINE v == Rows(w, l, 1..b - 1) \o q.events
      <4>3. v \in Seq(LibraryRows)
        BY <1>3, <1>4
      <4>4. v \o <<>> = v
        <5> HIDE DEF v
        <5> QED BY <4>3, ConcatIs
      <4> QED BY <2>4, <2>11, <4>2, <4>4 DEF Broken
    <3> QED BY <2>9, <3>2, <3>3, <3>4 DEF Good, d
  <2>12. ASSUME b <= k, b # 0 PROVE Good(j)
    <3>1. j # b /\ b <= j /\ ~(b = 0 \/ j < b) /\ ~(b = 0 \/ k < b)
      BY <1>2, <2>1, <2>12
    <3>2. ASSUME lost PROVE Given(d, w, l, b)
      <4>1. Given(c, w, l, b)
        BY <2>2, <2>12, <3>2 DEF Good, c
      <4> QED BY <2>9, <4>1 DEF Given
    <3>3. ASSUME ~lost PROVE Broken(d, w, l, b, j, q.events)
      <4>1. Broken(c, w, l, b, k, q.events)
        BY <2>2, <2>12, <3>3 DEF Good, c
      <4>2. d.err = FALSE /\ d.events = c.events \o Rows(w, l, {j})
        BY <2>6, <2>7, <2>9, <3>1, <4>1 DEF Broken
      <4> DEFINE v == Rows(w, l, 1..b - 1) \o q.events
                 y == Rows(w, l, b + 1..k)
                 z == Rows(w, l, {j})
      <4>3. v \in Seq(LibraryRows)
        BY <1>3, <1>4
      <4>4. y \in Seq(LibraryRows) /\ z \in Seq(LibraryRows) /\ c.events = v \o y
            /\ Rows(w, l, b + 1..j) = y \o z /\ d.events = c.events \o z
        BY <1>4, <2>1, <2>4, <2>12, <4>1, <4>2 DEF Broken
      <4> HIDE DEF v, y, z
      <4>5. (v \o y) \o z = v \o (y \o z)
        <5>1. ASSUME NEW e \in Seq(LibraryRows), NEW f \in Seq(LibraryRows), NEW g \in Seq(LibraryRows)
              PROVE  (e \o f) \o g = e \o (f \o g)
          BY Associates
        <5> QED BY <4>3, <4>4, <5>1
      <4> QED BY <4>2, <4>4, <4>5 DEF Broken, v
    <3> QED BY <2>9, <3>1, <3>2, <3>3 DEF Good, d
  <2>13. Good(j)
    BY <2>1, <2>10, <2>11, <2>12
  <2> QED BY <2>13 DEF j
<1>8. Good(m)
  <2>1. m \in T
    <3> HIDE DEF T
    <3> QED BY <1>6, <1>7, PerFile!SetInduction
  <2> HIDE DEF Good
  <2> QED BY <2>1
<1>9. a(m) = PerFile!Fold(Nothing, u)
  <2>1. SubSeq(u, 1, m) = u
    BY <1>1
  <2> QED BY <2>1 DEF a
<1>10. b # 0 => b <= m
  BY <1>2
<1> HIDE DEF q
<1>11. ASSUME b # 0, lost PROVE (n = 0 \/ b = m) /\ Given(a(m), w, l, b)
  BY <1>8, <1>10, <1>11
<1>12. ASSUME b # 0, ~lost
       PROVE  n # 0 /\ \E part \in Seq(LibraryRows) :
                         Extends(part, Rows(w, l, {b})) /\ Broken(a(m), w, l, b, m, part)
  BY <1>3, <1>8, <1>10, <1>12
<1>13. b = 0 => Whole(a(m), w, l, m)
  BY <1>8
<1> QED BY <1>9, <1>11, <1>12, <1>13 DEF u

LEMMA FileEventsAre == ASSUME LogOK PROVE \A f : FileEvents(f) = EventsOf(log, f)
<1> SUFFICES ASSUME NEW f PROVE FileEvents(f) = EventsOf(log, f)
  OBVIOUS
<1> DEFINE a == [i \in DOMAIN log |-> IF log[i].file = f THEN EntryEvents(log[i]) ELSE <<>>]
           b == [i \in 1..Len(log) |-> IF log[i].file = f THEN EntryEvents(log[i]) ELSE <<>>]
<1>1. log \in Seq(Entry)
  BY LogIs
<1>2. DOMAIN log = 1..Len(log)
  BY <1>1
<1>3. a = b
  BY <1>2
<1> QED BY <1>3 DEF FileEvents, EventsOf, EventParts

LEMMA LibraryEventsAre == ASSUME LogOK PROVE \A w, fs : LibraryEvents(w, fs) = Rows(w, log, fs)
<1> SUFFICES ASSUME NEW w, NEW fs PROVE LibraryEvents(w, fs) = Rows(w, log, fs)
  OBVIOUS
<1> DEFINE a == [i \in DOMAIN log |-> IF log[i].file \in fs /\ Sought(log[i], w)
                                      THEN <<LibraryEvent(log[i].change)>> ELSE <<>>]
           b == [i \in 1..Len(log) |-> IF log[i].file \in fs THEN Row(w, log[i]) ELSE <<>>]
<1>1. log \in Seq(Entry)
  BY LogIs
<1>2. DOMAIN log = 1..Len(log)
  BY <1>1
<1>3. \A i : (IF log[i].file \in fs /\ Sought(log[i], w) THEN <<LibraryEvent(log[i].change)>> ELSE <<>>)
               = (IF log[i].file \in fs THEN Row(w, log[i]) ELSE <<>>)
  BY DEF Row
<1>4. a = b
  BY <1>2, <1>3
<1> QED BY <1>4 DEF LibraryEvents, Rows, RowParts

LEMMA ParseFilesIs ==
  ASSUME NEW w, NEW m \in Nat, NEW b, NEW n, LogOK
  PROVE  ParseFiles([f \in 1..m |-> BinlogFile(f, b, n)], w)
           = PerFile!Fold(Nothing, Items(w, log, m, b, n))
<1> DEFINE g == [f \in 1..m |-> BinlogFile(f, b, n)]
           u == [i \in DOMAIN g |-> [file |-> g[i], opts |-> w, last |-> i = Len(g)]]
<1>1. \A f : BinlogFile(f, b, n) = FileAt(log, f, b, n)
  BY FileEventsAre DEF BinlogFile, FileAt
<1>2. DOMAIN g = 1..m /\ Len(g) = m /\ \A i \in 1..m : g[i] = FileAt(log, i, b, n)
  BY <1>1
<1>3. u = Items(w, log, m, b, n)
  <2> HIDE DEF g
  <2> QED BY <1>2 DEF Items
<1>4. ParseFiles(g, w) = FoldLeft(ParseNext, Nothing, u)
  BY DEF ParseFiles, Nothing
<1> HIDE DEF g, u
<1>5. FoldLeft(ParseNext, Nothing, u) = PerFile!Fold(Nothing, u)
  BY DEF PerFile!Fold, FoldLeft, MapThenFoldSet, Max, PerFile!FoldLeft, PerFile!MapThenFoldSet,
         PerFile!Max
<1> QED BY <1>3, <1>4, <1>5 DEF g

\* What is between the two ends of a concatenation.
LEMMA Middle ==
  ASSUME NEW S, NEW u \in Seq(S), NEW v \in Seq(S), NEW w \in Seq(S), NEW x, x = (u \o v) \o w
  PROVE  SubSeq(x, Len(u) + 1, Len(x) - Len(w)) = v
<1> DEFINE y == u \o v
           k == Len(u)
           n == Len(v)
           m == Len(w)
<1>1. k \in Nat /\ n \in Nat /\ m \in Nat
  OBVIOUS
<1>2. y \in Seq(S) /\ Len(y) = k + n /\ \A i \in 1..n : y[k + i] = v[i]
  BY Joined
<1>3. x = y \o w
  OBVIOUS
<1> HIDE DEF y
<1>4. x \in Seq(S) /\ Len(x) = k + n + m /\ \A i \in 1..k + n : x[i] = y[i]
  <2>1. ASSUME NEW a \in Seq(S), NEW c \in Seq(S)
        PROVE  a \o c \in Seq(S) /\ Len(a \o c) = Len(a) + Len(c) /\ \A i \in 1..Len(a) : (a \o c)[i] = a[i]
    OBVIOUS
  <2>2. /\ y \o w \in Seq(S) /\ Len(y \o w) = Len(y) + Len(w)
        /\ \A i \in 1..Len(y) : (y \o w)[i] = y[i]
    BY <1>2, <2>1
  <2> QED BY ONLY <1>2, <1>3, <2>2
<1> HIDE DEF k, n, m
<1> DEFINE z == SubSeq(x, k + 1, k + n)
<1>5. z \in Seq(S) /\ Len(z) = n /\ \A i \in 1..n : z[i] = x[k + i]
  <2> DEFINE e == k + n
  <2>1. e \in Nat /\ k <= e /\ e <= Len(x) /\ e - k = n
    BY <1>1, <1>4
  <2> HIDE DEF e
  <2>2. k \in Nat /\ x \in Seq(S)
    BY <1>1, <1>4
  <2>3. /\ SubSeq(x, k + 1, e) \in Seq(S) /\ Len(SubSeq(x, k + 1, e)) = e - k
        /\ \A i \in 1..e - k : SubSeq(x, k + 1, e)[i] = x[k + i]
    BY ONLY <2>1, <2>2
  <2> QED BY <2>1, <2>3 DEF e
<1>6. \A i \in 1..n : z[i] = v[i]
  <2>1. \A i \in 1..n : k + i \in 1..k + n
    BY <1>1
  <2> QED BY <1>2, <1>4, <1>5, <2>1
<1>7. Len(x) - m = k + n
  BY <1>1, <1>4
<1> HIDE DEF z
<1>8. z = v
  BY <1>5, <1>6, SameSequence DEF n
<1> QED BY <1>7, <1>8 DEF z, k, m

LEMMA BeginsWith ==
  ASSUME NEW S, NEW u \in Seq(S), NEW v \in Seq(S), Extends(u, v)
  PROVE  IsPrefix(u, v)
<1> DEFINE n == Len(u)
           z == SubSeq(v, 1, n)
<1>1. n \in Nat /\ n <= Len(v) /\ SubSeq(u, 1, n) = u /\ \A i \in 1..n : v[i] = u[i]
  BY DEF Extends
<1>2. z \in Seq(S) /\ Len(z) = n /\ \A i \in 1..n : z[i] = v[i]
  BY <1>1
<1> HIDE DEF z
<1>3. z = u
  BY <1>1, <1>2, SameSequence
<1> QED BY <1>1, <1>3 DEF IsPrefix, z

\* LibraryFaithful for one window and one file that breaks off.
FaithfulTo(opts, broken, n) ==
  LET r == ParseFiles([f \in 1..file |-> BinlogFile(f, broken, n)], opts)
      before == LibraryEvents(opts, 1..broken - 1)
      after  == LibraryEvents(opts, broken + 1..file)
  IN IF broken = 0 THEN ~r.err /\ r.events = LibraryEvents(opts, 1..file)
     ELSE IF r.err \/ n = 0
          THEN r.err /\ (broken = file \/ n = 0) /\ r.events = before
     ELSE LET part == SubSeq(r.events, Len(before) + 1, Len(r.events) - Len(after))
          IN /\ r.events = before \o part \o after
             /\ IsPrefix(part, LibraryEvents(opts, {broken}))

\* The parser in Go returns the changes of the target from StartTime to EndTime, in the
\* order of the log, whichever file breaks off and wherever: what it loses is the rest of
\* that file, or all of it and an error if it is the last.
THEOREM LibraryAlwaysFaithful == Spec => []LibraryFaithful
<1>1. LogOK /\ Filed => LibraryFaithful
  <2> SUFFICES ASSUME LogOK, Filed,
                      NEW opts \in [start : 0..Clock, end : 1..Clock + 1], NEW broken \in 0..file,
                      NEW n \in 0..Len(FileEvents(broken))
               PROVE  FaithfulTo(opts, broken, n)
    BY Zenon DEF LibraryFaithful, FaithfulTo
  <2> DEFINE r == ParseFiles([f \in 1..file |-> BinlogFile(f, broken, n)], opts)
             before == LibraryEvents(opts, 1..broken - 1)
             after == LibraryEvents(opts, broken + 1..file)
             all == LibraryEvents(opts, 1..file)
             own == LibraryEvents(opts, {broken})
             part == SubSeq(r.events, Len(before) + 1, Len(r.events) - Len(after))
  <2>1. /\ log \in Seq(Entry) /\ InOrder(log) /\ FilesInOrder(log) /\ file \in Nat
        /\ opts \in Options /\ n \in 0..Len(EventsOf(log, broken))
    <3>1. Clock \in Nat
      BY ClockIs
    <3> QED BY <3>1, LogIs, FileEventsAre DEF LogOK, Filed, Options
  <2>2. r = PerFile!Fold(Nothing, Items(opts, log, file, broken, n))
    BY <2>1, ParseFilesIs
  <2>3. /\ before = Rows(opts, log, 1..broken - 1) /\ after = Rows(opts, log, broken + 1..file)
        /\ all = Rows(opts, log, 1..file) /\ own = Rows(opts, log, {broken})
    BY LibraryEventsAre
  <2>4. before \in Seq(LibraryRows) /\ after \in Seq(LibraryRows) /\ own \in Seq(LibraryRows)
    <3> SUFFICES ASSUME NEW fs PROVE Rows(opts, log, fs) \in Seq(LibraryRows)
      BY <2>3
    <3>1. RowParts(opts, log, fs) \in Seq(Seq(LibraryRows))
      BY <2>1, RowPartsAre
    <3>2. Len(RowParts(opts, log, fs)) \in 0..Len(RowParts(opts, log, fs))
      BY <3>1
    <3> QED BY <3>1, <3>2, Flattening DEF Rows
  <2>5. /\ broken = 0 => Whole(r, opts, log, file)
        /\ broken # 0 =>
             \/ (n = 0 \/ broken = file) /\ Given(r, opts, log, broken)
             \/ n # 0 /\ \E p \in Seq(LibraryRows) :
                           Extends(p, Rows(opts, log, {broken})) /\ Broken(r, opts, log, broken, file, p)
    BY <2>1, <2>2, FilesParsed
  <2> HIDE DEF r, before, after, all, own
  <2>6. CASE broken = 0
    <3>1. r.err = FALSE /\ r.events = all
      BY <2>3, <2>5, <2>6 DEF Whole
    <3> QED BY <2>6, <3>1 DEF r, all, FaithfulTo
  <2>7. CASE broken # 0 /\ (n = 0 \/ broken = file) /\ Given(r, opts, log, broken)
    <3>1. r.err = TRUE /\ r.events = before
      BY <2>3, <2>7 DEF Given
    <3> QED BY <2>7, <3>1 DEF r, before, FaithfulTo
  <2>8. ASSUME broken # 0, n # 0, NEW p \in Seq(LibraryRows),
               Extends(p, Rows(opts, log, {broken})), Broken(r, opts, log, broken, file, p)
        PROVE  r.err = FALSE /\ r.events = before \o part \o after /\ IsPrefix(part, own)
    <3> DEFINE x == r.events
    <3>1. r.err = FALSE /\ x = (before \o p) \o after
      BY <2>3, <2>8 DEF Broken
    <3> HIDE DEF x
    <3>2. SubSeq(x, Len(before) + 1, Len(x) - Len(after)) = p
      BY <2>4, <3>1, Middle
    <3>3. part = p
      BY <3>2 DEF x
    <3> HIDE DEF part
    <3>4. IsPrefix(p, own)
      BY <2>3, <2>4, <2>8, BeginsWith
    <3> QED BY <3>1, <3>3, <3>4 DEF x
  <2>9. CASE broken # 0 /\ n # 0 /\ \E p \in Seq(LibraryRows) :
               Extends(p, Rows(opts, log, {broken})) /\ Broken(r, opts, log, broken, file, p)
    <3>1. r.err = FALSE /\ r.events = before \o part \o after /\ IsPrefix(part, own)
      BY <2>8, <2>9
    <3> QED BY <2>9, <3>1 DEF r, before, after, own, FaithfulTo
  <2> QED BY <2>5, <2>6, <2>7, <2>9
<1> QED BY <1>1, AlwaysFiled, PTL

================================================================================
