----------------------------- MODULE TailQuery ------------------------------
(***************************************************************************)
(* What stands in the tail buffer of an open `.tsv`: the sort key open     *)
(* asks for (fetch_tail_order_expr of src/src/fs.rs), the SELECT made from *)
(* it when a read far ahead of the cursor arrives (sql_select_tail of      *)
(* src/src/driver.rs), and the reversal of its rows (src/src/stream.rs).   *)
(*                                                                         *)
(* Between open and that SELECT other clients insert rows, or drop the     *)
(* table and create it anew with another key. A row is the tuple of its    *)
(* column values. A key is a sequence of expressions, an expression a      *)
(* column or a call with columns for arguments; what the code handles is   *)
(* their text, of which only the commas matter here.                       *)
(***************************************************************************)
EXTENDS Integers, Sequences, SequencesExt, FiniteSets

CONSTANTS
  Vals,      \* values of a column
  Schemas,   \* [width, primary_key, sorting_key] of the tables that may exist
  MaxRows,   \* rows of a table (bound of the model)
  TailRows   \* TailConfig.rows

Col(i)     == [call |-> FALSE, args |-> <<i>>]
Call(cols) == [call |-> TRUE, args |-> cols]
Tuple      == <<Call(<<>>)>>   \* the expression tuple()

ASSUME TailAssumption ==
  /\ Vals \subseteq Nat /\ MaxRows \in Nat /\ TailRows \in Nat \ {0}
  /\ \A s \in Schemas :
       /\ s.width \in Nat \ {0}
       /\ \A key \in {s.primary_key, s.sorting_key} :
            key \in Seq([call : BOOLEAN, args : Seq(1..s.width)])

Whole      == -1        \* all.tsv instead of one partition
Header     == <<-1>>    \* the line of column names
Blank      == <<>>      \* an empty line

VARIABLES
  schema, rows,     \* the table
  file,             \* "closed", "open", "served", "failed": the file and its buffer
  partition,        \* TailContext.partition
  order_expr,       \* TailContext.order_expr
  stale,            \* history: order_expr is not from this table
  refused,          \* history: the server was down for the tail SELECT
  seen, tail_buf    \* rows the SELECT saw; lines of the buffer

tailCtx == <<partition, order_expr>>
vars == <<schema, rows, file, tailCtx, stale, refused, seen, tail_buf>>

Part(row) == row[1]
Selected(S, part) == {r \in S : part = Whole \/ Part(r) = part}

\* A row of one empty string is an empty line.
Line(row) == IF row = <<0>> THEN Blank ELSE row

-----------------------------------------------------------------------------
(* Building the statement.                                                  *)

\* Mutant: a failed lookup leaves ORDER BY empty.
fetch_tail_order_expr_empty(answered) ==
  IF ~answered THEN <<>>
  ELSE IF schema.primary_key # <<>> THEN schema.primary_key
  ELSE IF schema.sorting_key # <<>> THEN schema.sorting_key ELSE Tuple

\* The key of the table, tuple() if it has none, if the query failed or if its
\* answer could not be parsed.
fetch_tail_order_expr(answered) ==
  IF answered /\ schema.primary_key # <<>> THEN schema.primary_key
  ELSE IF answered /\ schema.sorting_key # <<>> THEN schema.sorting_key
  ELSE Tuple

\* Splitting the text at commas cuts a call with several arguments into
\* fragments, none of which is an expression; one of them stands for all.
Fragment == [call |-> TRUE, args |-> <<0>>]
Split(expr) ==
  [i \in 1..Len(expr) |-> IF Len(expr[i].args) < 2 THEN expr[i] ELSE Fragment]

\* Mutant: DESC after the last column only.
OrderByLast(expr) ==
  [i \in 1..Len(expr) |-> [expr |-> expr[i], desc |-> i = Len(expr)]]

OrderBy(expr) ==
  LET pieces == Split(expr)
  IN  [i \in 1..Len(pieces) |-> [expr |-> pieces[i], desc |-> TRUE]]

\* Mutant: without the partition.
sql_select_tail_all == [part |-> Whole, order |-> OrderBy(order_expr), limit |-> TailRows]

sql_select_tail == [part |-> partition, order |-> OrderBy(order_expr), limit |-> TailRows]

-----------------------------------------------------------------------------
(* The server (external): ORDER BY ... LIMIT over the table as it is now.   *)
Value(e, row) ==
  CASE ~e.call -> row[e.args[1]]
    [] e.call /\ Len(e.args) = 0 -> 0
    [] e.call /\ Len(e.args) = 1 -> 0 - row[e.args[1]]
    [] OTHER -> 2 * row[e.args[2]] - row[e.args[1]]

Less(e, r, s) == Value(e, r) < Value(e, s)

\* r comes before s.
Before(order, r, s) ==
  \E i \in 1..Len(order) :
    /\ \A j \in 1..(i - 1) : Value(order[j].expr, r) = Value(order[j].expr, s)
    /\ IF order[i].desc THEN Less(order[i].expr, s, r) ELSE Less(order[i].expr, r, s)

Accepted(stmt) ==
  /\ stmt.order # <<>>
  /\ \A i \in 1..Len(stmt.order) :
       \A j \in 1..Len(stmt.order[i].expr.args) : stmt.order[i].expr.args[j] \in 1..schema.width

\* Sequences of n of the given rows, in order, with nothing left out that would
\* come before one of them. Ties are broken in any way.
FirstRows(S, n, order) ==
  LET k == IF n < Cardinality(S) THEN n ELSE Cardinality(S)
  IN  {s \in [1..k -> S] :
         /\ \A i, j \in 1..k : i < j => s[i] # s[j] /\ ~Before(order, s[j], s[i])
         /\ \A r \in S : (\A i \in 1..k : s[i] # r) => \A i \in 1..k : ~Before(order, r, s[i])}

\* TabSeparatedWithNames, as the lines split('\n') makes of it.
Body(s) == <<Header>> \o [i \in 1..Len(s) |-> Line(s[i])] \o <<Blank>>

-----------------------------------------------------------------------------
(* reverse_tsv_rows.                                                        *)

\* Mutant: the body is trimmed before it is split.
reverse_tsv_rows_trimmed(lines) ==
  LET data == SelectSeq(lines, LAMBDA l : l # Blank)
  IN  <<Head(data)>> \o Reverse(Tail(data)) \o <<Blank>>

reverse_tsv_rows(lines) ==
  LET trailing_empty == Last(lines) = Blank
      data == IF trailing_empty THEN Front(lines) ELSE lines
  IN  IF Len(data) <= 1 THEN lines
      ELSE <<Head(data)>> \o Reverse(Tail(data)) \o (IF trailing_empty THEN <<Blank>> ELSE <<>>)

-----------------------------------------------------------------------------
NoCtx == partition = Whole /\ order_expr = Tuple

Rows(s) == [1..s.width -> Vals]

Init ==
  /\ schema \in Schemas
  /\ rows \in {{}} \cup {{r} : r \in Rows(schema)}
  /\ file = "closed" /\ NoCtx
  /\ stale = FALSE /\ refused = FALSE
  /\ seen = {} /\ tail_buf = <<>>

\* Other clients (external).
InsertRow(r) ==
  /\ r \in Rows(schema) \ rows /\ Cardinality(rows) < MaxRows
  /\ rows' = rows \cup {r}
  /\ UNCHANGED <<schema, file, tailCtx, stale, refused, seen, tail_buf>>

Recreate(s) ==
  /\ s # schema
  /\ schema' = s /\ rows' = {}
  /\ stale' = (file # "closed")
  /\ UNCHANGED <<file, tailCtx, refused, seen, tail_buf>>

\* open of `all.tsv` or of a partition, in tail mode.
Open(part, answered) ==
  /\ file = "closed"
  /\ file' = "open"
  /\ partition' = part
  /\ order_expr' = fetch_tail_order_expr(answered)
  /\ stale' = ~answered
  /\ UNCHANGED <<schema, rows, refused, seen, tail_buf>>

\* materialize_tail: one attempt per handle.
Materialize ==
  /\ file = "open"
  /\ Accepted(sql_select_tail)
  /\ file' = "served"
  /\ seen' = rows
  /\ \E s \in FirstRows(Selected(rows, sql_select_tail.part), TailRows, sql_select_tail.order) :
       tail_buf' = reverse_tsv_rows(Body(s))
  /\ UNCHANGED <<schema, rows, tailCtx, stale, refused>>

MaterializeFails ==
  /\ file = "open"
  /\ file' = "failed"
  /\ \/ refused' = TRUE
     \/ ~Accepted(sql_select_tail) /\ UNCHANGED refused
  /\ UNCHANGED <<schema, rows, tailCtx, stale, seen, tail_buf>>

Close ==
  /\ file # "closed"
  /\ file' = "closed" /\ partition' = Whole /\ order_expr' = Tuple
  /\ stale' = FALSE /\ refused' = FALSE
  /\ seen' = {} /\ tail_buf' = <<>>
  /\ UNCHANGED <<schema, rows>>

Next ==
  \/ \E r \in Rows(schema) : InsertRow(r)
  \/ \E s \in Schemas : Recreate(s)
  \/ \E part \in Vals \cup {Whole}, answered \in BOOLEAN : Open(part, answered)
  \/ Materialize \/ MaterializeFails \/ Close

Spec == Init /\ [][Next]_vars

-----------------------------------------------------------------------------
\* The buffer is the header, then as many different rows of the file as the
\* limit allows, each once, then a final newline: whatever the key, the
\* statement and the reversal did, no row is cut, repeated or of another
\* partition, and the header stays in front.
BufferIsRows ==
  file = "served" =>
    LET S == Selected(seen, partition)
        n == Len(tail_buf) - 2
    IN  /\ tail_buf[1] = Header /\ tail_buf[n + 2] = Blank
        /\ n = IF TailRows < Cardinality(S) THEN TailRows ELSE Cardinality(S)
        /\ \A i \in 1..n : \E r \in S : tail_buf[i + 1] = Line(r)
        /\ \A i, j \in 1..n : i # j => tail_buf[i + 1] # tail_buf[j + 1]

\* The sort key of the table, ascending.
TableKey ==
  LET key == IF schema.primary_key # <<>> THEN schema.primary_key ELSE schema.sorting_key
  IN  [i \in 1..Len(key) |-> [expr |-> key[i], desc |-> FALSE]]

\* "show me the latest N rows" (README.md:161), oldest first: the rows of the
\* buffer ascend in the key of the table, and no row left out comes after one
\* of them. True unless the key asked for at open is not the table's: the
\* lookup had failed, or the table was replaced since.
LatestRows ==
  file = "served" /\ ~stale =>
    LET S == Selected(seen, partition)
        n == Len(tail_buf) - 2
        At(i) == CHOOSE r \in S : Line(r) = tail_buf[i + 1]
    IN  /\ \A i, j \in 1..n : i < j => ~Before(TableKey, At(j), At(i))
        /\ \A r \in S : (\A i \in 1..n : At(i) # r) => \A i \in 1..n : ~Before(TableKey, At(i), r)

\* The tail of a table can be read whenever the server answers, also when the
\* lookup of its key at open had failed (tuple() names no column). The server
\* refuses a key with a call of several arguments, such as cityHash64(a, b),
\* which the statement cuts at the comma, and may refuse one that names the
\* columns of a table replaced since.
KeysMaterialize ==
  file = "failed" /\ ~refused =>
    \E i \in 1..Len(order_expr) :
      \/ Len(order_expr[i].args) > 1
      \/ stale /\ order_expr[i].args # <<>>

=============================================================================
