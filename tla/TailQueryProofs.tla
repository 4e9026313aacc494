-------------------------- MODULE TailQueryProofs --------------------------
(***************************************************************************)
(* Proofs about the tail buffer: whole rows under one header, the latest   *)
(* of the table by its key, for every table, key, limit and partition.     *)
(***************************************************************************)
EXTENDS TailQuery, SequenceTheorems, FiniteSetTheorems, TLAPS

USE DEF tailCtx

\* The key of the table as open asks for it, when its query is answered.
KeyKept == file # "closed" /\ ~stale => order_expr = fetch_tail_order_expr(TRUE)

\* The rows of the table are finitely many, and shaped by it.
Types ==
  /\ schema \in Schemas /\ rows \subseteq Rows(schema) /\ IsFiniteSet(rows)
  /\ file \in {"closed", "open", "served", "failed"}

\* What open asks for is a key of some table, whichever stands there now.
KeyShaped ==
  file # "closed" =>
    /\ order_expr # <<>>
    /\ \E s \in Schemas : order_expr \in Seq([call : BOOLEAN, args : Seq(1..s.width)])

TInv == Types /\ KeyKept /\ KeyShaped /\ BufferIsRows /\ LatestRows /\ KeysMaterialize

-----------------------------------------------------------------------------
(* Lines and their reversal.                                                *)

\* Different rows are different lines.
LEMMA LinesDiffer ==
  ASSUME NEW w \in Nat \ {0}, NEW r \in [1..w -> Vals], NEW q \in [1..w -> Vals], Line(r) = Line(q)
  PROVE  r = q
<1>1. 1 \in DOMAIN r /\ 1 \in DOMAIN q
  OBVIOUS
<1>2. r # <<>> /\ q # <<>>
  BY <1>1
<1> QED BY <1>2 DEF Line, Blank

\* The reversal keeps the header in front and the final newline at the end, and
\* turns the rows between them around.
LEMMA Reversed ==
  ASSUME NEW k \in Nat, NEW S, NEW s \in [1..k -> S]
  PROVE  LET buf == reverse_tsv_rows(Body(s))
         IN  /\ Len(buf) = k + 2 /\ buf[1] = Header /\ buf[k + 2] = Blank
             /\ \A i \in 1..k : buf[i + 1] = Line(s[k + 1 - i])
<1> DEFINE L == {Header, Blank} \cup {Line(s[i]) : i \in 1..k}
           body == [i \in 1..k |-> Line(s[i])]
           data == <<Header>> \o body
<1>1. Len(s) = k /\ body \in Seq(L) /\ Len(body) = k /\ <<Header>> \in Seq(L) /\ <<Blank>> \in Seq(L)
  OBVIOUS
<1>2. Body(s) = data \o <<Blank>>
  BY <1>1 DEF Body
<1>3. \A i \in 1..k : body[i] = Line(s[i])
  OBVIOUS
<1> HIDE DEF L, body
<1>4. /\ data \in Seq(L) /\ Len(data) = k + 1 /\ data[1] = Header
      /\ \A i \in 1..k : data[i + 1] = body[i]
  BY <1>1
<1> HIDE DEF data
<1>5. /\ Body(s) \in Seq(L) /\ Len(Body(s)) = k + 2 /\ Body(s)[k + 2] = Blank
      /\ \A i \in 1..(k + 1) : Body(s)[i] = data[i]
  BY <1>1, <1>2, <1>4
<1>6. Last(Body(s)) = Blank
  BY <1>5 DEF Last
<1>7. Front(Body(s)) = data
  <2>1. Front(Body(s)) = SubSeq(Body(s), 1, k + 1)
    BY <1>5 DEF Front
  <2>2. Front(Body(s)) \in Seq(L) /\ Len(Front(Body(s))) = k + 1
        /\ \A i \in 1..(k + 1) : Front(Body(s))[i] = data[i]
    BY <1>5, <2>1
  <2> QED BY <1>4, <2>2, SeqEqual
<1>8. reverse_tsv_rows(Body(s)) =
        IF k + 1 <= 1 THEN Body(s) ELSE <<Head(data)>> \o Reverse(Tail(data)) \o <<Blank>>
  BY <1>4, <1>6, <1>7 DEF reverse_tsv_rows
<1>9. CASE k = 0
  BY <1>4, <1>5, <1>8, <1>9
<1>10. CASE k > 0
  <2> DEFINE back == Reverse(Tail(data))
  <2>1. Head(data) = Header /\ Tail(data) \in Seq(L) /\ Len(Tail(data)) = k
        /\ \A i \in 1..k : Tail(data)[i] = body[i]
    BY <1>4, <1>10
  <2>2. back = [i \in 1..k |-> Tail(data)[(k - i) + 1]]
    <3>1. Len(Tail(data)) = k
      BY <2>1
    <3>2. Reverse(Tail(data)) = [i \in 1..Len(Tail(data)) |-> Tail(data)[(Len(Tail(data)) - i) + 1]]
      BY DEF Reverse
    <3> QED BY <3>1, <3>2, Zenon
  <2>3. back \in Seq(L) /\ Len(back) = k /\ \A i \in 1..k : back[i] = body[k + 1 - i]
    <3>1. \A i \in 1..k : (k - i) + 1 \in 1..k /\ (k - i) + 1 = k + 1 - i
      OBVIOUS
    <3>2. \A i \in 1..k : Tail(data)[(k - i) + 1] \in L
      BY <2>1, <3>1
    <3>3. back \in [1..k -> L] /\ \A i \in 1..k : back[i] = Tail(data)[(k - i) + 1]
      BY <2>2, <3>2
    <3> HIDE DEF back
    <3>4. back \in Seq(L) /\ Len(back) = k
      BY <3>3
    <3>5. \A i \in 1..k : back[i] = body[k + 1 - i]
      BY <2>1, <3>1, <3>3
    <3> QED BY <3>4, <3>5
  <2> HIDE DEF back
  <2>4. <<Header>> \o back \in Seq(L) /\ Len(<<Header>> \o back) = k + 1
        /\ (<<Header>> \o back)[1] = Header /\ \A i \in 1..k : (<<Header>> \o back)[i + 1] = back[i]
    BY <1>1, <2>3
  <2>5. reverse_tsv_rows(Body(s)) = (<<Header>> \o back) \o <<Blank>>
    <3>1. ~(k + 1 <= 1)
      BY <1>10
    <3>2. reverse_tsv_rows(Body(s)) = <<Head(data)>> \o back \o <<Blank>>
      BY <1>8, <3>1, Zenon DEF back
    <3> QED BY <2>1, <3>2, Zenon
  <2>6. \A i \in 1..k : k + 1 - i \in 1..k
    OBVIOUS
  <2> DEFINE buf == reverse_tsv_rows(Body(s))
  <2>7. /\ Len(buf) = k + 2 /\ buf[k + 2] = Blank
        /\ \A i \in 1..(k + 1) : buf[i] = (<<Header>> \o back)[i]
    <3> DEFINE front == <<Header>> \o back
    <3>1. front \in Seq(L) /\ Len(front) = k + 1 /\ buf = front \o <<Blank>>
      BY <2>4, <2>5
    <3> HIDE DEF front, buf
    <3>2. Len(buf) = k + 2 /\ buf[k + 2] = Blank /\ \A i \in 1..(k + 1) : buf[i] = front[i]
      BY <1>1, <3>1
    <3> QED BY <3>2 DEF front
  <2> HIDE DEF buf
  <2>8. buf[1] = Header
    BY <2>4, <2>7
  <2>9. ASSUME NEW i \in 1..k PROVE buf[i + 1] = Line(s[k + 1 - i])
    <3>1. i + 1 \in 1..(k + 1)
      OBVIOUS
    <3>2. buf[i + 1] = back[i]
      BY <2>4, <2>7, <3>1
    <3> QED BY <1>3, <2>3, <2>6, <3>2
  <2> QED BY <2>7, <2>8, <2>9 DEF buf
<1> QED BY <1>9, <1>10

-----------------------------------------------------------------------------
(* Keys and statements.                                                     *)

\* The key open asks for is one of expressions, and not empty.
LEMMA KeyType ==
  ASSUME schema \in Schemas, NEW answered \in BOOLEAN
  PROVE  /\ fetch_tail_order_expr(answered) \in Seq([call : BOOLEAN, args : Seq(1..schema.width)])
         /\ fetch_tail_order_expr(answered) # <<>>
<1>1. /\ schema.primary_key \in Seq([call : BOOLEAN, args : Seq(1..schema.width)])
      /\ schema.sorting_key \in Seq([call : BOOLEAN, args : Seq(1..schema.width)])
  BY TailAssumption
<1>2. Call(<<>>) \in [call : BOOLEAN, args : Seq(1..schema.width)]
  BY DEF Call
<1>3. Tuple \in Seq([call : BOOLEAN, args : Seq(1..schema.width)]) /\ Tuple # <<>>
  BY <1>2 DEF Tuple
<1> QED BY <1>1, <1>3 DEF fetch_tail_order_expr

\* The expressions of a key have arguments that can be counted.
LEMMA Arguments ==
  ASSUME NEW A, NEW expr \in Seq([call : BOOLEAN, args : Seq(A)])
  PROVE  Len(expr) \in Nat /\ \A i \in 1..Len(expr) : expr[i].args \in Seq(A) /\ Len(expr[i].args) \in Nat
<1>1. Len(expr) \in Nat
  BY LenProperties
<1>2. \A i \in 1..Len(expr) : expr[i] \in [call : BOOLEAN, args : Seq(A)]
  BY ElementOfSeq
<1>3. \A a \in Seq(A) : Len(a) \in Nat
  BY LenProperties
<1> QED BY <1>1, <1>2, <1>3

\* The pieces between the commas: as many as expressions, all of them descending.
LEMMA Pieces ==
  ASSUME NEW A, NEW expr \in Seq([call : BOOLEAN, args : Seq(A)])
  PROVE  /\ Len(OrderBy(expr)) = Len(expr)
         /\ \A i \in 1..Len(expr) :
              /\ OrderBy(expr)[i].desc = TRUE
              /\ Len(expr[i].args) < 2  => OrderBy(expr)[i].expr = expr[i]
              /\ Len(expr[i].args) >= 2 => OrderBy(expr)[i].expr = Fragment
<1>1. Len(expr) \in Nat /\ \A i \in 1..Len(expr) : Len(expr[i].args) \in Nat
  BY Arguments
<1> DEFINE pieces == Split(expr)
<1>2. pieces = [i \in 1..Len(expr) |-> IF Len(expr[i].args) < 2 THEN expr[i] ELSE Fragment]
  BY Zenon DEF Split
<1>3. /\ DOMAIN pieces = 1..Len(expr)
      /\ \A i \in 1..Len(expr) : pieces[i] = IF Len(expr[i].args) < 2 THEN expr[i] ELSE Fragment
  BY <1>2, Zenon
<1> HIDE DEF pieces
<1>4. Len(pieces) = Len(expr)
  BY <1>1, <1>2
<1>5. OrderBy(expr) = [i \in 1..Len(expr) |-> [expr |-> pieces[i], desc |-> TRUE]]
  BY <1>4, Zenon DEF OrderBy, pieces
<1>6. Len(OrderBy(expr)) = Len(expr)
  BY <1>1, <1>5
<1>7. \A i \in 1..Len(expr) : OrderBy(expr)[i] = [expr |-> pieces[i], desc |-> TRUE]
  BY <1>5
<1>8. ASSUME NEW i \in 1..Len(expr)
      PROVE  /\ OrderBy(expr)[i].desc = TRUE
             /\ Len(expr[i].args) < 2  => OrderBy(expr)[i].expr = expr[i]
             /\ Len(expr[i].args) >= 2 => OrderBy(expr)[i].expr = Fragment
  <2>1. OrderBy(expr)[i].desc = TRUE /\ OrderBy(expr)[i].expr = pieces[i]
    <3>1. OrderBy(expr)[i] = [expr |-> pieces[i], desc |-> TRUE]
      BY <1>7
    <3>2. \A e : [expr |-> e, desc |-> TRUE].expr = e /\ [expr |-> e, desc |-> TRUE].desc = TRUE
      OBVIOUS
    <3> QED BY <3>1, <3>2, Zenon
  <2>2. Len(expr[i].args) \in Nat
    BY <1>1
  <2>3. Len(expr[i].args) >= 2 => ~(Len(expr[i].args) < 2)
    BY <2>2
  <2> QED BY <1>3, <2>1, <2>3, Zenon
<1> QED BY <1>6, <1>8, Zenon

\* A statement the server accepts holds no fragment.
LEMMA AcceptedIsWhole ==
  ASSUME NEW A, order_expr \in Seq([call : BOOLEAN, args : Seq(A)]), Accepted(sql_select_tail)
  PROVE  \A i \in 1..Len(order_expr) : OrderBy(order_expr)[i].expr = order_expr[i]
<1>1. SUFFICES ASSUME NEW i \in 1..Len(order_expr), OrderBy(order_expr)[i].expr = Fragment PROVE FALSE
  <2>1. \A i \in 1..Len(order_expr) : Len(order_expr[i].args) \in Nat
    BY Arguments
  <2> DEFINE Piece(e, i) == /\ OrderBy(e)[i].desc = TRUE
                            /\ Len(e[i].args) < 2  => OrderBy(e)[i].expr = e[i]
                            /\ Len(e[i].args) >= 2 => OrderBy(e)[i].expr = Fragment
  <2>2. \A e \in Seq([call : BOOLEAN, args : Seq(A)]) : \A i \in 1..Len(e) : Piece(e, i)
    BY Pieces, Zenon
  <2> HIDE DEF Piece
  <2>3. \A i \in 1..Len(order_expr) : Piece(order_expr, i)
    BY <2>2, Zenon
  <2>4. \A i \in 1..Len(order_expr) :
          /\ Len(order_expr[i].args) < 2  => OrderBy(order_expr)[i].expr = order_expr[i]
          /\ Len(order_expr[i].args) >= 2 => OrderBy(order_expr)[i].expr = Fragment
    BY <2>3, Zenon DEF Piece
  <2>5. \A n \in Nat : n < 2 \/ n >= 2
    OBVIOUS
  <2> QED BY <2>1, <2>4, <2>5, Zenon
<1>2. /\ Len(OrderBy(order_expr)) = Len(order_expr)
      /\ \A n \in 1..Len(OrderBy(order_expr)) : \A j \in 1..Len(OrderBy(order_expr)[n].expr.args) :
           OrderBy(order_expr)[n].expr.args[j] \in 1..schema.width
  BY Pieces DEF Accepted, sql_select_tail
<1>3. Len(Fragment.args) = 1 /\ Fragment.args[1] = 0 /\ 1 \in 1..1
  BY DEF Fragment
<1>4. 0 \in 1..schema.width
  BY <1>1, <1>2, <1>3
<1> QED BY <1>4

\* The statement sorts by the key of the table, the other way around.
LEMMA Descends ==
  ASSUME schema \in Schemas, order_expr = fetch_tail_order_expr(TRUE), Accepted(sql_select_tail),
         NEW r, NEW q, Before(TableKey, r, q)
  PROVE  Before(OrderBy(order_expr), q, r)
<1> DEFINE key == IF schema.primary_key # <<>> THEN schema.primary_key ELSE schema.sorting_key
<1>1. key \in Seq([call : BOOLEAN, args : Seq(1..schema.width)]) /\ Len(key) \in Nat
  BY TailAssumption
<1>2. TableKey = [i \in 1..Len(key) |-> [expr |-> key[i], desc |-> FALSE]]
  BY DEF TableKey
<1>3. key # <<>> => order_expr = key
  BY DEF fetch_tail_order_expr
<1> HIDE DEF key
<1>4. /\ Len(TableKey) = Len(key)
      /\ \A i \in 1..Len(key) : TableKey[i].expr = key[i] /\ TableKey[i].desc = FALSE
  BY <1>1, <1>2
<1>5. PICK i \in 1..Len(key) :
        /\ \A j \in 1..(i - 1) : Value(TableKey[j].expr, r) = Value(TableKey[j].expr, q)
        /\ Less(key[i], r, q)
  BY <1>4 DEF Before
<1>6. key # <<>>
  BY <1>1, <1>5
<1>7. /\ Len(OrderBy(key)) = Len(key)
      /\ \A n \in 1..Len(key) : OrderBy(key)[n].desc = TRUE /\ OrderBy(key)[n].expr = key[n]
  BY <1>1, <1>3, <1>6, Pieces, AcceptedIsWhole
<1>8. \A j \in 1..(i - 1) : Value(OrderBy(key)[j].expr, q) = Value(OrderBy(key)[j].expr, r)
  <2>1. \A j \in 1..(i - 1) : j \in 1..Len(key)
    BY <1>1, <1>5
  <2> QED BY <1>4, <1>5, <1>7, <2>1
<1>9. Before(OrderBy(key), q, r)
  BY <1>5, <1>7, <1>8 DEF Before
<1> QED BY <1>3, <1>6, <1>9

-----------------------------------------------------------------------------
(* The steps.                                                               *)

\* A SELECT that the server answers: whole rows, and the latest of them.
LEMMA ServedStep == ASSUME TInv, Materialize PROVE BufferIsRows' /\ LatestRows'
<1> DEFINE S == Selected(rows, partition)
           k == IF TailRows < Cardinality(S) THEN TailRows ELSE Cardinality(S)
           order == OrderBy(order_expr)
<1>1. /\ file = "open" /\ Accepted(sql_select_tail) /\ seen' = rows
      /\ UNCHANGED <<schema, rows, partition, order_expr, stale>>
  BY DEF Materialize
<1>2. PICK s \in FirstRows(S, TailRows, order) : tail_buf' = reverse_tsv_rows(Body(s))
  BY DEF Materialize, sql_select_tail
<1>3. k \in Nat
  <2>1. IsFiniteSet(S)
    BY FS_Subset DEF TInv, Types, Selected
  <2>2. Cardinality(S) \in Nat /\ TailRows \in Nat
    BY <2>1, FS_CardinalityType, TailAssumption
  <2> QED BY <2>2
<1>4. /\ s \in [1..k -> S]
      /\ \A i, j \in 1..k : i < j => s[i] # s[j] /\ ~Before(order, s[j], s[i])
      /\ \A r \in S : (\A i \in 1..k : s[i] # r) => \A i \in 1..k : ~Before(order, r, s[i])
  BY <1>2 DEF FirstRows
<1>5. S' = S /\ \A r \in S : r \in Rows(schema)
  BY <1>1 DEF TInv, Types, Selected
<1>6. \A r, q \in S : Line(r) = Line(q) => r = q
  <2>1. schema.width \in Nat \ {0}
    BY TailAssumption DEF TInv, Types
  <2> QED BY <1>5, <2>1, LinesDiffer DEF Rows
<1>7. Selected(seen', partition') = S
  BY <1>1
<1> HIDE DEF S, k, order
<1>8. /\ Len(tail_buf') = k + 2 /\ tail_buf'[1] = Header /\ tail_buf'[k + 2] = Blank
      /\ \A i \in 1..k : tail_buf'[i + 1] = Line(s[k + 1 - i])
  BY <1>2, <1>3, <1>4, Reversed
<1>9. (Len(tail_buf') - 2) = k
  BY <1>3, <1>8
<1>10. ASSUME NEW i \in 1..k PROVE k + 1 - i \in 1..k /\ s[k + 1 - i] \in S
  <2>1. k + 1 - i \in 1..k
    BY <1>3
  <2> QED BY <1>4, <2>1
<1>11. ASSUME NEW i \in 1..k, NEW j \in 1..k, i # j PROVE s[i] # s[j]
  <2>1. i < j \/ j < i
    BY <1>3, <1>11
  <2> QED BY <1>4, <2>1
<1>12. BufferIsRows'
  <2>1. ASSUME NEW i \in 1..k PROVE \E r \in S : tail_buf'[i + 1] = Line(r)
    BY <1>8, <1>10
  <2>2. ASSUME NEW i \in 1..k, NEW j \in 1..k, i # j PROVE tail_buf'[i + 1] # tail_buf'[j + 1]
    <3>1. k + 1 - i # k + 1 - j
      BY <1>3, <2>2
    <3>2. s[k + 1 - i] # s[k + 1 - j]
      BY <1>10, <1>11, <3>1
    <3>3. Line(s[k + 1 - i]) # Line(s[k + 1 - j])
      BY <1>6, <1>10, <3>2
    <3> QED BY <1>8, <3>3
  <2>3. k = IF TailRows < Cardinality(S) THEN TailRows ELSE Cardinality(S)
    BY DEF k
  <2> QED BY <1>7, <1>8, <1>9, <2>1, <2>2, <2>3 DEF BufferIsRows
<1>13. LatestRows'
  <2> SUFFICES ASSUME ~stale' PROVE LatestRows'
    BY DEF LatestRows
  <2> DEFINE At(i) == CHOOSE r \in Selected(seen', partition') : Line(r) = tail_buf'[i + 1]
  <2>1. schema \in Schemas /\ order_expr = fetch_tail_order_expr(TRUE)
    BY <1>1 DEF TInv, Types, KeyKept
  <2>2. \A r, q : Before(TableKey, r, q) => Before(order, q, r)
    BY <1>1, <2>1, Descends DEF order
  <2>3. ASSUME NEW i \in 1..k PROVE At(i) = s[k + 1 - i]
    BY <1>6, <1>7, <1>8, <1>10
  <2> HIDE DEF At
  <2>4. ASSUME NEW i \in 1..k, NEW j \in 1..k, i < j PROVE ~Before(TableKey, At(j), At(i))
    <3>1. k + 1 - j < k + 1 - i
      BY <1>3, <2>4
    <3>2. ~Before(order, s[k + 1 - i], s[k + 1 - j])
      BY <1>4, <1>10, <3>1
    <3> QED BY <2>2, <2>3, <3>2
  <2>5. ASSUME NEW r \in S, \A i \in 1..k : At(i) # r, NEW i \in 1..k
        PROVE  ~Before(TableKey, At(i), r)
    <3>1. ASSUME NEW j \in 1..k PROVE s[j] # r
      <4>1. k + 1 - j \in 1..k /\ k + 1 - (k + 1 - j) = j
        BY <1>3
      <4>2. At(k + 1 - j) = s[j]
        BY <2>3, <4>1
      <4> QED BY <2>5, <4>1, <4>2
    <3>2. ~Before(order, r, s[k + 1 - i])
      BY <1>4, <1>10, <3>1
    <3> QED BY <2>2, <2>3, <3>2
  <2>6. TableKey' = TableKey
    BY <1>1 DEF TableKey
  <2>7. \A i, j \in 1..(Len(tail_buf') - 2) : i < j => ~Before(TableKey', At(j), At(i))
    BY <1>9, <2>4, <2>6
  <2>8. \A r \in Selected(seen', partition') : (\A i \in 1..(Len(tail_buf') - 2) : At(i) # r) =>
          \A i \in 1..(Len(tail_buf') - 2) : ~Before(TableKey', At(i), r)
    BY <1>7, <1>9, <2>5, <2>6
  <2> QED BY <2>7, <2>8, Zenon DEF LatestRows, At
<1> QED BY <1>12, <1>13

\* A SELECT that the server refuses, or that does not reach it.
LEMMA FailedStep == ASSUME TInv, MaterializeFails PROVE KeysMaterialize'
<1>1. /\ UNCHANGED <<schema, order_expr, stale>> /\ file = "open"
      /\ refused' = TRUE \/ ~Accepted(sql_select_tail)
  BY DEF MaterializeFails
<1>2. SUFFICES ASSUME ~Accepted(sql_select_tail),
                      \A i \in 1..Len(order_expr) :
                        ~(Len(order_expr[i].args) > 1) /\ ~(stale /\ order_expr[i].args # <<>>)
               PROVE  FALSE
  BY <1>1 DEF KeysMaterialize
<1>3. PICK t \in Schemas :
        /\ order_expr \in Seq([call : BOOLEAN, args : Seq(1..t.width)])
        /\ order_expr # <<>>
  BY <1>1 DEF TInv, KeyShaped
<1>4. \A i \in 1..Len(order_expr) :
        order_expr[i].args \in Seq(1..t.width) /\ Len(order_expr[i].args) < 2
  <2>1. \A i \in 1..Len(order_expr) :
          order_expr[i].args \in Seq(1..t.width) /\ Len(order_expr[i].args) \in Nat
    BY <1>3, Arguments
  <2>2. \A n \in Nat : ~(n > 1) => n < 2
    OBVIOUS
  <2> QED BY <1>2, <2>1, <2>2
<1>5. \A i \in 1..Len(order_expr) :
        \A j \in 1..Len(order_expr[i].args) : order_expr[i].args[j] \in 1..schema.width
  <2>1. CASE stale
    <3>1. \A i \in 1..Len(order_expr) : order_expr[i].args = <<>>
      BY <1>2, <2>1
    <3> QED BY <3>1
  <2>2. CASE ~stale
    <3>1. order_expr \in Seq([call : BOOLEAN, args : Seq(1..schema.width)])
      BY <1>1, <2>2, KeyType DEF TInv, Types, KeyKept
    <3>2. \A i \in 1..Len(order_expr) : order_expr[i].args \in Seq(1..schema.width)
      BY <3>1, Arguments
    <3> QED BY <3>2, ElementOfSeq
  <2> QED BY <2>1, <2>2
<1>6. /\ Len(OrderBy(order_expr)) = Len(order_expr) /\ Len(order_expr) > 0
      /\ \A i \in 1..Len(order_expr) : OrderBy(order_expr)[i].expr = order_expr[i]
  <2>1. Len(order_expr) > 0
    BY <1>3
  <2> QED BY <1>3, <1>4, <2>1, Pieces
<1>7. OrderBy(order_expr) # <<>>
  BY <1>6
<1>8. Accepted(sql_select_tail)
  BY <1>5, <1>6, <1>7 DEF Accepted, sql_select_tail
<1> QED BY <1>2, <1>8

\* The table and the file in any order.
LEMMA TInit == Init => TInv
<1> SUFFICES ASSUME Init PROVE TInv
  OBVIOUS
<1>1. rows \subseteq Rows(schema) /\ IsFiniteSet(rows)
  BY FS_EmptySet, FS_Singleton DEF Init
<1> QED BY <1>1 DEF Init, TInv, Types, KeyKept, KeyShaped, BufferIsRows, LatestRows, KeysMaterialize

\* Other clients, open, the tail SELECT and close keep the invariant.
LEMMA TStep == TInv /\ [Next]_vars => TInv'
<1> SUFFICES ASSUME TInv, [Next]_vars PROVE TInv'
  OBVIOUS
<1>1. CASE Materialize
  <2>1. /\ file' = "served" /\ UNCHANGED <<schema, rows, partition, order_expr, stale>>
        /\ file = "open"
    BY <1>1 DEF Materialize
  <2>2. Types' /\ KeyKept' /\ KeyShaped' /\ KeysMaterialize'
    BY <2>1 DEF TInv, Types, Rows, KeyKept, KeyShaped, fetch_tail_order_expr, KeysMaterialize
  <2> QED BY <1>1, <2>2, ServedStep DEF TInv
<1>2. CASE MaterializeFails
  <2>1. /\ file' = "failed" /\ UNCHANGED <<schema, rows, partition, order_expr, stale>>
        /\ file = "open"
    BY <1>2 DEF MaterializeFails
  <2>2. Types' /\ KeyKept' /\ KeyShaped' /\ BufferIsRows' /\ LatestRows'
    BY <2>1 DEF TInv, Types, Rows, KeyKept, KeyShaped, fetch_tail_order_expr, BufferIsRows,
                LatestRows
  <2> QED BY <1>2, <2>2, FailedStep DEF TInv
<1>3. CASE Close
  <2>1. file' = "closed" /\ UNCHANGED <<schema, rows>>
    BY <1>3 DEF Close
  <2> QED BY <2>1 DEF TInv, Types, Rows, KeyKept, KeyShaped, BufferIsRows, LatestRows, KeysMaterialize
<1>4. CASE \E part \in Vals \cup {Whole}, answered \in BOOLEAN : Open(part, answered)
  <2>1. PICK part \in Vals \cup {Whole}, answered \in BOOLEAN : Open(part, answered)
    BY <1>4
  <2>2. /\ file' = "open" /\ UNCHANGED <<schema, rows>>
        /\ order_expr' = fetch_tail_order_expr(answered) /\ stale' = ~answered
    BY <2>1 DEF Open
  <2>3. KeyKept'
    BY <2>2 DEF KeyKept, fetch_tail_order_expr
  <2>4. KeyShaped'
    BY <2>2, KeyType DEF TInv, Types, KeyShaped
  <2> QED BY <2>2, <2>3, <2>4 DEF TInv, Types, Rows, BufferIsRows, LatestRows, KeysMaterialize
<1>5. CASE \E r \in Rows(schema) : InsertRow(r)
  <2>1. PICK r \in Rows(schema) : InsertRow(r)
    BY <1>5
  <2>2. /\ rows' = rows \cup {r}
        /\ UNCHANGED <<schema, file, partition, order_expr, stale, refused, seen, tail_buf>>
    BY <2>1 DEF InsertRow
  <2>3. Types'
    BY <2>2, FS_AddElement DEF TInv, Types, Rows
  <2>4. TableKey' = TableKey
    BY <2>2 DEF TableKey
  <2>5. KeyKept' /\ KeyShaped' /\ KeysMaterialize'
    BY <2>2 DEF TInv, KeyKept, KeyShaped, fetch_tail_order_expr, KeysMaterialize
  <2>6. BufferIsRows' /\ LatestRows'
    BY <2>2, <2>4 DEF TInv, BufferIsRows, LatestRows
  <2> QED BY <2>3, <2>5, <2>6 DEF TInv
<1>6. CASE \E s \in Schemas : Recreate(s)
  <2>1. PICK s \in Schemas : Recreate(s)
    BY <1>6
  <2>2. /\ schema' = s /\ rows' = {} /\ stale' = (file # "closed")
        /\ UNCHANGED <<file, partition, order_expr, refused, seen, tail_buf>>
    BY <2>1 DEF Recreate
  <2>3. Types'
    BY <2>2, FS_EmptySet DEF TInv, Types
  <2>4. BufferIsRows'
    BY <2>2 DEF TInv, BufferIsRows
  <2>5. file' # "closed" => stale'
    BY <2>2
  <2>6. KeyKept' /\ LatestRows'
    BY <2>5 DEF KeyKept, LatestRows
  <2>7. KeyShaped'
    BY <2>2 DEF TInv, KeyShaped
  <2>8. KeysMaterialize'
    BY <2>2, <2>5 DEF TInv, KeysMaterialize
  <2> QED BY <2>3, <2>4, <2>6, <2>7, <2>8 DEF TInv
<1>7. CASE UNCHANGED vars
  <2>1. TableKey' = TableKey
    BY <1>7 DEF vars, TableKey
  <2>2. Types' /\ KeyKept' /\ KeyShaped' /\ KeysMaterialize'
    BY <1>7 DEF vars, TInv, Types, Rows, KeyKept, KeyShaped, fetch_tail_order_expr, KeysMaterialize
  <2>3. BufferIsRows' /\ LatestRows'
    BY <1>7, <2>1 DEF vars, TInv, BufferIsRows, LatestRows
  <2> QED BY <2>2, <2>3 DEF TInv
<1> QED BY <1>1, <1>2, <1>3, <1>4, <1>5, <1>6, <1>7 DEF Next

-----------------------------------------------------------------------------
\* The statement and the reversal neither cut, repeat nor lose a row: the buffer is
\* the header, as many different rows of the file as the limit allows, a newline.
THEOREM WholeRows == Spec => []BufferIsRows
<1>1. TInv => BufferIsRows
  BY DEF TInv
<1> QED BY <1>1, TInit, TStep, PTL DEF Spec

\* The buffer holds the latest rows in the key of the table, oldest first, unless
\* the key asked for at open is not the table's.
THEOREM RowsAreLatest == Spec => []LatestRows
<1>1. TInv => LatestRows
  BY DEF TInv
<1> QED BY <1>1, TInit, TStep, PTL DEF Spec

\* A key with a call of several arguments makes the server refuse the tail, or one
\* that names columns of a table replaced since; nothing else does.
THEOREM KeysAreAccepted == Spec => []KeysMaterialize
<1>1. TInv => KeysMaterialize
  BY DEF TInv
<1> QED BY <1>1, TInit, TStep, PTL DEF Spec
=============================================================================
