---------------------------- MODULE MCTailQuery -----------------------------
(* A small instance of TailQuery for TLC. *)
EXTENDS TailQuery

Table(width, primary, sorting) == [width |-> width, primary_key |-> primary, sorting_key |-> sorting]

\* A Log table; a sorting key without a primary key; a key of one call; a key of
\* two columns; one whose primary key is its first column; a call with two
\* arguments.
MCSchemas ==
  {Table(1, <<>>, <<>>),
   Table(1, <<>>, <<Col(1)>>),
   Table(1, <<Call(<<1>>)>>, <<Call(<<1>>)>>),
   Table(2, <<Col(2), Col(1)>>, <<Col(2), Col(1)>>),
   Table(2, <<Col(1)>>, <<Col(1), Col(2)>>),
   Table(2, <<Call(<<1, 2>>)>>, <<Call(<<1, 2>>)>>)}
=============================================================================
