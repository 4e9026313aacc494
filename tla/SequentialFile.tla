--------------------------- MODULE SequentialFile ---------------------------
(***************************************************************************)
(* What an open `.tsv` promises to the threads that read it, without the   *)
(* task, the channel and the lock of src/src/stream.rs: read_blocking as   *)
(* one step between a call and its return.                                 *)
(*                                                                         *)
(* The file is the bytes 1 .. total behind one cursor. A read at the       *)
(* cursor gets the next bytes, as many as it asked for unless the response *)
(* ended or broke; the error of a broken response is told once, after all  *)
(* bytes that came before it, and then the file has ended. A read          *)
(* elsewhere is refused, unless it falls into the window of the last rows, *)
(* which ends at PSEUDO_EOF.                                               *)
(***************************************************************************)
EXTENDS Integers, Sequences

CONSTANTS Readers, TailLens, PSEUDO_EOF, Offsets, Sizes

VARIABLES
  total,   \* length of the response
  status,  \* "producing", "complete" or "broken"
  told,    \* the error has been told
  cursor,  \* bytes returned so far
  window,  \* length of the tail buffer, or None
  open,    \* the file is open
  asked,   \* per thread: the read it is in, or NoReq
  reply    \* per thread: the last result

vars == <<total, status, told, cursor, window, open, asked, reply>>

None  == -1
NoReq == [off |-> 0, size |-> 0]

Init ==
  /\ total \in Nat
  /\ status = "producing" /\ told = FALSE
  /\ cursor = 0 /\ window = None /\ open = TRUE
  /\ asked = [r \in Readers |-> NoReq]
  /\ reply = [r \in Readers |-> [kind |-> "none", off |-> 0, bytes |-> <<>>]]

\* The response completes or breaks.
End ==
  /\ status = "producing"
  /\ status' \in {"complete", "broken"}
  /\ UNCHANGED <<total, told, cursor, window, open, asked, reply>>

Close ==
  /\ open /\ \A r \in Readers : asked[r] = NoReq
  /\ open' = FALSE
  /\ UNCHANGED <<total, status, told, cursor, window, asked, reply>>

Ask(r, off, size) ==
  /\ open /\ asked[r] = NoReq
  /\ asked' = [asked EXCEPT ![r] = [off |-> off, size |-> size]]
  /\ reply' = [reply EXCEPT ![r] = [kind |-> "none", off |-> off, bytes |-> <<>>]]
  /\ UNCHANGED <<total, status, told, cursor, window, open>>

\* The last rows are fetched, on behalf of some read.
Materialize ==
  /\ \E r \in Readers : asked[r] # NoReq
  /\ window' \in TailLens
  /\ UNCHANGED <<total, status, told, cursor, open, asked, reply>>

Return(r, kind, bytes) ==
  /\ asked[r] # NoReq
  /\ asked' = [asked EXCEPT ![r] = NoReq]
  /\ reply' = [reply EXCEPT ![r] = [kind |-> kind, off |-> asked[r].off, bytes |-> bytes]]
  /\ UNCHANGED <<total, status, window, open>>

\* How many bytes a read of `size` at the cursor may get: all it wants, the rest
\* of a complete response, what is left of a broken one, or nothing once the
\* error has been told.
Served(n, size) ==
  /\ n <= size /\ cursor + n <= total
  /\ \/ n = size /\ ~told
     \/ status = "complete" /\ cursor + n = total
     \/ status = "broken" /\ (n = 0 <=> told)

ReturnBytes(r) ==
  /\ asked[r].off = cursor
  /\ \E n \in 0..asked[r].size :
       /\ Served(n, asked[r].size)
       /\ cursor' = cursor + n
       /\ Return(r, "fwd", [i \in 1..n |-> cursor + i])
  /\ UNCHANGED told

ReturnError(r) ==
  /\ asked[r].off = cursor
  /\ status = "broken" /\ ~told
  /\ told' = TRUE
  /\ Return(r, "err", <<>>)
  /\ UNCHANGED cursor

InWindow(off) == window # None /\ off >= PSEUDO_EOF - window

\* A slice of the window; nothing at or after its end.
ReturnTail(r) ==
  LET off  == asked[r].off
      left == IF off < PSEUDO_EOF THEN PSEUDO_EOF - off ELSE 0
      take == IF asked[r].size < left THEN asked[r].size ELSE left
  IN  /\ off # cursor /\ InWindow(off)
      /\ Return(r, "tail", [i \in 1..take |-> off - (PSEUDO_EOF - window) + i])
      /\ UNCHANGED <<told, cursor>>

ReturnReadOrder(r) ==
  /\ asked[r].off # cursor /\ ~InWindow(asked[r].off)
  /\ Return(r, "order", <<>>)
  /\ UNCHANGED <<told, cursor>>

Next ==
  \/ End \/ Close \/ Materialize
  \/ \E r \in Readers, off \in Offsets, size \in Sizes : Ask(r, off, size)
  \/ \E r \in Readers : ReturnBytes(r) \/ ReturnError(r) \/ ReturnTail(r) \/ ReturnReadOrder(r)

Spec == Init /\ [][Next]_vars
=============================================================================
