---------------------------- MODULE StreamHandle ----------------------------
(***************************************************************************)
(* One open `.tsv` file of clickfs: src/src/stream.rs, with the parts of   *)
(* src/src/driver.rs and src/src/fs.rs that act on it.                     *)
(*                                                                         *)
(* Four parties interleave: the ClickHouse server that runs the SELECT,    *)
(* the tokio task spawned by StreamHandle::spawn that moves the response   *)
(* into a bounded channel, the threads inside read_blocking, and           *)
(* release/Drop, which cancels the task and sends KILL QUERY.              *)
(*                                                                         *)
(* A byte of the SELECT's response is its position 1, 2, ...; a channel    *)
(* item [kind, lo, hi] stands for the bytes lo+1 .. hi, or, with kind      *)
(* "err", for Err(QueryError).                                             *)
(***************************************************************************)
EXTENDS Integers, Sequences, FiniteSets

CONSTANTS
  Readers,     \* threads that may be inside read_blocking at once
  ChanCap,     \* capacity of the mpsc channel (8 in the code)
  WireCap,     \* bytes in flight on the HTTP connection (bound of the model)
  MaxBytes,    \* longest response of the SELECT (bound of the model)
  PSEUDO_EOF,  \* u64::MAX / 2 in the code
  TAIL_TRIGGER_GAP,  \* 32 MiB in the code
  HasTail,     \* self.tail.is_some()
  TailLens,    \* lengths the tail buffer may have once materialized
  Offsets,     \* offsets the kernel asks for
  Sizes        \* sizes the kernel asks for

None == -1     \* Option::None where the value is a length

ASSUME StreamAssumption ==
  /\ ChanCap \in Nat \ {0}
  /\ WireCap \in Nat \ {0}
  /\ MaxBytes \in Nat
  /\ PSEUDO_EOF \in Nat
  /\ TAIL_TRIGGER_GAP \in Nat
  /\ HasTail \in BOOLEAN
  /\ TailLens \subseteq Nat
  /\ Offsets \subseteq Nat
  /\ Sizes \subseteq Nat \ {0} /\ Sizes # {}
  /\ None \notin Readers

\* The response of the live stream never reaches the offsets where a tail
\* buffer is pinned: at most max_result_bytes against 2^63 - 1.
ASSUME PinnedAssumption ==
  \A n \in TailLens : MaxBytes + n < PSEUDO_EOF

VARIABLES
  total,   \* length of the SELECT's response, fixed for the handle
  srv,     \* the SELECT on the server
  avail,   \* bytes of the response the server has put on the wire
  taken,   \* bytes of the response the task has pulled off the wire
  task,    \* where the spawned task is
  hand,    \* the item the task is sending
  notified,  \* a Notified future of the task's select! has been woken
  chan,    \* items in the mpsc channel
  pending, pos, upstream_done, last_err, tail_buf, tail_attempted, \* Inner
  lock,    \* the thread holding Mutex<Inner>, or None
  pc, req, mat, reply,  \* per thread: step, arguments, materialized, result
  errTold, \* history: some read has returned the stream's error
  sqlTail, \* history: tail SELECTs issued
  handle,  \* lifetime of the StreamHandle
  kill     \* the detached KILL QUERY

srvVars   == <<srv, avail>>
taskVars  == <<taken, task, hand, notified>>
inner     == <<pending, pos, upstream_done, last_err>>
tailVars  == <<tail_buf, tail_attempted>>
readVars  == <<lock, pc, req, mat, reply, errTold, sqlTail>>
closeVars == <<handle, kill>>
vars == <<total, srvVars, taskVars, chan, inner, tailVars, readVars, closeVars>>

Byte   == Nat \ {0}
Item   == {it \in [kind : {"ok", "err"}, lo : Nat, hi : Nat] : it.lo <= it.hi}
NoItem == [kind |-> "ok", lo |-> 0, hi |-> 0]
Bytes(item) == [i \in 1..(item.hi - item.lo) |-> item.lo + i]

\* What read_blocking returns: nothing yet; Ok(bytes) of the live stream
\* ("fwd") or of the tail buffer ("tail"); ReadOrder; Query(e).
Reply == [kind : {"none", "fwd", "tail", "order", "err"},
          off : Nat, bytes : Seq(Byte)]

NoReq == [off |-> 0, size |-> 0]

rxOpen == handle # "dropped"   \* Inner.rx lives until the fields are dropped

-----------------------------------------------------------------------------
(* StreamHandle::spawn.                                                     *)
Init ==
  /\ total \in 0..MaxBytes
  /\ srv = "none" /\ avail = 0
  /\ taken = 0 /\ task = "connecting" /\ hand = NoItem /\ notified = FALSE
  /\ chan = <<>>
  /\ pending = <<>> /\ pos = 0 /\ upstream_done = FALSE /\ last_err = FALSE
  /\ tail_buf = None /\ tail_attempted = FALSE
  /\ lock = None
  /\ pc = [r \in Readers |-> "idle"]
  /\ req = [r \in Readers |-> NoReq]
  /\ mat = [r \in Readers |-> None]
  /\ reply = [r \in Readers |-> [kind |-> "none", off |-> 0, bytes |-> <<>>]]
  /\ errTold = FALSE /\ sqlTail = 0
  /\ handle = "open" /\ kill = "none"

-----------------------------------------------------------------------------
(* The server (external). It accepts the POST or refuses it, emits the      *)
(* response as far as the connection has room, completes it or fails, and   *)
(* aborts a query whose connection is gone.                                 *)
SrvAccept ==
  /\ srv = "none" /\ task = "connecting"
  /\ srv' = "running"
  /\ UNCHANGED <<total, avail, taskVars, chan, inner, tailVars, readVars, closeVars>>

SrvEmit ==
  /\ srv = "running" /\ avail < total /\ avail - taken < WireCap
  /\ avail' = avail + 1
  /\ UNCHANGED <<total, srv, taskVars, chan, inner, tailVars, readVars, closeVars>>

SrvFinish ==
  /\ srv = "running" /\ avail = total
  /\ srv' = "finished"
  /\ UNCHANGED <<total, avail, taskVars, chan, inner, tailVars, readVars, closeVars>>

SrvFail ==
  /\ srv \in {"none", "running"}
  /\ srv' = "failed"
  /\ UNCHANGED <<total, avail, taskVars, chan, inner, tailVars, readVars, closeVars>>

SrvAbort ==
  /\ srv = "running" /\ task = "done"
  /\ srv' = "aborted"
  /\ UNCHANGED <<total, avail, taskVars, chan, inner, tailVars, readVars, closeVars>>

-----------------------------------------------------------------------------
(* The spawned task. `cancel_task.notified()` is created anew each time the *)
(* loop enters select!, so `notified` is cleared there.                     *)
EnterSelect ==
  /\ task' = "select"
  /\ notified' = FALSE
  /\ hand' = NoItem

\* query_stream_with_id returned Ok(stream).
TaskConnected ==
  /\ task = "connecting"
  /\ srv \in {"running", "finished"}
  /\ EnterSelect
  /\ UNCHANGED <<total, srvVars, taken, chan, inner, tailVars, readVars, closeVars>>

\* query_stream_with_id returned Err(e), or the stream yielded Err(e).
TaskError ==
  /\ task \in {"connecting", "select"}
  /\ srv \in {"failed", "killed"}
  /\ task' = "sendErr"
  /\ hand' = [kind |-> "err", lo |-> taken, hi |-> taken]
  /\ UNCHANGED <<total, srvVars, taken, notified, chan, inner, tailVars, readVars, closeVars>>

\* stream.next() yielded Some(Ok(bytes)): all that is on the wire.
TaskChunk ==
  /\ task = "select" /\ avail > taken
  /\ task' = "send"
  /\ hand' = [kind |-> "ok", lo |-> taken, hi |-> avail]
  /\ taken' = avail
  /\ UNCHANGED <<total, srvVars, notified, chan, inner, tailVars, readVars, closeVars>>

\* stream.next() yielded None.
TaskEof ==
  /\ task = "select" /\ srv = "finished" /\ avail = taken
  /\ task' = "done"
  /\ UNCHANGED <<total, srvVars, taken, hand, notified, chan, inner, tailVars, readVars, closeVars>>

\* The cancel branch of select!.
TaskCancelled ==
  /\ task = "select" /\ notified
  /\ task' = "done"
  /\ UNCHANGED <<total, srvVars, taken, hand, notified, chan, inner, tailVars, readVars, closeVars>>

\* Mutant: an unbounded channel.
TaskSendUnbounded ==
  /\ task = "send" /\ rxOpen
  /\ chan' = Append(chan, hand)
  /\ EnterSelect
  /\ UNCHANGED <<total, srvVars, taken, inner, tailVars, readVars, closeVars>>

\* Mutant: try_send, which drops the chunk when the channel is full.
TaskSendTry ==
  /\ task = "send" /\ rxOpen
  /\ chan' = IF Len(chan) < ChanCap THEN Append(chan, hand) ELSE chan
  /\ EnterSelect
  /\ UNCHANGED <<total, srvVars, taken, inner, tailVars, readVars, closeVars>>

\* tx.send(Ok(bytes)).await: waits for room; Err once rx is gone.
TaskSend ==
  /\ task = "send" /\ rxOpen /\ Len(chan) < ChanCap
  /\ chan' = Append(chan, hand)
  /\ EnterSelect
  /\ UNCHANGED <<total, srvVars, taken, inner, tailVars, readVars, closeVars>>

\* Mutant: a failed send is retried.
TaskReaderGoneRetries == task = "send" /\ ~rxOpen /\ UNCHANGED vars

TaskReaderGone ==
  /\ task = "send" /\ ~rxOpen
  /\ task' = "done"
  /\ UNCHANGED <<total, srvVars, taken, hand, notified, chan, inner, tailVars, readVars, closeVars>>

\* `let _ = tx.send(Err(e)).await`, then the task ends either way.
TaskSendErr ==
  /\ task = "sendErr"
  /\ \/ /\ rxOpen /\ Len(chan) < ChanCap
        /\ chan' = Append(chan, hand)
     \/ /\ ~rxOpen
        /\ UNCHANGED chan
  /\ task' = "done"
  /\ UNCHANGED <<total, srvVars, taken, hand, notified, inner, tailVars, readVars, closeVars>>

-----------------------------------------------------------------------------
(* read_blocking. Its three critical sections are separate steps: the lock  *)
(* is free between them, and the tail SELECT runs outside the lock.         *)
Free == lock = None

Goto(r, step) == pc' = [pc EXCEPT ![r] = step]

Return(r, kind, bytes) ==
  /\ Goto(r, "idle")
  /\ reply' = [reply EXCEPT ![r] = [kind |-> kind, off |-> req[r].off, bytes |-> bytes]]
  /\ req' = [req EXCEPT ![r] = NoReq]

\* FUSE read on an open handle.
Read(r, off, size) ==
  /\ pc[r] = "idle" /\ handle = "open"
  /\ Goto(r, "check")
  /\ req' = [req EXCEPT ![r] = [off |-> off, size |-> size]]
  /\ reply' = [reply EXCEPT ![r] = [kind |-> "none", off |-> off, bytes |-> <<>>]]
  /\ UNCHANGED <<total, srvVars, taskVars, chan, inner, tailVars, lock, mat, errTold, sqlTail, closeVars>>

NeedMaterialize(off) ==
  /\ off # pos
  /\ ~tail_attempted
  /\ tail_buf = None
  /\ HasTail
  /\ off > pos + TAIL_TRIGGER_GAP

\* Step 1: decide under the lock, release it, start the tail SELECT.
Check(r) ==
  /\ pc[r] = "check" /\ Free
  /\ IF NeedMaterialize(req[r].off)
     THEN Goto(r, "fetch") /\ sqlTail' = sqlTail + 1
     ELSE Goto(r, "serve") /\ UNCHANGED sqlTail
  /\ UNCHANGED <<total, srvVars, taskVars, chan, inner, tailVars, lock, req, mat, reply, errTold, closeVars>>

\* materialize_tail: an answer of some length, or an error. Each SELECT sees
\* the table as it is then, so two answers may differ in length.
Fetch(r) ==
  /\ pc[r] = "fetch"
  /\ \E m \in TailLens \cup {None} : mat' = [mat EXCEPT ![r] = m]
  /\ Goto(r, "store")
  /\ UNCHANGED <<total, srvVars, taskVars, chan, inner, tailVars, lock, req, reply, errTold, sqlTail, closeVars>>

\* Mutant: a failed attempt is not remembered.
StoreSuccess(r) ==
  /\ pc[r] = "store" /\ Free
  /\ tail_attempted' = (tail_attempted \/ mat[r] # None)
  /\ tail_buf' = IF mat[r] # None THEN mat[r] ELSE tail_buf
  /\ mat' = [mat EXCEPT ![r] = None]
  /\ Goto(r, "serve")
  /\ UNCHANGED <<total, srvVars, taskVars, chan, inner, lock, req, reply, errTold, sqlTail, closeVars>>

\* tail_attempted is set here, under the lock, whatever the outcome.
Store(r) ==
  /\ pc[r] = "store" /\ Free
  /\ tail_attempted' = TRUE
  /\ tail_buf' = IF mat[r] # None THEN mat[r] ELSE tail_buf
  /\ mat' = [mat EXCEPT ![r] = None]
  /\ Goto(r, "serve")
  /\ UNCHANGED <<total, srvVars, taskVars, chan, inner, lock, req, reply, errTold, sqlTail, closeVars>>

\* Mutants: the buffer pinned one byte early; local offsets taken from its end.
BufOriginEarly == PSEUDO_EOF - tail_buf - 1
BufOrigin == IF tail_buf <= PSEUDO_EOF THEN PSEUDO_EOF - tail_buf ELSE 0
InBuffer(off) == tail_buf # None /\ off >= BufOrigin /\ off < PSEUDO_EOF
PastEof(off)  == tail_buf # None /\ off >= PSEUDO_EOF

TailSliceFromEnd(off, size) == [i \in 1..size |-> off - PSEUDO_EOF + i]

\* The bytes of the tail buffer a read at `off` gets, by position in it.
TailSlice(off, size) ==
  LET local == off - BufOrigin
      rest  == tail_buf - local
      take  == IF size < rest THEN size ELSE rest
  IN  [i \in 1..take |-> local + i]

TakesError(off) == off = pos /\ last_err

\* The checks at the head of the last critical section, in their order.
ServeError(r) ==
  /\ pc[r] = "serve" /\ Free
  /\ TakesError(req[r].off)
  /\ last_err' = FALSE
  /\ errTold' = TRUE
  /\ Return(r, "err", <<>>)
  /\ UNCHANGED <<total, srvVars, taskVars, chan, pending, pos, upstream_done, tailVars, lock, mat, sqlTail, closeVars>>

ServeTail(r) ==
  /\ pc[r] = "serve" /\ Free
  /\ ~TakesError(req[r].off)
  /\ \/ InBuffer(req[r].off) /\ Return(r, "tail", TailSlice(req[r].off, req[r].size))
     \/ PastEof(req[r].off) /\ Return(r, "tail", <<>>)
  /\ UNCHANGED <<total, srvVars, taskVars, chan, inner, tailVars, lock, mat, errTold, sqlTail, closeVars>>

ServeReadOrder(r) ==
  /\ pc[r] = "serve" /\ Free
  /\ ~InBuffer(req[r].off) /\ ~PastEof(req[r].off)
  /\ req[r].off # pos
  /\ Return(r, "order", <<>>)
  /\ UNCHANGED <<total, srvVars, taskVars, chan, inner, tailVars, lock, mat, errTold, sqlTail, closeVars>>

\* Mutant: the lock is given up between the checks and the pull loop.
ServeForwardUnlocked(r) ==
  /\ pc[r] = "serve" /\ Free
  /\ req[r].off = pos /\ ~TakesError(pos) /\ ~InBuffer(pos) /\ ~PastEof(pos)
  /\ Goto(r, "pull")
  /\ UNCHANGED <<total, srvVars, taskVars, chan, inner, tailVars, lock, req, mat, reply, errTold, sqlTail, closeVars>>

ServeForward(r) ==
  /\ pc[r] = "serve" /\ Free
  /\ ~TakesError(req[r].off) /\ ~InBuffer(req[r].off) /\ ~PastEof(req[r].off)
  /\ req[r].off = pos
  /\ lock' = r
  /\ Goto(r, "pull")
  /\ UNCHANGED <<total, srvVars, taskVars, chan, inner, tailVars, req, mat, reply, errTold, sqlTail, closeVars>>

\* Mutant: a read returns as soon as it has some bytes.
PullingSome(r) == pc[r] = "pull" /\ pending = <<>> /\ ~upstream_done

\* `while pending.len() < size && !upstream_done`, holding the lock.
Pulling(r) == pc[r] = "pull" /\ Len(pending) < req[r].size /\ ~upstream_done

RecvBytes(r) ==
  /\ Pulling(r) /\ chan # <<>> /\ Head(chan).kind = "ok"
  /\ pending' = pending \o Bytes(Head(chan))
  /\ chan' = Tail(chan)
  /\ UNCHANGED <<total, srvVars, taskVars, pos, upstream_done, last_err, tailVars, readVars, closeVars>>

\* Mutant: Some(Err(_)) ends the stream like None.
RecvErrAsEof(r) ==
  /\ Pulling(r) /\ chan # <<>> /\ Head(chan).kind = "err"
  /\ upstream_done' = TRUE
  /\ chan' = Tail(chan)
  /\ UNCHANGED <<total, srvVars, taskVars, pending, pos, last_err, tailVars, readVars, closeVars>>

RecvErr(r) ==
  /\ Pulling(r) /\ chan # <<>> /\ Head(chan).kind = "err"
  /\ upstream_done' = TRUE
  /\ last_err' = TRUE
  /\ chan' = Tail(chan)
  /\ UNCHANGED <<total, srvVars, taskVars, pending, pos, tailVars, readVars, closeVars>>

\* Mutant: None does not end the loop.
RecvClosedSpins(r) == Pulling(r) /\ chan = <<>> /\ task = "done" /\ UNCHANGED vars

\* recv() is None once the channel is empty and the task has dropped tx.
RecvClosed(r) ==
  /\ Pulling(r) /\ chan = <<>> /\ task = "done"
  /\ upstream_done' = TRUE
  /\ UNCHANGED <<total, srvVars, taskVars, chan, pending, pos, last_err, tailVars, readVars, closeVars>>

\* Mutant: the error is returned before the bytes still pending.
SurfacesErrorEarly == last_err

\* With no byte pending the error is returned now, else by the next read.
SurfacesError == pending = <<>> /\ last_err

ReturnError(r) ==
  /\ pc[r] = "pull" /\ ~Pulling(r)
  /\ SurfacesError
  /\ last_err' = FALSE
  /\ errTold' = TRUE
  /\ lock' = None
  /\ Return(r, "err", <<>>)
  /\ UNCHANGED <<total, srvVars, taskVars, chan, pending, pos, upstream_done, tailVars, mat, sqlTail, closeVars>>

ReturnBytes(r) ==
  LET take == IF req[r].size < Len(pending) THEN req[r].size ELSE Len(pending)
  IN  /\ pc[r] = "pull" /\ ~Pulling(r)
      /\ ~SurfacesError
      /\ pending' = SubSeq(pending, take + 1, Len(pending))
      /\ pos' = pos + take
      /\ lock' = None
      /\ Return(r, "fwd", SubSeq(pending, 1, take))
      /\ UNCHANGED <<total, srvVars, taskVars, chan, upstream_done, last_err, tailVars, mat, errTold, sqlTail, closeVars>>

-----------------------------------------------------------------------------
(* release and Drop. The kernel sends RELEASE after the last read on the    *)
(* handle has been answered.                                                *)

\* Notify::notify_waiters stores no permit: it reaches the task only while a
\* Notified future exists, that is inside select!.
NotifyWaiters == notified' = (notified \/ task = "select")

Release ==
  /\ handle = "open" /\ \A r \in Readers : pc[r] = "idle"
  /\ handle' = "released"
  /\ NotifyWaiters
  /\ UNCHANGED <<total, srvVars, taken, task, hand, chan, inner, tailVars, readVars, kill>>

\* Drop::drop: cancel again, spawn the KILL.
DropHandle ==
  /\ handle = "released"
  /\ handle' = "dropping"
  /\ NotifyWaiters
  /\ kill' = "spawned"
  /\ UNCHANGED <<total, srvVars, taken, task, hand, chan, inner, tailVars, readVars>>

\* The fields are dropped: rx closes and discards what it holds.
DropFields ==
  /\ handle = "dropping"
  /\ handle' = "dropped"
  /\ chan' = <<>>
  /\ UNCHANGED <<total, srvVars, taskVars, inner, tailVars, readVars, kill>>

\* kill_query reaches the server: a running SELECT is killed, otherwise the
\* KILL matches no query.
KillDelivered ==
  /\ kill = "spawned"
  /\ kill' = "delivered"
  /\ srv' = IF srv = "running" THEN "killed" ELSE srv
  /\ UNCHANGED <<total, avail, taskVars, chan, inner, tailVars, readVars, handle>>

\* kill_query fails or is refused: the error is swallowed.
KillLost ==
  /\ kill = "spawned"
  /\ kill' = "lost"
  /\ UNCHANGED <<total, srvVars, taskVars, chan, inner, tailVars, readVars, handle>>

\* Nothing is left to do for the closed file.
Closed ==
  /\ handle = "dropped" /\ task = "done"
  /\ kill \in {"delivered", "lost"} /\ srv \notin {"none", "running"}
  /\ UNCHANGED vars

-----------------------------------------------------------------------------
Server == SrvAccept \/ SrvEmit \/ SrvFinish \/ SrvFail \/ SrvAbort

Task == \/ TaskConnected \/ TaskError \/ TaskChunk \/ TaskEof
        \/ TaskCancelled \/ TaskSend \/ TaskReaderGone \/ TaskSendErr

Reader(r) == \/ Check(r) \/ Fetch(r) \/ Store(r)
             \/ ServeError(r) \/ ServeTail(r) \/ ServeReadOrder(r) \/ ServeForward(r)
             \/ RecvBytes(r) \/ RecvErr(r) \/ RecvClosed(r)
             \/ ReturnError(r) \/ ReturnBytes(r)

Close == DropHandle \/ DropFields \/ KillDelivered \/ KillLost

Next ==
  \/ Server
  \/ Task
  \/ \E r \in Readers, off \in Offsets, size \in Sizes : Read(r, off, size)
  \/ \E r \in Readers : Reader(r)
  \/ Release
  \/ Close
  \/ Closed

Spec == Init /\ [][Next]_vars

\* Every query ends (max_execution_time; query_text has a timeout), the tokio
\* runtime runs every ready task, and tokio's Mutex is FIFO, so a thread whose
\* turn keeps coming is served. Nothing obliges a program to read or to close.
Fairness ==
  /\ WF_vars(Server)
  /\ WF_vars(Task)
  /\ WF_vars(Close)
  /\ \A r \in Readers : SF_vars(Reader(r))

FairSpec == Spec /\ Fairness

-----------------------------------------------------------------------------
\* The handle, its task, the channel and the threads inside read_blocking are in
\* states the code has; bytes are positions, counted from 1.
TypeOK ==
  /\ total \in 0..MaxBytes
  /\ srv \in {"none", "running", "finished", "failed", "killed", "aborted"}
  /\ avail \in Nat /\ taken \in Nat
  /\ task \in {"connecting", "select", "send", "sendErr", "done"}
  /\ hand \in Item
  /\ notified \in BOOLEAN
  /\ chan \in Seq(Item)
  /\ pending \in Seq(Byte)
  /\ pos \in Nat
  /\ upstream_done \in BOOLEAN /\ last_err \in BOOLEAN
  /\ tail_buf \in TailLens \cup {None}
  /\ tail_attempted \in BOOLEAN
  /\ lock \in Readers \cup {None}
  /\ pc \in [Readers -> {"idle", "check", "fetch", "store", "serve", "pull"}]
  /\ req \in [Readers -> [off : Nat, size : Nat]]
  /\ mat \in [Readers -> TailLens \cup {None}]
  /\ reply \in [Readers -> Reply]
  /\ errTold \in BOOLEAN /\ sqlTail \in Nat
  /\ handle \in {"open", "released", "dropping", "dropped"}
  /\ kill \in {"none", "spawned", "delivered", "lost"}

\* Bytes returned by a forward read at offset o are the bytes o+1, o+2, ... of
\* the SELECT's response: nothing lost, repeated or reordered between the
\* task, the channel, `pending` and the cursor, whichever thread reads.
ForwardReadsAreTheFile ==
  \A r \in Readers : reply[r].kind = "fwd" =>
    \A i \in 1..Len(reply[r].bytes) : reply[r].bytes[i] = reply[r].off + i

\* An empty forward read (end of file for the caller) is returned only at the
\* end of a completed response, or after the stream's error was returned: a
\* broken stream never looks like a short file.
NoSilentTruncation ==
  \A r \in Readers : reply[r].kind = "fwd" /\ reply[r].bytes = <<>> =>
    errTold \/ (srv = "finished" /\ reply[r].off = total)

\* The stream's error is returned only after every byte the task pulled before
\* it: `last_err.take()` never jumps over pending or queued bytes.
ErrorAfterAllData ==
  \A r \in Readers : reply[r].kind = "err" => reply[r].off = taken

\* "The flag `tail_attempted` (set under the lock) prevents re-entry"
\* (stream.rs:181). The lock is released before the SELECT and the flag is set
\* after it, so every thread that decided meanwhile asks too, but none does again:
\* a read never repeats an attempt, whether it succeeded or failed.
OneSelectPerReader == sqlTail <= Cardinality(Readers)

\* A reader that is slow or has stopped reading bounds the memory of its stream:
\* what the channel and the task hold, and what a read leaves behind.
BoundedBuffering ==
  /\ rxOpen => taken - pos - Len(pending) <= (ChanCap + 1) * WireCap
  /\ \E s \in Sizes : Len(pending) < s + WireCap

\* "Failed | read(*) | errno" (docs/streaming-read.md:59): after a read has
\* returned the stream's error no read returns end of file.
FailedIsSticky ==
  [][errTold => \A r \in Readers :
       reply'[r] # reply[r] => ~(reply'[r].kind = "fwd" /\ reply'[r].bytes = <<>>)]_vars

\* Every read is answered, although read_blocking waits on the channel with no
\* timeout of its own and holds the lock while it does.
ReadReturns == \A r \in Readers : pc[r] # "idle" ~> pc[r] = "idle"

\* A closed file leaves nothing behind: the task ends and the SELECT stops, even
\* when both cancel() calls miss the task and the KILL is lost or comes first.
NothingLeftRunning ==
  handle = "released" ~> (task = "done" /\ srv \notin {"none", "running"})

-----------------------------------------------------------------------------
(* What the handle promises, and how its state shows it.                    *)
File == INSTANCE SequentialFile WITH
  status <- CASE srv = "finished" -> "complete"
              [] srv \in {"failed", "killed"} -> "broken"
              [] OTHER -> "producing",
  told   <- errTold,
  cursor <- pos,
  window <- tail_buf,
  open   <- handle = "open",
  asked  <- req

\* Task, channel, lock and the three critical sections of read_blocking together
\* behave like one file with one cursor: each read takes effect at a single
\* moment between its call and its return, whatever runs beside it.
IsSequentialFile == File!Spec

=============================================================================
