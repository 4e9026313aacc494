------------------------- MODULE StreamHandleProofs -------------------------
(***************************************************************************)
(* Proofs about StreamHandle for any number of readers, any capacity of    *)
(* the channel and any sequence of offsets and sizes.                      *)
(***************************************************************************)
EXTENDS StreamHandle, SequenceTheorems, TLAPS

\* The groups of variables occur in every UNCHANGED.
USE DEF srvVars, taskVars, inner, tailVars, readVars, closeVars

-----------------------------------------------------------------------------
(* The invariant behind the data path: what is pending, what is queued and  *)
(* what the task holds are consecutive pieces of the response, starting at  *)
(* the cursor; an error is the last thing in the channel, and it is taken   *)
(* out only when nothing else is left.                                      *)

\* The byte up to which the response has been received or queued.
End == IF chan = <<>> THEN pos + Len(pending) ELSE chan[Len(chan)].hi

\* A thread in the pull loop holds the lock, and reads at the cursor.
Pull ==
  \A r \in Readers : /\ pc[r] = "pull" <=> lock = r
                     /\ pc[r] = "pull" => req[r].off = pos
                     /\ pc[r] # "idle" => req[r].size > 0 /\ handle = "open"

PendingAt == \A i \in 1..Len(pending) : pending[i] = pos + i

Queued ==
  /\ chan # <<>> => chan[1].lo = pos + Len(pending)
  /\ \A i \in 1..(Len(chan) - 1) : chan[i].hi = chan[i + 1].lo

InHand ==
  /\ task = "send" => hand.kind = "ok" /\ hand.lo = End /\ hand.hi = taken
  /\ task # "send" => End = taken
  /\ task = "sendErr" => hand.kind = "err" /\ hand.lo = taken /\ hand.hi = taken

HasErr == chan # <<>> /\ chan[Len(chan)].kind = "err"

ErrorLast ==
  /\ \A i \in 1..Len(chan) : chan[i].kind = "err" =>
       i = Len(chan) /\ task = "done" /\ chan[i].lo = chan[i].hi
  /\ upstream_done => chan = <<>> /\ task = "done"
  /\ last_err => upstream_done

\* Once an error waits in last_err, no byte is left behind by the read that
\* found it.
ErrorWaits ==
  last_err => /\ lock = None => pending = <<>>
              /\ \A r \in Readers : pc[r] = "pull" => Len(pending) < req[r].size

\* The task of an open handle ends only at the end of the response or with an
\* error that is still to be told or has been told.
TaskEnds ==
  /\ srv = "finished" => avail = total
  /\ notified => handle # "open"
  /\ task = "done" /\ handle = "open" =>
       errTold \/ last_err \/ HasErr \/ (srv = "finished" /\ taken = total)

\* The data path is intact as long as rx lives.
Path == rxOpen => Queued /\ InHand /\ ErrorLast

\* An error was told only after the task had ended.
ErrorEnds == \A r \in Readers : reply[r].kind = "err" => task = "done"

IInv ==
  /\ TypeOK /\ Pull /\ PendingAt /\ Path /\ ErrorWaits /\ TaskEnds /\ ErrorEnds
  /\ ForwardReadsAreTheFile /\ ErrorAfterAllData /\ NoSilentTruncation

-----------------------------------------------------------------------------
\* A length and its successor: what the arithmetic of the tail buffer rests on.
LEMMA TailLength ==
  ASSUME TypeOK, tail_buf # None
  PROVE  tail_buf \in Nat /\ tail_buf < PSEUDO_EOF /\ PSEUDO_EOF \in Nat
         /\ BufOrigin = PSEUDO_EOF - tail_buf
<1>1. tail_buf \in TailLens
  BY DEF TypeOK
<1>2. tail_buf \in Nat /\ PSEUDO_EOF \in Nat /\ MaxBytes \in Nat
  BY <1>1, StreamAssumption
<1>3. MaxBytes + tail_buf < PSEUDO_EOF
  BY <1>1, PinnedAssumption
<1> QED BY <1>2, <1>3 DEF BufOrigin

\* The bytes of an item are positions of the response.
LEMMA BytesType == ASSUME NEW it \in Item PROVE
    /\ Bytes(it) \in Seq(Byte)
    /\ Len(Bytes(it)) = it.hi - it.lo
    /\ \A i \in 1..(it.hi - it.lo) : Bytes(it)[i] = it.lo + i
<1>1. it.hi - it.lo \in Nat /\ it.lo \in Nat
  BY DEF Item
<1>2. \A i \in 1..(it.hi - it.lo) : it.lo + i \in Byte
  BY <1>1 DEF Byte
<1> QED BY <1>1, <1>2 DEF Bytes

\* Cutting a sequence in two, and joining two.
LEMMA Cut == ASSUME NEW s \in Seq(Byte), NEW n \in Nat, n <= Len(s) PROVE
    /\ Len(SubSeq(s, n + 1, Len(s))) = Len(s) - n
    /\ \A i \in 1..(Len(s) - n) : SubSeq(s, n + 1, Len(s))[i] = s[n + i]
    /\ Len(SubSeq(s, 1, n)) = n
    /\ \A i \in 1..n : SubSeq(s, 1, n)[i] = s[i]
<1>1. Len(s) \in Nat /\ \A i \in 1..Len(s) : s[i] \in Byte
  BY LenProperties
<1>2. /\ Len(SubSeq(s, n + 1, Len(s))) = IF n + 1 <= Len(s) THEN Len(s) - (n + 1) + 1 ELSE 0
      /\ \A i \in 1..(Len(s) - (n + 1) + 1) : SubSeq(s, n + 1, Len(s))[i] = s[n + 1 + i - 1]
  BY <1>1, SubSeqProperties
<1>3. /\ Len(SubSeq(s, 1, n)) = IF 1 <= n THEN n - 1 + 1 ELSE 0
      /\ \A i \in 1..(n - 1 + 1) : SubSeq(s, 1, n)[i] = s[1 + i - 1]
  BY <1>1, SubSeqProperties
<1>4. ASSUME NEW i \in 1..(Len(s) - n) PROVE SubSeq(s, n + 1, Len(s))[i] = s[n + i]
  <2>1. i \in 1..(Len(s) - (n + 1) + 1) /\ n + 1 + i - 1 = n + i
    BY <1>1
  <2> QED BY <1>2, <2>1
<1>5. ASSUME NEW i \in 1..n PROVE SubSeq(s, 1, n)[i] = s[i]
  <2>1. i \in 1..(n - 1 + 1) /\ 1 + i - 1 = i
    OBVIOUS
  <2> QED BY <1>3, <2>1
<1>6. Len(SubSeq(s, n + 1, Len(s))) = Len(s) - n /\ Len(SubSeq(s, 1, n)) = n
  BY <1>1, <1>2, <1>3
<1> QED BY <1>4, <1>5, <1>6

\* Joining two sequences: what `pending` holds after a chunk is appended.
LEMMA Join == ASSUME NEW s \in Seq(Byte), NEW t \in Seq(Byte) PROVE
    /\ Len(s \o t) = Len(s) + Len(t)
    /\ \A i \in 1..Len(s) : (s \o t)[i] = s[i]
    /\ \A i \in 1..Len(t) : (s \o t)[Len(s) + i] = t[i]
<1>1. Len(s) \in Nat /\ Len(t) \in Nat
  BY LenProperties
<1>2. /\ Len(s \o t) = Len(s) + Len(t)
      /\ \A i \in 1..(Len(s) + Len(t)) : (s \o t)[i] = IF i <= Len(s) THEN s[i] ELSE t[i - Len(s)]
  BY ConcatProperties
<1> QED BY <1>1, <1>2

\* A read from the tail buffer stays inside it.
LEMMA TailSliceType ==
  ASSUME TypeOK, NEW off \in Nat, NEW size \in Nat, InBuffer(off)
  PROVE  TailSlice(off, size) \in Seq(Byte)
<1> DEFINE local == off - BufOrigin
           rest  == tail_buf - local
           take  == IF size < rest THEN size ELSE rest
<1>1. local \in Nat /\ rest \in Nat
  BY TailLength DEF InBuffer
<1>2. take \in Nat
  BY <1>1
<1>3. \A i \in 1..take : local + i \in Byte
  BY <1>1, <1>2 DEF Byte
<1> HIDE DEF local, take
<1>4. [i \in 1..take |-> local + i] \in Seq(Byte)
  BY <1>2, <1>3
<1> QED BY <1>4 DEF TailSlice, local, take

-----------------------------------------------------------------------------
\* What spawn builds fits the types.
LEMMA TypeInit == Init => TypeOK
<1> SUFFICES ASSUME Init PROVE TypeOK
  OBVIOUS
<1>1. hand \in Item
  BY DEF Init, NoItem, Item
<1>2. [kind |-> "none", off |-> 0, bytes |-> <<>>] \in Reply
  BY DEF Reply
<1>3. NoReq \in [off : Nat, size : Nat]
  BY DEF NoReq
<1>4. chan \in Seq(Item) /\ pending \in Seq(Byte)
  BY DEF Init
<1> QED BY <1>1, <1>2, <1>3, <1>4 DEF Init, TypeOK

\* A step of ClickHouse keeps the types.
LEMMA TypeServer == TypeOK /\ Server => TypeOK'
  BY DEF TypeOK, Server, SrvAccept, SrvEmit, SrvFinish, SrvFail, SrvAbort

\* A step of the stream task keeps the types.
LEMMA TypeTask == TypeOK /\ Task => TypeOK'
<1> SUFFICES ASSUME TypeOK, Task PROVE TypeOK'
  OBVIOUS
<1>0. NoItem \in Item
  BY DEF NoItem, Item
<1>1. CASE TaskConnected
  <2>1. hand' \in Item /\ notified' \in BOOLEAN /\ task' = "select"
    BY <1>0, <1>1 DEF TaskConnected, EnterSelect
  <2> QED BY <1>1, <2>1 DEF TypeOK, TaskConnected
<1>2. CASE TaskError
  <2>1. hand' \in Item
    BY <1>2 DEF TypeOK, TaskError, Item
  <2> QED BY <1>2, <2>1 DEF TypeOK, TaskError
<1>3. CASE TaskChunk
  <2>1. hand' \in Item
    BY <1>3 DEF TypeOK, TaskChunk, Item
  <2> QED BY <1>3, <2>1 DEF TypeOK, TaskChunk
<1>4. CASE TaskEof \/ TaskCancelled \/ TaskReaderGone
  BY <1>4 DEF TypeOK, TaskEof, TaskCancelled, TaskReaderGone
<1>5. CASE TaskSend
  <2>1. chan' \in Seq(Item)
    BY <1>5 DEF TypeOK, TaskSend
  <2>2. hand' \in Item /\ notified' \in BOOLEAN /\ task' = "select"
    BY <1>0, <1>5 DEF TaskSend, EnterSelect
  <2> QED BY <1>5, <2>1, <2>2 DEF TypeOK, TaskSend
<1>6. CASE TaskSendErr
  <2>1. chan' \in Seq(Item)
    <3>1. chan \in Seq(Item) /\ hand \in Item
      BY DEF TypeOK
    <3>2. chan' = Append(chan, hand) \/ chan' = chan
      BY <1>6 DEF TaskSendErr
    <3> QED BY <3>1, <3>2
  <2> QED BY <1>6, <2>1 DEF TypeOK, TaskSendErr
<1> QED BY <1>1, <1>2, <1>3, <1>4, <1>5, <1>6 DEF Task

\* Releasing and dropping the handle keeps the types.
LEMMA TypeClose == TypeOK /\ (Release \/ Close \/ Closed) => TypeOK'
<1> SUFFICES ASSUME TypeOK, Release \/ Close \/ Closed PROVE TypeOK'
  OBVIOUS
<1>1. CASE Release
  BY <1>1 DEF TypeOK, Release, NotifyWaiters
<1>2. CASE DropHandle
  BY <1>2 DEF TypeOK, DropHandle, NotifyWaiters
<1>3. CASE DropFields
  BY <1>3 DEF TypeOK, DropFields
<1>4. CASE KillDelivered \/ KillLost
  BY <1>4 DEF TypeOK, KillDelivered, KillLost
<1>5. CASE Closed
  BY <1>5 DEF TypeOK, Closed, vars
<1> QED BY <1>1, <1>2, <1>3, <1>4, <1>5 DEF Close

\* What returning from read_blocking does to the variables of the threads.
LEMMA TypeReturn ==
  ASSUME TypeOK, NEW r \in Readers, NEW bytes \in Seq(Byte),
         NEW kind \in {"fwd", "tail", "order", "err"}, Return(r, kind, bytes)
  PROVE  /\ pc' \in [Readers -> {"idle", "check", "fetch", "store", "serve", "pull"}]
         /\ req' \in [Readers -> [off : Nat, size : Nat]]
         /\ reply' \in [Readers -> Reply]
<1>1. [kind |-> kind, off |-> req[r].off, bytes |-> bytes] \in Reply
  BY DEF TypeOK, Reply
<1>2. NoReq \in [off : Nat, size : Nat]
  BY DEF NoReq
<1> QED BY <1>1, <1>2 DEF TypeOK, Return, Goto

\* A step of read_blocking keeps the types.
LEMMA TypeReader ==
  ASSUME TypeOK, NEW r \in Readers,
         Reader(r) \/ \E off \in Offsets, size \in Sizes : Read(r, off, size)
  PROVE  TypeOK'
<1>e. <<>> \in Seq(Byte)
  OBVIOUS
<1>n. None \in Readers \cup {None} /\ None \in TailLens \cup {None}
  OBVIOUS
<1>1. CASE \E off \in Offsets, size \in Sizes : Read(r, off, size)
  <2>1. PICK off \in Offsets, size \in Sizes : Read(r, off, size)
    BY <1>1
  <2>2. off \in Nat /\ size \in Nat
    BY StreamAssumption
  <2>3. [kind |-> "none", off |-> off, bytes |-> <<>>] \in Reply
    BY <2>2, <1>e DEF Reply
  <2> QED BY <2>1, <2>2, <2>3 DEF TypeOK, Read, Goto
<1>2. CASE Check(r)
  <2>1. /\ pc' \in [Readers -> {"idle", "check", "fetch", "store", "serve", "pull"}]
        /\ sqlTail' \in Nat
    <3>1. \/ Goto(r, "fetch") /\ sqlTail' = sqlTail + 1
          \/ Goto(r, "serve") /\ sqlTail' = sqlTail
      BY <1>2 DEF Check
    <3>2. /\ pc \in [Readers -> {"idle", "check", "fetch", "store", "serve", "pull"}]
          /\ sqlTail \in Nat
      BY DEF TypeOK
    <3> QED BY <3>1, <3>2 DEF Goto
  <2>2. UNCHANGED <<total, srvVars, taskVars, chan, inner, tailVars, lock, req, mat, reply, errTold, closeVars>>
    BY <1>2 DEF Check
  <2> QED BY <2>1, <2>2 DEF TypeOK
<1>3. CASE Fetch(r)
  BY <1>3 DEF TypeOK, Fetch, Goto
<1>4. CASE Store(r)
  BY <1>4 DEF TypeOK, Store, Goto
<1>5. CASE ServeError(r)
  <2>1. Return(r, "err", <<>>)
    BY <1>5 DEF ServeError
  <2>2. /\ pc' \in [Readers -> {"idle", "check", "fetch", "store", "serve", "pull"}]
        /\ req' \in [Readers -> [off : Nat, size : Nat]] /\ reply' \in [Readers -> Reply]
    BY <2>1, <1>e, TypeReturn
  <2>3. last_err' \in BOOLEAN /\ errTold' \in BOOLEAN
    BY <1>5, Zenon DEF ServeError
  <2>4. UNCHANGED <<total, srvVars, taskVars, chan, pending, pos, upstream_done, tailVars, lock, mat, sqlTail, closeVars>>
    BY <1>5 DEF ServeError
  <2> QED BY <2>2, <2>3, <2>4 DEF TypeOK
<1>6. CASE ServeTail(r)
  <2>1. req[r].off \in Nat /\ req[r].size \in Nat
    BY DEF TypeOK
  <2>2. \E bytes \in Seq(Byte) : Return(r, "tail", bytes)
    BY <1>6, <1>e, <2>1, TailSliceType DEF ServeTail
  <2>3. /\ pc' \in [Readers -> {"idle", "check", "fetch", "store", "serve", "pull"}]
        /\ req' \in [Readers -> [off : Nat, size : Nat]] /\ reply' \in [Readers -> Reply]
    BY <2>2, TypeReturn
  <2> QED BY <1>6, <2>3 DEF TypeOK, ServeTail
<1>7. CASE ServeReadOrder(r)
  <2>1. Return(r, "order", <<>>)
    BY <1>7 DEF ServeReadOrder
  <2>2. /\ pc' \in [Readers -> {"idle", "check", "fetch", "store", "serve", "pull"}]
        /\ req' \in [Readers -> [off : Nat, size : Nat]] /\ reply' \in [Readers -> Reply]
    BY <2>1, <1>e, TypeReturn
  <2> QED BY <1>7, <2>2 DEF TypeOK, ServeReadOrder
<1>8. CASE ServeForward(r)
  BY <1>8 DEF TypeOK, ServeForward, Goto
<1>9. CASE RecvBytes(r)
  <2>1. chan # <<>> /\ chan \in Seq(Item)
    BY <1>9 DEF TypeOK, RecvBytes
  <2>2. Head(chan) \in Item /\ Tail(chan) \in Seq(Item)
    BY <2>1
  <2>3. pending \o Bytes(Head(chan)) \in Seq(Byte)
    BY <2>2, BytesType DEF TypeOK
  <2> QED BY <1>9, <2>2, <2>3 DEF TypeOK, RecvBytes
<1>10. CASE RecvErr(r)
  <2>1. chan # <<>> /\ chan \in Seq(Item)
    BY <1>10 DEF TypeOK, RecvErr
  <2>2. Tail(chan) \in Seq(Item)
    BY <2>1
  <2> QED BY <1>10, <2>2 DEF TypeOK, RecvErr
<1>11. CASE RecvClosed(r)
  BY <1>11 DEF TypeOK, RecvClosed
<1>12. CASE ReturnError(r)
  <2>1. Return(r, "err", <<>>)
    BY <1>12 DEF ReturnError
  <2>2. /\ pc' \in [Readers -> {"idle", "check", "fetch", "store", "serve", "pull"}]
        /\ req' \in [Readers -> [off : Nat, size : Nat]] /\ reply' \in [Readers -> Reply]
    BY <2>1, <1>e, TypeReturn
  <2>3. last_err' \in BOOLEAN /\ errTold' \in BOOLEAN
    BY <1>12, Zenon DEF ReturnError
  <2>4. UNCHANGED <<total, srvVars, taskVars, chan, pending, pos, upstream_done, tailVars, mat, sqlTail, closeVars>>
    BY <1>12 DEF ReturnError
  <2>5. lock' = None
    BY <1>12 DEF ReturnError
  <2> QED BY <1>n, <2>2, <2>3, <2>4, <2>5 DEF TypeOK
<1>13. CASE ReturnBytes(r)
  <2> DEFINE take == IF req[r].size < Len(pending) THEN req[r].size ELSE Len(pending)
  <2>1. take \in Nat /\ take <= Len(pending) /\ pending \in Seq(Byte) /\ Len(pending) \in Nat
    BY DEF TypeOK
  <2>2. SubSeq(pending, take + 1, Len(pending)) \in Seq(Byte) /\ SubSeq(pending, 1, take) \in Seq(Byte)
    BY <2>1
  <2>3. /\ pending' \in Seq(Byte) /\ pos' \in Nat /\ lock' = None
        /\ Return(r, "fwd", SubSeq(pending, 1, take))
    BY <1>13, <2>1, <2>2 DEF TypeOK, ReturnBytes
  <2> HIDE DEF take
  <2>4. /\ pc' \in [Readers -> {"idle", "check", "fetch", "store", "serve", "pull"}]
        /\ req' \in [Readers -> [off : Nat, size : Nat]] /\ reply' \in [Readers -> Reply]
    BY <2>2, <2>3, TypeReturn
  <2>5. UNCHANGED <<total, srvVars, taskVars, chan, upstream_done, last_err, tailVars, mat, errTold, sqlTail, closeVars>>
    BY <1>13 DEF ReturnBytes
  <2> QED BY <1>n, <2>3, <2>4, <2>5, SMTT(30) DEF TypeOK
<1> QED BY <1>1, <1>2, <1>3, <1>4, <1>5, <1>6, <1>7, <1>8, <1>9, <1>10, <1>11, <1>12, <1>13 DEF Reader

\* Every step keeps the types.
LEMMA TypeStep == TypeOK /\ [Next]_vars => TypeOK'
<1> SUFFICES ASSUME TypeOK, [Next]_vars PROVE TypeOK'
  OBVIOUS
<1>1. CASE UNCHANGED vars
  BY <1>1 DEF TypeOK, vars
<1> QED BY <1>1, TypeServer, TypeTask, TypeClose, TypeReader DEF Next

\* Type correctness of the handle, its task and its readers.
THEOREM TypeCorrect == Spec => []TypeOK
  BY TypeInit, TypeStep, PTL DEF Spec

-----------------------------------------------------------------------------
\* The inductive invariant holds of a handle that was just spawned.
LEMMA DataInit == Init => IInv
<1> SUFFICES ASSUME Init PROVE IInv
  OBVIOUS
<1>1. TypeOK
  BY TypeInit
<1>2. chan = <<>> /\ pending = <<>> /\ Len(pending) = 0 /\ Len(chan) = 0 /\ None \notin Readers
  BY StreamAssumption DEF Init
<1>3. Pull
  BY <1>2 DEF Init, Pull
<1>4. PendingAt /\ Queued /\ InHand /\ ErrorLast
  BY <1>2 DEF Init, PendingAt, Queued, InHand, End, ErrorLast
<1>5. ErrorWaits /\ TaskEnds
  BY <1>2 DEF Init, ErrorWaits, TaskEnds
<1>6. ErrorEnds /\ ForwardReadsAreTheFile /\ ErrorAfterAllData /\ NoSilentTruncation
  BY DEF Init, ErrorEnds, ForwardReadsAreTheFile, ErrorAfterAllData, NoSilentTruncation
<1> QED BY <1>1, <1>3, <1>4, <1>5, <1>6 DEF IInv, Path

\* The server touches neither the data path nor the threads.
LEMMA DataServer == IInv /\ Server => IInv'
<1> SUFFICES ASSUME IInv, Server PROVE IInv'
  OBVIOUS
<1>1. UNCHANGED <<total, taskVars, chan, inner, tailVars, readVars, closeVars>>
  BY DEF Server, SrvAccept, SrvEmit, SrvFinish, SrvFail, SrvAbort
<1>2. srv = "finished" => srv' = "finished" /\ avail' = avail
  BY DEF Server, SrvAccept, SrvEmit, SrvFinish, SrvFail, SrvAbort
<1>3. srv' = "finished" => avail' = total
  BY DEF Server, SrvAccept, SrvEmit, SrvFinish, SrvFail, SrvAbort, IInv, TaskEnds
<1>4. TypeOK'
  BY TypeServer DEF IInv
<1>5. Pull' /\ PendingAt' /\ ErrorWaits' /\ ErrorEnds' /\ ForwardReadsAreTheFile' /\ ErrorAfterAllData'
  BY <1>1 DEF IInv, Pull, PendingAt, ErrorWaits, ErrorEnds, ForwardReadsAreTheFile, ErrorAfterAllData
<1>6. Path'
  BY <1>1 DEF IInv, Path, rxOpen, Queued, InHand, End, ErrorLast
<1>7. TaskEnds' /\ NoSilentTruncation'
  BY <1>1, <1>2, <1>3 DEF IInv, TaskEnds, HasErr, NoSilentTruncation
<1> QED BY <1>4, <1>5, <1>6, <1>7 DEF IInv

\* The task touches neither the cursor nor the threads.
LEMMA DataTask == IInv /\ Task => IInv'
<1> SUFFICES ASSUME IInv, Task PROVE IInv'
  OBVIOUS
<1> USE DEF IInv
<1>0. UNCHANGED <<total, srvVars, inner, tailVars, readVars, closeVars>>
  BY DEF Task, TaskConnected, TaskError, TaskChunk, TaskEof, TaskCancelled, TaskSend, TaskReaderGone, TaskSendErr
<1>1. TypeOK'
  BY TypeTask
<1>2. Pull' /\ PendingAt' /\ ErrorWaits' /\ ForwardReadsAreTheFile' /\ NoSilentTruncation'
  BY <1>0 DEF Pull, PendingAt, ErrorWaits, ForwardReadsAreTheFile, NoSilentTruncation
<1>3. task # "done"
  BY DEF Task, TaskConnected, TaskError, TaskChunk, TaskEof, TaskCancelled, TaskSend, TaskReaderGone, TaskSendErr
<1>4. ErrorEnds' /\ ErrorAfterAllData'
  BY <1>0, <1>3 DEF ErrorEnds, ErrorAfterAllData
<1>5. rxOpen => ~upstream_done /\ ~last_err /\ \A i \in 1..Len(chan) : chan[i].kind # "err"
  BY <1>3 DEF Path, ErrorLast
<1>6. CASE UNCHANGED chan /\ ~rxOpen
  <2>1. handle # "open"
    BY <1>6 DEF rxOpen
  <2>2. Path' /\ handle' # "open"
    BY <1>6, <1>0, <2>1 DEF Path, rxOpen
  <2>3. TaskEnds'
    BY <1>0, <2>2 DEF TaskEnds
  <2> QED BY <1>1, <1>2, <1>4, <2>2, <2>3
<1>7. CASE UNCHANGED chan /\ rxOpen
  <2>0. Queued /\ InHand /\ ErrorLast
    BY <1>7 DEF Path
  <2>1. Queued' /\ ErrorLast' /\ End' = End
    BY <1>0, <1>5, <1>7, <2>0 DEF Queued, ErrorLast, End
  <2>2. CASE TaskConnected
    <3>1. task = "connecting" /\ task' = "select" /\ taken' = taken /\ notified' = FALSE
      BY <2>2 DEF TaskConnected, EnterSelect
    <3>2. InHand'
      BY <3>1, <2>0, <2>1 DEF InHand
    <3>3. TaskEnds'
      BY <3>1, <1>0 DEF TaskEnds
    <3> QED BY <1>1, <1>2, <1>4, <2>1, <3>2, <3>3 DEF Path
  <2>3. CASE TaskError
    <3>1. /\ task \in {"connecting", "select"} /\ task' = "sendErr" /\ taken' = taken
          /\ hand' = [kind |-> "err", lo |-> taken, hi |-> taken] /\ notified' = notified
      BY <2>3 DEF TaskError
    <3>2. InHand'
      BY <3>1, <2>0, <2>1 DEF InHand
    <3>3. TaskEnds'
      BY <3>1, <1>0 DEF TaskEnds
    <3> QED BY <1>1, <1>2, <1>4, <2>1, <3>2, <3>3 DEF Path
  <2>4. CASE TaskChunk
    <3>1. /\ task = "select" /\ task' = "send" /\ taken' = avail
          /\ hand' = [kind |-> "ok", lo |-> taken, hi |-> avail] /\ notified' = notified
      BY <2>4 DEF TaskChunk
    <3>2. InHand'
      BY <3>1, <2>0, <2>1 DEF InHand
    <3>3. TaskEnds'
      BY <3>1, <1>0 DEF TaskEnds
    <3> QED BY <1>1, <1>2, <1>4, <2>1, <3>2, <3>3 DEF Path
  <2>5. CASE TaskEof \/ TaskCancelled
    <3>1. task = "select" /\ task' = "done" /\ taken' = taken /\ notified' = notified
      BY <2>5 DEF TaskEof, TaskCancelled
    <3>2. InHand'
      BY <3>1, <2>0, <2>1 DEF InHand
    <3>3. (srv = "finished" /\ avail = taken) \/ notified
      BY <2>5 DEF TaskEof, TaskCancelled
    <3>4. TaskEnds'
      BY <3>1, <3>3, <1>0 DEF TaskEnds
    <3> QED BY <1>1, <1>2, <1>4, <2>1, <3>2, <3>4 DEF Path
  <2>6. ~TaskSend /\ ~TaskSendErr /\ ~TaskReaderGone
    <3>1. Append(chan, hand) # chan
      BY DEF TypeOK
    <3> QED BY <1>7, <3>1 DEF TaskSend, TaskSendErr, TaskReaderGone
  <2> QED BY <2>2, <2>3, <2>4, <2>5, <2>6 DEF Task
<1>8. CASE rxOpen /\ chan' = Append(chan, hand)
           /\ (TaskSend \/ TaskSendErr)
  <2>0. Queued /\ InHand /\ ErrorLast
    BY <1>8 DEF Path
  <2>1. chan \in Seq(Item) /\ hand \in Item /\ pos \in Nat /\ Len(pending) \in Nat
    BY DEF TypeOK
  <2>2. /\ Len(chan') = Len(chan) + 1 /\ Len(chan) \in Nat
        /\ chan' # <<>>
        /\ chan'[Len(chan) + 1] = hand
        /\ \A i \in 1..Len(chan) : chan'[i] = chan[i]
    BY <1>8, <2>1
  <2>3. hand.lo = End /\ hand.hi = taken /\ taken' = taken
    BY <1>8, <2>0 DEF InHand, TaskSend, TaskSendErr
  <2>4. End' = taken
    BY <2>2, <2>3 DEF End
  <2>5. Queued'
    <3>1. CASE chan = <<>>
      BY <3>1, <2>2, <2>3, <1>0 DEF Queued, End
    <3>2. CASE chan # <<>>
      <4>1. Len(chan) > 0 /\ chan[Len(chan)].hi = hand.lo
        BY <3>2, <2>1, <2>3 DEF End
      <4>2. chan'[1].lo = pos + Len(pending)
        BY <3>2, <4>1, <2>0, <2>2 DEF Queued
      <4>3. ASSUME NEW i \in 1..(Len(chan') - 1) PROVE chan'[i].hi = chan'[i + 1].lo
        <5>1. CASE i = Len(chan)
          BY <5>1, <4>1, <2>2
        <5>2. CASE i \in 1..(Len(chan) - 1)
          BY <5>2, <2>0, <2>2 DEF Queued
        <5> QED BY <5>1, <5>2, <2>2
      <4> QED BY <4>2, <4>3, <1>0 DEF Queued
    <3> QED BY <3>1, <3>2
  <2>6. CASE TaskSend
    <3>1. task = "send" /\ task' = "select" /\ notified' = FALSE
      BY <2>6 DEF TaskSend, EnterSelect
    <3>2. InHand'
      BY <3>1, <2>3, <2>4 DEF InHand
    <3>3. ErrorLast'
      <4>1. hand.kind = "ok"
        BY <3>1, <2>0 DEF InHand
      <4>2. \A i \in 1..Len(chan') : chan'[i].kind # "err"
        BY <4>1, <1>5, <1>8, <2>2
      <4> QED BY <4>2, <1>0, <1>5, <1>8 DEF ErrorLast
    <3>4. TaskEnds'
      BY <3>1, <1>0 DEF TaskEnds
    <3> QED BY <1>1, <1>2, <1>4, <2>5, <3>2, <3>3, <3>4 DEF Path
  <2>7. CASE TaskSendErr
    <3>1. task = "sendErr" /\ task' = "done" /\ notified' = notified
      BY <2>7 DEF TaskSendErr
    <3>2. hand.kind = "err" /\ hand.lo = hand.hi
      BY <3>1, <2>0, <2>3 DEF InHand
    <3>3. InHand'
      BY <3>1, <2>3, <2>4 DEF InHand
    <3>4. ErrorLast'
      <4>1. \A i \in 1..Len(chan') : chan'[i].kind = "err" => i = Len(chan')
        BY <1>5, <1>8, <2>2
      <4> QED BY <4>1, <3>1, <3>2, <2>2, <1>0, <1>5, <1>8 DEF ErrorLast
    <3>5. HasErr'
      BY <3>2, <2>2 DEF HasErr
    <3>6. TaskEnds'
      BY <3>1, <3>5, <1>0 DEF TaskEnds
    <3> QED BY <1>1, <1>2, <1>4, <2>5, <3>3, <3>4, <3>6 DEF Path
  <2> QED BY <1>8, <2>6, <2>7
<1> QED BY <1>6, <1>7, <1>8 DEF Task, TaskConnected, TaskError, TaskChunk, TaskEof, TaskCancelled, TaskSend, TaskReaderGone, TaskSendErr

\* Closing the handle: no thread is inside read_blocking.
LEMMA DataClose == IInv /\ (Release \/ Close \/ Closed) => IInv'
<1> SUFFICES ASSUME IInv, Release \/ Close \/ Closed PROVE IInv'
  OBVIOUS
<1> USE DEF IInv
<1>1. TypeOK'
  BY TypeClose
<1>2. CASE Closed
  <2>1. UNCHANGED vars
    BY <1>2 DEF Closed
  <2>2. Pull' /\ PendingAt' /\ ErrorWaits' /\ ErrorEnds' /\ ForwardReadsAreTheFile' /\ ErrorAfterAllData'
    BY <2>1 DEF vars, Pull, PendingAt, ErrorWaits, ErrorEnds, ForwardReadsAreTheFile, ErrorAfterAllData
  <2>3. Path'
    BY <2>1 DEF vars, Path, rxOpen, Queued, InHand, End, ErrorLast
  <2>4. TaskEnds' /\ NoSilentTruncation'
    BY <2>1 DEF vars, TaskEnds, HasErr, NoSilentTruncation
  <2> QED BY <1>1, <2>2, <2>3, <2>4
<1>3. CASE Release \/ Close
  <2>1. UNCHANGED <<total, avail, taken, task, hand, inner, tailVars, readVars>>
    BY <1>3 DEF Release, Close, DropHandle, DropFields, KillDelivered, KillLost
  <2>2. \/ handle' = handle /\ notified' = notified /\ chan' = chan
        \/ handle' \in {"released", "dropping"} /\ rxOpen /\ chan' = chan /\ \A r \in Readers : pc[r] = "idle"
        \/ handle' = "dropped" /\ \A r \in Readers : pc[r] = "idle"
    <3>1. CASE Release
      BY <3>1 DEF Release, rxOpen
    <3>2. CASE DropHandle
      BY <3>2 DEF DropHandle, rxOpen, Pull
    <3>3. CASE DropFields
      BY <3>3 DEF DropFields, Pull
    <3>4. CASE KillDelivered \/ KillLost
      BY <3>4 DEF KillDelivered, KillLost
    <3> QED BY <1>3, <3>1, <3>2, <3>3, <3>4 DEF Close
  <2>3. srv = "finished" <=> srv' = "finished"
    BY <1>3 DEF Release, Close, DropHandle, DropFields, KillDelivered, KillLost
  <2>4. Pull' /\ PendingAt' /\ ErrorWaits' /\ ErrorEnds' /\ ForwardReadsAreTheFile' /\ ErrorAfterAllData'
    BY <2>1, <2>2 DEF Pull, PendingAt, ErrorWaits, ErrorEnds, ForwardReadsAreTheFile, ErrorAfterAllData
  <2>5. Path'
    BY <2>1, <2>2 DEF Path, rxOpen, Queued, InHand, End, ErrorLast
  <2>6. TaskEnds' /\ NoSilentTruncation'
    BY <2>1, <2>2, <2>3 DEF TaskEnds, HasErr, NoSilentTruncation
  <2> QED BY <1>1, <2>4, <2>5, <2>6
<1> QED BY <1>2, <1>3

\* The data path of a step that only moves a thread.
LEMMA DataStill ==
  ASSUME IInv, UNCHANGED <<total, srvVars, taskVars, chan, inner, closeVars>>,
         errTold => errTold'
  PROVE  PendingAt' /\ Path' /\ TaskEnds'
<1> USE DEF IInv
<1>1. PendingAt'
  BY DEF PendingAt
<1>2. Path'
  BY DEF Path, rxOpen, Queued, InHand, End, ErrorLast
<1>3. TaskEnds'
  BY DEF TaskEnds, HasErr
<1> QED BY <1>1, <1>2, <1>3

\* A thread is inside read_blocking only while the handle is open.
LEMMA OpenInside ==
  ASSUME IInv, NEW r \in Readers, pc[r] # "idle"
  PROVE  handle = "open" /\ rxOpen /\ Queued /\ InHand /\ ErrorLast
  BY DEF IInv, Pull, Path, rxOpen

\* The steps of read_blocking before it serves, and the start of the pull loop.
LEMMA DataBefore ==
  ASSUME IInv, NEW r \in Readers,
         \/ \E off \in Offsets, size \in Sizes : Read(r, off, size)
         \/ Check(r) \/ Fetch(r) \/ Store(r) \/ ServeForward(r)
  PROVE  IInv'
<1> USE DEF IInv
<1>1. TypeOK'
  BY TypeReader DEF Reader
<1>2. UNCHANGED <<total, srvVars, taskVars, chan, inner, closeVars, errTold>>
  BY DEF Read, Check, Fetch, Store, ServeForward
<1>3. PendingAt' /\ Path' /\ TaskEnds'
  BY <1>2, DataStill
<1>4. \A q \in Readers : reply'[q] = reply[q] \/ reply'[q].kind = "none"
  BY DEF Read, Check, Fetch, Store, ServeForward, TypeOK
<1>5. ErrorEnds' /\ ForwardReadsAreTheFile' /\ ErrorAfterAllData' /\ NoSilentTruncation'
  BY <1>2, <1>4 DEF ErrorEnds, ForwardReadsAreTheFile, ErrorAfterAllData, NoSilentTruncation
<1>6. CASE \E off \in Offsets, size \in Sizes : Read(r, off, size)
  <2>1. PICK off \in Offsets, size \in Sizes : Read(r, off, size)
    BY <1>6
  <2>2. size \in Nat /\ size > 0
    BY StreamAssumption
  <2>3. /\ pc[r] = "idle" /\ handle = "open" /\ lock' = lock
        /\ pc' = [pc EXCEPT ![r] = "check"]
        /\ req' = [req EXCEPT ![r] = [off |-> off, size |-> size]]
    BY <2>1 DEF Read, Goto
  <2>4. Pull' /\ ErrorWaits'
    BY <1>2, <2>2, <2>3 DEF Pull, ErrorWaits, TypeOK
  <2> QED BY <1>1, <1>3, <1>5, <2>4
<1>7. CASE Check(r) \/ Fetch(r) \/ Store(r)
  <2>1. /\ pc[r] \in {"check", "fetch", "store"} /\ lock' = lock /\ req' = req
        /\ \E step \in {"fetch", "store", "serve"} : pc' = [pc EXCEPT ![r] = step]
    BY <1>7 DEF Check, Fetch, Store, Goto
  <2>2. Pull' /\ ErrorWaits'
    BY <1>2, <2>1 DEF Pull, ErrorWaits, TypeOK
  <2> QED BY <1>1, <1>3, <1>5, <2>2
<1>8. CASE ServeForward(r)
  <2>1. /\ pc[r] = "serve" /\ lock = None /\ lock' = r /\ req' = req
        /\ pc' = [pc EXCEPT ![r] = "pull"]
        /\ req[r].off = pos /\ ~last_err
    BY <1>8 DEF ServeForward, Goto, Free, TakesError
  <2>2. \A q \in Readers : pc[q] # "pull"
    BY <2>1, StreamAssumption DEF Pull
  <2>3. Pull' /\ ErrorWaits'
    BY <1>2, <2>1, <2>2 DEF Pull, ErrorWaits, TypeOK
  <2> QED BY <1>1, <1>3, <1>5, <2>3
<1> QED BY <1>6, <1>7, <1>8

\* What Return leaves in the variables of the threads.
LEMMA Returned ==
  ASSUME IInv, NEW r \in Readers, NEW kind, NEW bytes, Return(r, kind, bytes)
  PROVE  /\ pc'[r] = "idle" /\ \A q \in Readers \ {r} : pc'[q] = pc[q] /\ req'[q] = req[q]
         /\ reply'[r].kind = kind /\ reply'[r].off = req[r].off /\ reply'[r].bytes = bytes
         /\ \A q \in Readers \ {r} : reply'[q] = reply[q]
  BY DEF IInv, TypeOK, Return, Goto

\* A read answered without the live stream.
LEMMA DataAside ==
  ASSUME IInv, NEW r \in Readers, ServeTail(r) \/ ServeReadOrder(r)
  PROVE  IInv'
<1> USE DEF IInv
<1>1. TypeOK'
  BY TypeReader DEF Reader
<1>2. /\ UNCHANGED <<total, srvVars, taskVars, chan, inner, closeVars, errTold, lock>>
      /\ pc[r] = "serve" /\ lock = None
  BY DEF ServeTail, ServeReadOrder, Free
<1>3. PendingAt' /\ Path' /\ TaskEnds'
  BY <1>2, DataStill
<1>4. PICK kind \in {"tail", "order"} : \E bytes : Return(r, kind, bytes)
  BY DEF ServeTail, ServeReadOrder
<1>5. PICK bytes : Return(r, kind, bytes)
  BY <1>4
<1>6. Pull' /\ ErrorWaits'
  BY <1>2, <1>5, Returned, StreamAssumption DEF Pull, ErrorWaits
<1>7. \A q \in Readers : reply'[q] = reply[q] \/ reply'[q].kind \in {"tail", "order"}
  BY <1>5, Returned
<1>8. ErrorEnds' /\ ForwardReadsAreTheFile' /\ ErrorAfterAllData' /\ NoSilentTruncation'
  BY <1>2, <1>7 DEF ErrorEnds, ForwardReadsAreTheFile, ErrorAfterAllData, NoSilentTruncation
<1> QED BY <1>1, <1>3, <1>6, <1>8

\* A read that returns the stream's error, before or after the pull loop: all
\* the bytes the task has pulled have been returned.
LEMMA DataError ==
  ASSUME IInv, NEW r \in Readers, ServeError(r) \/ ReturnError(r)
  PROVE  IInv'
<1> USE DEF IInv
<1>1. TypeOK'
  BY TypeReader DEF Reader
<1>2. /\ UNCHANGED <<total, srvVars, taskVars, chan, pending, pos, upstream_done, closeVars>>
      /\ lock' = None /\ last_err /\ last_err' = FALSE /\ errTold' = TRUE
      /\ pc[r] # "idle" /\ Return(r, "err", <<>>)
  <2>1. CASE ServeError(r)
    BY <2>1 DEF ServeError, Free, TakesError
  <2>2. CASE ReturnError(r)
    BY <2>2 DEF ReturnError, SurfacesError
  <2> QED BY <2>1, <2>2
<1>3. pending = <<>> /\ req[r].off = pos
  <2>1. CASE ServeError(r)
    BY <2>1, <1>2 DEF ServeError, Free, TakesError, ErrorWaits
  <2>2. CASE ReturnError(r)
    BY <2>2 DEF ReturnError, SurfacesError, Pull
  <2> QED BY <2>1, <2>2
<1>4. Queued /\ InHand /\ ErrorLast /\ chan = <<>> /\ task = "done"
  BY <1>2, OpenInside DEF ErrorLast
<1>5. req[r].off = taken
  BY <1>3, <1>4 DEF InHand, End, TypeOK
<1>6. /\ pc'[r] = "idle" /\ \A q \in Readers \ {r} : pc'[q] = pc[q] /\ req'[q] = req[q]
      /\ reply'[r].kind = "err" /\ reply'[r].off = taken
      /\ \A q \in Readers \ {r} : reply'[q] = reply[q]
  BY <1>2, <1>5, Returned
<1>7. \A q \in Readers \ {r} : pc[q] # "pull"
  <2>1. lock \in {None, r}
    BY DEF ServeError, ReturnError, Free, Pull
  <2> QED BY <2>1, StreamAssumption DEF Pull
<1>8. Pull'
  BY <1>2, <1>6, <1>7, StreamAssumption DEF Pull
<1>9. PendingAt' /\ ErrorWaits'
  BY <1>2 DEF PendingAt, ErrorWaits
<1>10. Path'
  BY <1>2, <1>4 DEF Path, rxOpen, Queued, InHand, End, ErrorLast
<1>11. TaskEnds' /\ NoSilentTruncation'
  BY <1>2 DEF TaskEnds, NoSilentTruncation
<1>12. ErrorEnds' /\ ErrorAfterAllData' /\ ForwardReadsAreTheFile'
  BY <1>2, <1>4, <1>6 DEF ErrorEnds, ErrorAfterAllData, ForwardReadsAreTheFile
<1> QED BY <1>1, <1>8, <1>9, <1>10, <1>11, <1>12

\* A read that returns bytes: the cursor moves over exactly what it returns.
LEMMA DataReturn ==
  ASSUME IInv, NEW r \in Readers, ReturnBytes(r)
  PROVE  IInv'
<1> USE DEF IInv
<1> DEFINE take == IF req[r].size < Len(pending) THEN req[r].size ELSE Len(pending)
<1>1. TypeOK'
  BY TypeReader DEF Reader
<1>2. /\ pending \in Seq(Byte) /\ Len(pending) \in Nat /\ pos \in Nat
      /\ req[r].size \in Nat /\ take \in Nat /\ take <= Len(pending)
  BY DEF TypeOK
<1>3. /\ UNCHANGED <<total, srvVars, taskVars, chan, upstream_done, last_err, closeVars, errTold>>
      /\ pc[r] = "pull" /\ ~Pulling(r) /\ ~SurfacesError /\ lock' = None
      /\ pending' = SubSeq(pending, take + 1, Len(pending))
      /\ pos' = pos + take
      /\ Return(r, "fwd", SubSeq(pending, 1, take))
  BY DEF ReturnBytes
<1>4. /\ Len(pending') = Len(pending) - take
      /\ \A i \in 1..(Len(pending) - take) : pending'[i] = pending[take + i]
      /\ Len(SubSeq(pending, 1, take)) = take
      /\ \A i \in 1..take : SubSeq(pending, 1, take)[i] = pending[i]
  <2> HIDE DEF take, IInv
  <2> QED BY <1>2, <1>3, Cut
<1>5. lock = r /\ req[r].off = pos /\ req[r].size > 0 /\ \A q \in Readers \ {r} : pc[q] # "pull"
  BY <1>3 DEF Pull
<1>6. Queued /\ InHand /\ ErrorLast /\ handle = "open"
  BY <1>3, OpenInside
<1>7. take < Len(pending) => take = req[r].size
  BY <1>2
<1>8. take = 0 => pending = <<>>
  BY <1>2, <1>5
<1> HIDE DEF take
<1>9. /\ pc'[r] = "idle" /\ \A q \in Readers \ {r} : pc'[q] = pc[q] /\ req'[q] = req[q]
      /\ reply'[r].kind = "fwd" /\ reply'[r].off = pos /\ reply'[r].bytes = SubSeq(pending, 1, take)
      /\ \A q \in Readers \ {r} : reply'[q] = reply[q]
  BY <1>3, <1>5, Returned
<1>10. Pull'
  BY <1>3, <1>5, <1>9, StreamAssumption DEF Pull
<1>11. PendingAt'
  <2>1. ASSUME NEW i \in 1..Len(pending') PROVE pending'[i] = pos' + i
    <3>1. take + i \in 1..Len(pending) /\ i \in 1..(Len(pending) - take)
      BY <1>2, <1>4
    <3>2. pending[take + i] = pos + (take + i)
      BY <3>1 DEF PendingAt
    <3>3. pos + (take + i) = pos + take + i
      BY <3>1, <1>2
    <3> HIDE DEF IInv
    <3> QED BY <3>1, <3>2, <3>3, <1>3, <1>4
  <2> QED BY <2>1 DEF PendingAt
<1>12. pos' + Len(pending') = pos + Len(pending)
  <2> HIDE DEF IInv
  <2>1. pos' = pos + take
    BY <1>3
  <2> QED BY <1>2, <2>1, <1>4
<1>13. Path'
  <2>1. Queued'
    BY <1>3, <1>6, <1>12 DEF Queued
  <2>2. End' = End
    BY <1>3, <1>12 DEF End
  <2>3. InHand'
    BY <1>3, <1>6, <2>2 DEF InHand
  <2>4. ErrorLast'
    BY <1>3, <1>6 DEF ErrorLast
  <2> QED BY <2>1, <2>3, <2>4 DEF Path
<1>14. ErrorWaits'
  <2>1. last_err => Len(pending) < req[r].size
    BY <1>3 DEF ErrorWaits
  <2>2. last_err => take = Len(pending)
    BY <2>1, <1>2, <1>7
  <2>3. last_err => pending' = <<>>
    BY <2>2, <1>1, <1>2, <1>4 DEF TypeOK
  <2> QED BY <2>3, <1>3, <1>5, <1>9 DEF ErrorWaits
<1>15. TaskEnds'
  BY <1>3 DEF TaskEnds, HasErr
<1>16. ErrorEnds' /\ ErrorAfterAllData'
  BY <1>3, <1>9 DEF ErrorEnds, ErrorAfterAllData
<1>17. ForwardReadsAreTheFile'
  <2>1. \A i \in 1..take : SubSeq(pending, 1, take)[i] = pos + i
    BY <1>2, <1>4 DEF PendingAt
  <2>2. \A i \in 1..Len(reply'[r].bytes) : reply'[r].bytes[i] = reply'[r].off + i
    <3> HIDE DEF IInv
    <3>1. reply'[r].bytes = SubSeq(pending, 1, take) /\ reply'[r].off = pos
      BY <1>9
    <3>2. Len(SubSeq(pending, 1, take)) = take
      BY <1>4
    <3> QED BY <2>1, <3>1, <3>2
  <2>3. \A q \in Readers \ {r} : reply'[q] = reply[q]
    BY <1>9
  <2> QED BY <2>2, <2>3 DEF ForwardReadsAreTheFile
<1>18. NoSilentTruncation'
  <2>1. ASSUME take = 0 PROVE errTold \/ (srv = "finished" /\ pos = total)
    <3>1. pending = <<>> /\ upstream_done
      BY <2>1, <1>3, <1>5, <1>8 DEF Pulling
    <3>2. ~last_err /\ chan = <<>> /\ task = "done"
      BY <3>1, <1>3, <1>6 DEF SurfacesError, ErrorLast
    <3>3. taken = pos
      BY <3>1, <3>2, <1>2, <1>6 DEF InHand, End
    <3> QED BY <3>2, <3>3, <1>6 DEF TaskEnds, HasErr
  <2>2. SubSeq(pending, 1, take) = <<>> => take = 0
    BY <1>4
  <2> QED BY <2>1, <2>2, <1>3, <1>9 DEF NoSilentTruncation
<1> QED BY <1>1, <1>10, <1>11, <1>13, <1>14, <1>15, <1>16, <1>17, <1>18

\* The three outcomes of rx.recv() in the pull loop.
LEMMA DataRecv ==
  ASSUME IInv, NEW r \in Readers, RecvBytes(r) \/ RecvErr(r) \/ RecvClosed(r)
  PROVE  IInv'
<1> USE DEF IInv
<1>1. TypeOK'
  BY TypeReader DEF Reader
<1>2. /\ UNCHANGED <<total, srvVars, taskVars, pos, tailVars, readVars, closeVars>>
      /\ pc[r] = "pull" /\ Len(pending) < req[r].size /\ ~upstream_done
  BY DEF RecvBytes, RecvErr, RecvClosed, Pulling
<1>3. Queued /\ InHand /\ ErrorLast /\ ~last_err /\ handle = "open" /\ rxOpen
  BY <1>2, OpenInside DEF ErrorLast
<1>4. lock = r /\ \A q \in Readers \ {r} : pc[q] # "pull"
  BY <1>2 DEF Pull
<1>5. Pull' /\ ErrorEnds' /\ ForwardReadsAreTheFile' /\ ErrorAfterAllData' /\ NoSilentTruncation'
  BY <1>2 DEF Pull, ErrorEnds, ForwardReadsAreTheFile, ErrorAfterAllData, NoSilentTruncation
<1>6. chan \in Seq(Item) /\ Len(chan) \in Nat /\ pending \in Seq(Byte) /\ Len(pending) \in Nat
      /\ pos \in Nat
  BY DEF TypeOK
<1>7. CASE RecvClosed(r)
  <2>1. chan = <<>> /\ task = "done" /\ upstream_done' = TRUE /\ UNCHANGED <<chan, pending, last_err>>
    BY <1>7 DEF RecvClosed
  <2>2. PendingAt' /\ ErrorWaits' /\ TaskEnds'
    BY <2>1, <1>2, <1>3 DEF PendingAt, ErrorWaits, TaskEnds, HasErr
  <2>3. Path'
    BY <2>1, <1>2, <1>3 DEF Path, Queued, InHand, End, ErrorLast
  <2> QED BY <1>1, <1>5, <2>2, <2>3
<1>8. ASSUME chan # <<>>, chan' = Tail(chan) PROVE
        /\ Len(chan') = Len(chan) - 1 /\ Len(chan) > 0 /\ Head(chan) = chan[1] /\ chan[1] \in Item
        /\ \A i \in 1..(Len(chan) - 1) : chan'[i] = chan[i + 1]
        /\ chan' = <<>> <=> Len(chan) = 1
        /\ chan[1].lo = pos + Len(pending)
  <2>1. Len(chan) > 0
    BY <1>6, <1>8
  <2>2. Len(chan') = Len(chan) - 1 /\ \A i \in 1..(Len(chan) - 1) : chan'[i] = chan[i + 1]
    BY <1>6, <1>8
  <2>3. Head(chan) = chan[1] /\ chan[1] \in Item
    BY <1>6, <1>8, <2>1
  <2>4. chan' = <<>> <=> Len(chan) = 1
    <3>1. chan' \in Seq(Item)
      BY <1>1 DEF TypeOK
    <3>2. chan' = <<>> <=> Len(chan') = 0
      BY <3>1, EmptySeq
    <3> QED BY <3>2, <2>2, <1>6
  <2> QED BY <2>1, <2>2, <2>3, <2>4, <1>3, <1>8 DEF Queued
<1>9. CASE RecvErr(r)
  <2>1. /\ chan # <<>> /\ Head(chan).kind = "err" /\ chan' = Tail(chan)
        /\ upstream_done' = TRUE /\ last_err' = TRUE /\ UNCHANGED pending
    BY <1>9 DEF RecvErr
  <2>2. Len(chan) = 1 /\ task = "done" /\ chan[1].lo = chan[1].hi /\ chan' = <<>>
    <3> HIDE DEF IInv
    <3>1. 1 \in 1..Len(chan) /\ chan[1].kind = "err"
      BY <2>1, <1>6, <1>8
    <3>2. 1 = Len(chan) /\ task = "done" /\ chan[1].lo = chan[1].hi
      BY <3>1, <1>3 DEF ErrorLast
    <3> QED BY <3>2, <2>1, <1>8
  <2>3. taken = pos + Len(pending)
    BY <2>1, <2>2, <1>3, <1>8 DEF InHand, End
  <2>4. PendingAt'
    BY <2>1, <1>2 DEF PendingAt
  <2>5. ErrorWaits'
    BY <2>1, <1>2, <1>4, StreamAssumption DEF ErrorWaits
  <2>6. TaskEnds'
    BY <2>1, <1>2 DEF TaskEnds
  <2>7. Path'
    <3>1. Len(chan') = 0
      BY <2>2
    <3>2. Queued'
      BY <2>2, <3>1 DEF Queued
    <3>4. task' = "done" /\ upstream_done'
      BY <2>1, <2>2, <1>2
    <3>5. ErrorLast'
      BY <2>2, <3>1, <3>4 DEF ErrorLast
    <3>3. InHand'
      BY <2>1, <2>2, <2>3, <1>2, <1>3 DEF InHand, End
    <3> QED BY <3>2, <3>3, <3>5 DEF Path
  <2> QED BY <1>1, <1>5, <2>4, <2>5, <2>6, <2>7
<1>10. CASE RecvBytes(r)
  <2>1. /\ chan # <<>> /\ Head(chan).kind = "ok" /\ chan' = Tail(chan)
        /\ pending' = pending \o Bytes(Head(chan)) /\ UNCHANGED <<upstream_done, last_err>>
    BY <1>10 DEF RecvBytes
  <2> DEFINE it == chan[1]
  <2>2. it \in Item /\ Head(chan) = it /\ it.kind = "ok" /\ it.lo = pos + Len(pending)
    BY <2>1, <1>8
  <2>3. it.lo \in Nat /\ it.hi \in Nat /\ it.lo <= it.hi
    BY <2>2 DEF Item
  <2> HIDE DEF it
  <2>4. /\ Bytes(it) \in Seq(Byte) /\ Len(Bytes(it)) = it.hi - it.lo
        /\ \A i \in 1..(it.hi - it.lo) : Bytes(it)[i] = it.lo + i
    BY <2>2, BytesType
  <2>5. /\ Len(pending') = Len(pending) + (it.hi - it.lo)
        /\ \A i \in 1..Len(pending) : pending'[i] = pending[i]
        /\ \A i \in 1..(it.hi - it.lo) : pending'[Len(pending) + i] = Bytes(it)[i]
    <3> HIDE DEF IInv
    <3>1. pending' = pending \o Bytes(it)
      BY <2>1, <2>2
    <3> QED BY <3>1, <2>4, <1>6, Join
  <2>6. pos + Len(pending') = it.hi
    BY <2>2, <2>3, <2>5, <1>6
  <2>7. PendingAt'
    <3>1. ASSUME NEW i \in 1..Len(pending') PROVE pending'[i] = pos + i
      <4>1. CASE i \in 1..Len(pending)
        BY <4>1, <2>5 DEF PendingAt
      <4>2. CASE i \notin 1..Len(pending)
        <5>1. i - Len(pending) \in 1..(it.hi - it.lo) /\ Len(pending) + (i - Len(pending)) = i
          BY <4>2, <2>3, <2>5, <1>6
        <5>2. pending'[i] = it.lo + (i - Len(pending))
          BY <5>1, <2>4, <2>5
        <5> QED BY <5>1, <5>2, <2>2, <2>3, <1>6
      <4> QED BY <4>1, <4>2
    <3> QED BY <3>1, <1>2 DEF PendingAt
  <2>8. ErrorWaits'
    BY <2>1, <1>3 DEF ErrorWaits
  <2>9. /\ chan' # <<>> => chan'[1].lo = it.hi /\ chan'[Len(chan')] = chan[Len(chan)]
        /\ chan' = <<>> => chan[Len(chan)] = it
    <3>1. CASE Len(chan) = 1
      BY <3>1, <2>1, <1>8 DEF it
    <3>2. CASE Len(chan) > 1
      <4>1. chan'[1] = chan[2] /\ chan'[Len(chan) - 1] = chan[Len(chan)] /\ chan' # <<>>
        BY <3>2, <2>1, <1>6, <1>8
      <4>2. chan[1].hi = chan[2].lo
        BY <3>2, <1>3, <1>6 DEF Queued
      <4> QED BY <4>1, <4>2, <2>1, <1>8 DEF it
    <3> QED BY <3>1, <3>2, <2>1, <1>6, <1>8
  <2>10. End' = End
    BY <2>1, <2>6, <2>9, <1>2 DEF End
  <2>11. Queued'
    <3>1. ASSUME NEW i \in 1..(Len(chan') - 1) PROVE chan'[i].hi = chan'[i + 1].lo
      <4>1. i \in 1..(Len(chan) - 1) /\ i + 1 \in 1..(Len(chan) - 1)
        BY <2>1, <1>6, <1>8
      <4>2. chan[i + 1].hi = chan[(i + 1) + 1].lo
        BY <4>1, <1>3 DEF Queued
      <4> QED BY <4>1, <4>2, <2>1, <1>8
    <3> QED BY <3>1, <2>6, <2>9, <1>2 DEF Queued
  <2>12. InHand'
    BY <2>10, <1>2, <1>3 DEF InHand
  <2>13. ErrorLast'
    <3>1. ASSUME NEW i \in 1..Len(chan'), chan'[i].kind = "err"
          PROVE  i = Len(chan') /\ task = "done" /\ chan'[i].lo = chan'[i].hi
      <4>1. i \in 1..(Len(chan) - 1) /\ i + 1 \in 1..Len(chan) /\ chan'[i] = chan[i + 1]
        BY <2>1, <1>6, <1>8
      <4>2. i + 1 = Len(chan) /\ task = "done" /\ chan[i + 1].lo = chan[i + 1].hi
        BY <4>1, <3>1, <1>3 DEF ErrorLast
      <4> QED BY <4>1, <4>2, <2>1, <1>6, <1>8
    <3> QED BY <3>1, <2>1, <1>2, <1>3 DEF ErrorLast
  <2>14. HasErr' <=> HasErr
    BY <2>1, <2>2, <2>9 DEF HasErr
  <2>15. TaskEnds'
    BY <2>1, <2>14, <1>2 DEF TaskEnds
  <2> QED BY <1>1, <1>5, <2>7, <2>8, <2>11, <2>12, <2>13, <2>15 DEF Path
<1> QED BY <1>7, <1>9, <1>10

\* Every step keeps the inductive invariant.
LEMMA DataStep == IInv /\ [Next]_vars => IInv'
<1> SUFFICES ASSUME IInv, [Next]_vars PROVE IInv'
  OBVIOUS
<1>1. CASE UNCHANGED vars
  <2>1. UNCHANGED <<total, srvVars, taskVars, chan, inner, closeVars>> /\ errTold' = errTold
    BY <1>1 DEF vars
  <2>2. PendingAt' /\ Path' /\ TaskEnds'
    BY <2>1, DataStill
  <2>3. TypeOK'
    BY <1>1, TypeStep DEF IInv
  <2>4. Pull' /\ ErrorWaits' /\ ErrorEnds'
    BY <1>1 DEF vars, IInv, Pull, ErrorWaits, ErrorEnds
  <2>5. ForwardReadsAreTheFile' /\ ErrorAfterAllData' /\ NoSilentTruncation'
    BY <1>1 DEF vars, IInv, ForwardReadsAreTheFile, ErrorAfterAllData, NoSilentTruncation
  <2> QED BY <2>2, <2>3, <2>4, <2>5 DEF IInv
<1>2. CASE Server \/ Task \/ Release \/ Close \/ Closed
  BY <1>2, DataServer, DataTask, DataClose
<1>3. CASE \E r \in Readers, off \in Offsets, size \in Sizes : Read(r, off, size)
  BY <1>3, DataBefore
<1>4. CASE \E r \in Readers : Reader(r)
  BY <1>4, DataBefore, DataAside, DataError, DataReturn, DataRecv DEF Reader
<1> QED BY <1>1, <1>2, <1>3, <1>4 DEF Next

\* What a forward read returns is the file: the bytes at its offset, in order,
\* whatever the chunks, the sizes, the capacity and the interleaving of threads.
THEOREM ForwardReads == Spec => []ForwardReadsAreTheFile
<1>1. IInv => ForwardReadsAreTheFile
  BY DEF IInv
<1> QED BY <1>1, DataInit, DataStep, PTL DEF Spec

\* An empty read means the end of a completed response, or an error that the
\* caller has already been told.
THEOREM EmptyMeansEnd == Spec => []NoSilentTruncation
<1>1. IInv => NoSilentTruncation
  BY DEF IInv
<1> QED BY <1>1, DataInit, DataStep, PTL DEF Spec

\* The error of the stream comes after every byte that preceded it.
THEOREM ErrorComesLast == Spec => []ErrorAfterAllData
<1>1. IInv => ErrorAfterAllData
  BY DEF IInv
<1> QED BY <1>1, DataInit, DataStep, PTL DEF Spec
=============================================================================
