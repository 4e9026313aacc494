-------------------------- MODULE StreamRefinement --------------------------
(***************************************************************************)
(* StreamHandle implements SequentialFile, for any number of readers, any  *)
(* capacities, offsets, sizes and tail lengths.                            *)
(***************************************************************************)
EXTENDS StreamHandleProofs

USE DEF srvVars, taskVars, inner, tailVars, readVars, closeVars

-----------------------------------------------------------------------------
(* What the refinement needs beside IInv.                                   *)

\* Nothing is passed on that the response does not have.
Bounded ==
  /\ taken <= avail /\ avail <= total
  /\ rxOpen => /\ pos + Len(pending) <= taken
               /\ \A i \in 1..Len(chan) : chan[i].hi <= taken

\* An error on its way, or told, is the error of a SELECT that failed.
Broken == srv \in {"failed", "killed"}

ErrorIsReal ==
  /\ task = "sendErr" \/ last_err \/ errTold => Broken
  /\ \A i \in 1..Len(chan) : chan[i].kind = "err" => Broken

\* Once the error has been told, nothing is left to return.
ToldIsLast == errTold => upstream_done /\ ~last_err /\ pending = <<>>

\* A thread outside read_blocking has no arguments.
IdleAsksNothing == \A r \in Readers : pc[r] = "idle" => req[r] = NoReq

RInv == Bounded /\ ErrorIsReal /\ ToldIsLast /\ IdleAsksNothing

Both == IInv /\ RInv

\* A handle that was just spawned.
LEMMA BothInit == Init => Both
<1> SUFFICES ASSUME Init PROVE RInv
  BY DataInit DEF Both
<1>1. Len(chan) = 0 /\ Len(pending) = 0
  BY DEF Init
<1>2. Bounded
  BY <1>1, StreamAssumption DEF Init, Bounded
<1> QED BY <1>1, <1>2 DEF Init, RInv, ErrorIsReal, ToldIsLast, IdleAsksNothing

\* What RInv speaks of, in the types a prover needs.
LEMMA Lengths == IInv =>
    /\ Len(pending) \in Nat /\ Len(chan) \in Nat /\ pos \in Nat /\ taken \in Nat /\ avail \in Nat
    /\ total \in Nat /\ total <= MaxBytes /\ MaxBytes \in Nat
    /\ \A i \in 1..Len(chan) : chan[i].lo \in Nat /\ chan[i].hi \in Nat /\ chan[i].lo <= chan[i].hi
<1> SUFFICES ASSUME IInv PROVE
      /\ Len(pending) \in Nat /\ Len(chan) \in Nat /\ pos \in Nat /\ taken \in Nat /\ avail \in Nat
      /\ total \in Nat /\ total <= MaxBytes /\ MaxBytes \in Nat
      /\ \A i \in 1..Len(chan) : chan[i].lo \in Nat /\ chan[i].hi \in Nat /\ chan[i].lo <= chan[i].hi
  OBVIOUS
<1>1. \A i \in 1..Len(chan) : chan[i] \in Item
  BY DEF IInv, TypeOK
<1>2. \A i \in 1..Len(chan) : chan[i].lo \in Nat /\ chan[i].hi \in Nat /\ chan[i].lo <= chan[i].hi
  BY <1>1 DEF Item
<1> QED BY <1>2, StreamAssumption DEF IInv, TypeOK

\* The server puts no byte on the wire that the response does not have, and a
\* query that failed stays failed.
LEMMA RServer == Both /\ Server => RInv'
<1> SUFFICES ASSUME Both, Server PROVE RInv'
  OBVIOUS
<1> USE DEF Both
<1>1. UNCHANGED <<total, taskVars, chan, inner, tailVars, readVars, closeVars>>
  BY DEF Server, SrvAccept, SrvEmit, SrvFinish, SrvFail, SrvAbort
<1>2. avail' \in {avail, avail + 1} /\ avail' <= total
  BY Lengths DEF Server, SrvAccept, SrvEmit, SrvFinish, SrvFail, SrvAbort, RInv, Bounded
<1>3. Broken => Broken'
  BY DEF Broken, Server, SrvAccept, SrvEmit, SrvFinish, SrvFail, SrvAbort
<1>4. Bounded'
  BY <1>1, <1>2, Lengths DEF RInv, Bounded, rxOpen
<1>5. ErrorIsReal'
  BY <1>1, <1>3 DEF RInv, ErrorIsReal
<1> QED BY <1>1, <1>4, <1>5 DEF RInv, ToldIsLast, IdleAsksNothing

\* Appending the item the task holds to the channel.
LEMMA RAppend ==
  ASSUME Both, chan' = Append(chan, hand), hand.hi = taken, UNCHANGED <<srvVars, taken>>,
         hand.kind = "err" => Broken
  PROVE  /\ \A i \in 1..Len(chan') : chan'[i].kind = "err" => Broken'
         /\ rxOpen => \A i \in 1..Len(chan') : chan'[i].hi <= taken'
<1>1. chan \in Seq(Item) /\ hand \in Item /\ taken \in Nat
  BY DEF Both, IInv, TypeOK
<1>2. /\ Len(chan') = Len(chan) + 1 /\ chan'[Len(chan) + 1] = hand
      /\ \A i \in 1..Len(chan) : chan'[i] = chan[i]
  BY <1>1
<1>3. Len(chan) \in Nat
  BY <1>1
<1>4. \A i \in 1..Len(chan') : i \in 1..Len(chan) \/ i = Len(chan) + 1
  BY <1>2, <1>3
<1>5. (Broken' <=> Broken)
  BY DEF Broken
<1>6. \A i \in 1..Len(chan) : chan[i].kind = "err" => Broken
  BY DEF Both, RInv, ErrorIsReal
<1>7. rxOpen => \A i \in 1..Len(chan) : chan[i].hi <= taken
  BY DEF Both, RInv, Bounded
<1> QED BY <1>1, <1>2, <1>4, <1>5, <1>6, <1>7

\* The task takes what is on the wire and passes it on.
LEMMA RTask == Both /\ Task => RInv'
<1> SUFFICES ASSUME Both, Task PROVE RInv'
  OBVIOUS
<1>0. UNCHANGED <<total, srvVars, inner, tailVars, readVars, closeVars>>
  BY DEF Task, TaskConnected, TaskError, TaskChunk, TaskEof, TaskCancelled, TaskSend,
         TaskReaderGone, TaskSendErr
<1>1. ToldIsLast' /\ IdleAsksNothing' /\ (Broken' <=> Broken) /\ (rxOpen' <=> rxOpen)
  BY <1>0 DEF Both, RInv, ToldIsLast, IdleAsksNothing, Broken, rxOpen
<1>2. CASE chan' = chan
  <2>1. taken' \in {taken, avail} /\ (task' = "sendErr" => Broken)
    BY <1>2 DEF Task, TaskConnected, TaskError, TaskChunk, TaskEof, TaskCancelled, TaskSend,
         TaskReaderGone, TaskSendErr, EnterSelect, Both, RInv, ErrorIsReal, Broken
  <2>2. Bounded'
    BY <1>0, <1>1, <1>2, <2>1, Lengths DEF Both, RInv, Bounded
  <2>3. ErrorIsReal'
    BY <1>0, <1>1, <1>2, <2>1 DEF Both, RInv, ErrorIsReal
  <2> QED BY <1>1, <2>2, <2>3 DEF RInv
<1>3. CASE chan' # chan
  <2>1. /\ chan' = Append(chan, hand) /\ rxOpen /\ taken' = taken /\ task' # "sendErr"
        /\ task \in {"send", "sendErr"}
    BY <1>3 DEF Task, TaskConnected, TaskError, TaskChunk, TaskEof, TaskCancelled, TaskSend,
         TaskReaderGone, TaskSendErr, EnterSelect
  <2>2. hand.hi = taken /\ (hand.kind = "err" => Broken)
    BY <2>1 DEF Both, IInv, Path, InHand, RInv, ErrorIsReal
  <2>3. /\ \A i \in 1..Len(chan') : chan'[i].kind = "err" => Broken'
        /\ \A i \in 1..Len(chan') : chan'[i].hi <= taken'
    BY <2>1, <2>2, <1>0, RAppend
  <2>4. Bounded'
    BY <1>0, <1>1, <2>1, <2>3 DEF Both, RInv, Bounded
  <2>5. ErrorIsReal'
    BY <1>0, <1>1, <2>1, <2>3 DEF Both, RInv, ErrorIsReal
  <2> QED BY <1>1, <2>4, <2>5 DEF RInv
<1> QED BY <1>2, <1>3

\* Closing throws the channel away and may kill the query.
LEMMA RClose == Both /\ (Release \/ Close \/ Closed) => RInv'
<1> SUFFICES ASSUME Both, Release \/ Close \/ Closed PROVE RInv'
  OBVIOUS
<1>1. /\ UNCHANGED <<total, avail, taken, task, inner, readVars>>
      /\ Broken => Broken'
      /\ rxOpen' => rxOpen
      /\ chan' = chan \/ (chan' = <<>> /\ ~rxOpen')
  BY DEF Release, Close, Closed, DropHandle, DropFields, KillDelivered, KillLost, vars, Broken, rxOpen
<1>2. ToldIsLast' /\ IdleAsksNothing'
  BY <1>1 DEF Both, RInv, ToldIsLast, IdleAsksNothing
<1>3. Bounded'
  BY <1>1 DEF Both, RInv, Bounded
<1>4. ErrorIsReal'
  <2>1. chan' = <<>> => Len(chan') = 0
    OBVIOUS
  <2> QED BY <1>1, <2>1 DEF Both, RInv, ErrorIsReal
<1> QED BY <1>2, <1>3, <1>4 DEF RInv

\* Steps of a thread that leave the data path alone.
LEMMA RStill ==
  ASSUME Both, UNCHANGED <<total, srvVars, taskVars, chan, inner, closeVars, errTold>>
  PROVE  Bounded' /\ ErrorIsReal' /\ ToldIsLast'
<1>1. (Broken' <=> Broken) /\ (rxOpen' <=> rxOpen)
  BY DEF Broken, rxOpen
<1> QED BY <1>1 DEF Both, RInv, Bounded, ErrorIsReal, ToldIsLast

\* A thread asks, decides and fetches, or is answered beside the stream.
LEMMA RBefore ==
  ASSUME Both, NEW r \in Readers,
         \/ \E off \in Offsets, size \in Sizes : Read(r, off, size)
         \/ Check(r) \/ Fetch(r) \/ Store(r) \/ ServeForward(r)
         \/ ServeTail(r) \/ ServeReadOrder(r)
  PROVE  RInv'
<1>1. UNCHANGED <<total, srvVars, taskVars, chan, inner, closeVars, errTold>>
  BY DEF Read, Check, Fetch, Store, ServeForward, ServeTail, ServeReadOrder
<1>2. IdleAsksNothing'
  <2>1. pc \in [Readers -> {"idle", "check", "fetch", "store", "serve", "pull"}]
        /\ req \in [Readers -> [off : Nat, size : Nat]]
    BY DEF Both, IInv, TypeOK
  <2>2. \/ \E step \in {"check", "fetch", "store", "serve", "pull"} :
             Goto(r, step) /\ \A q \in Readers \ {r} : req'[q] = req[q]
        \/ \E kind, bytes : Return(r, kind, bytes)
    BY <2>1 DEF Read, Check, Fetch, Store, ServeForward, ServeTail, ServeReadOrder
  <2>3. ASSUME NEW q \in Readers, pc'[q] = "idle" PROVE req'[q] = NoReq
    BY <2>1, <2>2, <2>3 DEF Goto, Return, Both, RInv, IdleAsksNothing
  <2> QED BY <2>3 DEF IdleAsksNothing
<1> QED BY <1>1, <1>2, RStill DEF RInv

\* Returning leaves a thread without arguments.
LEMMA RReturn ==
  ASSUME Both, NEW r \in Readers, NEW kind, NEW bytes, Return(r, kind, bytes)
  PROVE  IdleAsksNothing'
  BY DEF Both, IInv, TypeOK, RInv, IdleAsksNothing, Return, Goto

\* The error is told when nothing is left before it.
LEMMA RError ==
  ASSUME Both, NEW r \in Readers, ServeError(r) \/ ReturnError(r)
  PROVE  RInv'
<1>1. /\ UNCHANGED <<total, srvVars, taskVars, chan, pending, pos, upstream_done, closeVars>>
      /\ last_err /\ ~last_err' /\ errTold'
      /\ Return(r, "err", <<>>)
  BY DEF ServeError, ReturnError, TakesError, SurfacesError
<1>2. rxOpen /\ ErrorLast
  <2>1. pc[r] # "idle"
    BY DEF ServeError, ReturnError
  <2> QED BY <2>1, OpenInside DEF Both
<1>3. pending = <<>>
  BY <1>1 DEF ServeError, ReturnError, SurfacesError, Free, Both, IInv, ErrorWaits
<1>4. (Broken' <=> Broken) /\ Broken /\ (rxOpen' <=> rxOpen)
  BY <1>1 DEF Broken, rxOpen, Both, RInv, ErrorIsReal
<1>5. ToldIsLast'
  BY <1>1, <1>2, <1>3 DEF ToldIsLast, ErrorLast
<1>6. Bounded' /\ ErrorIsReal'
  BY <1>1, <1>4 DEF Both, RInv, Bounded, ErrorIsReal
<1>7. IdleAsksNothing'
  BY <1>1, RReturn
<1> QED BY <1>5, <1>6, <1>7 DEF RInv

\* A read takes from `pending` what it returns.
LEMMA RBytes ==
  ASSUME Both, NEW r \in Readers, ReturnBytes(r)
  PROVE  RInv'
<1> DEFINE take == IF req[r].size < Len(pending) THEN req[r].size ELSE Len(pending)
<1>1. /\ UNCHANGED <<total, srvVars, taskVars, chan, upstream_done, last_err, closeVars, errTold>>
      /\ pending' = SubSeq(pending, take + 1, Len(pending)) /\ pos' = pos + take
      /\ Return(r, "fwd", SubSeq(pending, 1, take))
  BY DEF ReturnBytes
<1>2. take \in Nat /\ take <= Len(pending) /\ pending \in Seq(Byte) /\ Len(pending) \in Nat /\ pos \in Nat
  BY DEF Both, IInv, TypeOK
<1> HIDE DEF take
<1>3. Len(pending') = Len(pending) - take
  BY <1>1, <1>2, Cut
<1>4. pending = <<>> => pending' = <<>>
  <2>1. ASSUME pending = <<>> PROVE pending' = <<>>
    <3>1. Len(pending') = 0 /\ pending' \in Seq(Byte)
      <4>1. Len(pending) = 0
        BY <2>1
      <4>2. pending' \in Seq(Byte)
        BY TypeReader DEF Both, IInv, Reader, TypeOK
      <4> QED BY <4>1, <4>2, <1>2, <1>3
    <3> QED BY <3>1, EmptySeq
  <2> QED BY <2>1
<1>5. (Broken' <=> Broken) /\ (rxOpen' <=> rxOpen)
  BY <1>1 DEF Broken, rxOpen
<1>6. Bounded'
  <2>1. pos' = pos + take
    BY <1>1
  <2>2. pos' + Len(pending') = pos + Len(pending)
    BY <1>2, <1>3, <2>1
  <2> QED BY <2>2, <1>1, <1>5 DEF Both, RInv, Bounded
<1>7. ErrorIsReal' /\ ToldIsLast'
  BY <1>1, <1>4, <1>5 DEF Both, RInv, ErrorIsReal, ToldIsLast
<1>8. IdleAsksNothing'
  BY <1>1, RReturn
<1> QED BY <1>6, <1>7, <1>8 DEF RInv

\* A read takes the next item of the channel.
LEMMA RRecv ==
  ASSUME Both, NEW r \in Readers, RecvBytes(r) \/ RecvErr(r) \/ RecvClosed(r)
  PROVE  RInv'
<1>1. /\ UNCHANGED <<total, srvVars, taskVars, pos, readVars, closeVars>>
      /\ ~upstream_done
  BY DEF RecvBytes, RecvErr, RecvClosed, Pulling
<1>2. rxOpen /\ Queued
  <2>1. pc[r] # "idle"
    BY DEF RecvBytes, RecvErr, RecvClosed, Pulling
  <2> QED BY <2>1, OpenInside DEF Both
<1>3. (Broken' <=> Broken) /\ (rxOpen' <=> rxOpen) /\ IdleAsksNothing' /\ ~errTold
  BY <1>1 DEF Broken, rxOpen, IdleAsksNothing, Both, RInv, ToldIsLast
<1>4. CASE RecvClosed(r)
  BY <1>1, <1>3, <1>4 DEF RecvClosed, Both, RInv, Bounded, ErrorIsReal, ToldIsLast
<1>5. CASE RecvBytes(r) \/ RecvErr(r)
  <2>1. chan \in Seq(Item) /\ chan # <<>> /\ chan' = Tail(chan) /\ Head(chan) = chan[1]
    <3>1. chan # <<>> /\ chan' = Tail(chan)
      BY <1>5 DEF RecvBytes, RecvErr
    <3>2. chan \in Seq(Item)
      BY DEF Both, IInv, TypeOK
    <3> QED BY <3>1, <3>2
  <2>2. /\ Len(chan) \in Nat /\ Len(chan) >= 1 /\ Len(chan') = Len(chan) - 1
        /\ \A i \in 1..(Len(chan) - 1) : chan'[i] = chan[i + 1]
    BY <2>1
  <2>3. \A i \in 1..Len(chan') : i + 1 \in 1..Len(chan) /\ chan'[i] = chan[i + 1]
    BY <2>2
  <2>4. /\ \A i \in 1..Len(chan') : chan'[i].kind = "err" => Broken
        /\ \A i \in 1..Len(chan') : chan'[i].hi <= taken
    BY <2>3, <1>2 DEF Both, RInv, ErrorIsReal, Bounded
  <2>5. chan[1] \in Item /\ 1 \in 1..Len(chan)
    BY <2>1, <2>2
  <2>6. CASE RecvErr(r)
    <3>1. pending' = pending /\ last_err' /\ Broken
      BY <2>1, <2>5, <2>6 DEF RecvErr, Both, RInv, ErrorIsReal
    <3> QED BY <3>1, <1>1, <1>3, <2>4 DEF Both, RInv, Bounded, ErrorIsReal, ToldIsLast
  <2>7. CASE RecvBytes(r)
    <3>1. pending' = pending \o Bytes(chan[1]) /\ last_err' = last_err
      BY <2>1, <2>7 DEF RecvBytes
    <3>2. Len(pending') = Len(pending) + (chan[1].hi - chan[1].lo)
      <4>1. pending \in Seq(Byte) /\ Bytes(chan[1]) \in Seq(Byte)
            /\ Len(Bytes(chan[1])) = chan[1].hi - chan[1].lo
        BY <2>5, BytesType DEF Both, IInv, TypeOK
      <4> QED BY <3>1, <4>1, Join
    <3>3. chan[1].lo = pos + Len(pending) /\ chan[1].hi <= taken
      BY <1>2, <2>1, <2>5 DEF Queued, Both, RInv, Bounded
    <3>4. pos' + Len(pending') = chan[1].hi
      <4>1. chan[1].lo \in Nat /\ chan[1].hi \in Nat /\ pos \in Nat /\ Len(pending) \in Nat
        BY <2>5, Lengths DEF Both
      <4>2. pos' = pos
        BY <1>1
      <4> QED BY <3>2, <3>3, <4>1, <4>2
    <3>5. Bounded'
      BY <3>3, <3>4, <1>1, <1>3, <2>4 DEF Both, RInv, Bounded
    <3> QED BY <3>1, <3>5, <1>1, <1>3, <2>4 DEF Both, RInv, ErrorIsReal, ToldIsLast
  <2> QED BY <2>6, <2>7, <1>5
<1> QED BY <1>4, <1>5

\* Every step keeps both invariants.
LEMMA BothStep == Both /\ [Next]_vars => Both'
<1> SUFFICES ASSUME Both, [Next]_vars PROVE RInv'
  BY DataStep DEF Both
<1>1. CASE UNCHANGED vars
  <2>1. UNCHANGED <<total, srvVars, taskVars, chan, inner, closeVars, errTold>> /\ UNCHANGED <<pc, req>>
    BY <1>1 DEF vars
  <2> QED BY <2>1, RStill DEF RInv, IdleAsksNothing, Both
<1>2. CASE Server \/ Task \/ Release \/ Close \/ Closed
  BY <1>2, RServer, RTask, RClose
<1>3. CASE \E r \in Readers, off \in Offsets, size \in Sizes : Read(r, off, size)
  BY <1>3, RBefore
<1>4. CASE \E r \in Readers : Reader(r)
  BY <1>4, RBefore, RError, RBytes, RRecv DEF Reader
<1> QED BY <1>1, <1>2, <1>3, <1>4 DEF Next

-----------------------------------------------------------------------------
(* Steps of the handle are steps of the file.                               *)

\* A handle that was just spawned is a file at its first byte.
LEMMA InitFile == Init => File!Init
  BY StreamAssumption DEF Init, File!Init, None, File!None, NoReq, File!NoReq

\* A step that touches nothing a caller can see.
LEMMA Unseen ==
  ASSUME UNCHANGED <<total, srv, errTold, pos, tail_buf, handle, req, reply>>
  PROVE  UNCHANGED File!vars
  BY DEF File!vars

\* The server ends the response, or does what no caller can see.
LEMMA ServerRefines == Server => File!End \/ UNCHANGED File!vars
<1> SUFFICES ASSUME Server PROVE File!End \/ UNCHANGED File!vars
  OBVIOUS
<1>1. CASE SrvFinish \/ SrvFail
  BY <1>1 DEF SrvFinish, SrvFail, File!End
<1>2. CASE SrvAccept \/ SrvEmit \/ SrvAbort
  BY <1>2 DEF SrvAccept, SrvEmit, SrvAbort, File!vars
<1> QED BY <1>1, <1>2 DEF Server

\* The task is not seen at all.
LEMMA TaskRefines == Task => UNCHANGED File!vars
<1> SUFFICES ASSUME Task PROVE UNCHANGED File!vars
  OBVIOUS
<1>1. UNCHANGED <<total, srv, errTold, pos, tail_buf, handle, req, reply>>
  BY DEF Task, TaskConnected, TaskError, TaskChunk, TaskEof, TaskCancelled, TaskSend,
         TaskReaderGone, TaskSendErr
<1> QED BY <1>1, Unseen

\* Of closing, the release is seen, and a KILL that breaks the response.
LEMMA CloseRefines ==
  Both /\ (Release \/ Close \/ Closed) => File!Close \/ File!End \/ UNCHANGED File!vars
<1> SUFFICES ASSUME Both, Release \/ Close \/ Closed
             PROVE  File!Close \/ File!End \/ UNCHANGED File!vars
  OBVIOUS
<1>1. CASE Release
  BY <1>1 DEF Release, File!Close, Both, RInv, IdleAsksNothing, NoReq, File!NoReq
<1>2. CASE DropHandle \/ DropFields \/ KillLost
  BY <1>2 DEF DropHandle, DropFields, KillLost, File!vars
<1>3. CASE KillDelivered
  <2>1. CASE srv = "running"
    BY <1>3, <2>1 DEF KillDelivered, File!End
  <2>2. CASE srv # "running"
    BY <1>3, <2>2, Unseen DEF KillDelivered
  <2> QED BY <2>1, <2>2
<1>4. CASE Closed
  BY <1>4, Unseen DEF Closed, vars
<1> QED BY <1>1, <1>2, <1>3, <1>4 DEF Close

\* A thread inside read_blocking has asked for something.
LEMMA Inside ==
  ASSUME Both, NEW r \in Readers, pc[r] # "idle"
  PROVE  /\ req[r] # File!NoReq /\ req[r].off \in Nat /\ req[r].size \in Nat /\ req[r].size > 0
         /\ handle = "open" /\ pos <= total
<1>1. req[r].off \in Nat /\ req[r].size \in Nat /\ req[r].size > 0
  BY DEF Both, IInv, TypeOK, Pull
<1>2. req[r] # File!NoReq
  BY <1>1 DEF File!NoReq
<1>3. handle = "open" /\ rxOpen
  BY OpenInside DEF Both
<1>4. pos <= total
  BY <1>3, Lengths DEF Both, RInv, Bounded
<1> QED BY <1>1, <1>2, <1>3, <1>4

\* The call.
LEMMA ReadRefines ==
  ASSUME Both, NEW r \in Readers, NEW off \in Offsets, NEW size \in Sizes, Read(r, off, size)
  PROVE  File!Ask(r, off, size)
  BY DEF Read, File!Ask, Both, RInv, IdleAsksNothing, NoReq, File!NoReq

\* Before it returns, a thread shows nothing but a tail buffer it fetched.
LEMMA BeforeRefines ==
  ASSUME Both, NEW r \in Readers,
         \/ Check(r) \/ Fetch(r) \/ Store(r) \/ ServeForward(r)
         \/ RecvBytes(r) \/ RecvErr(r) \/ RecvClosed(r)
  PROVE  File!Materialize \/ UNCHANGED File!vars
<1>1. CASE Store(r)
  <2>1. CASE mat[r] = None
    BY <1>1, <2>1, Unseen DEF Store
  <2>2. CASE mat[r] # None
    <3>1. req[r] # File!NoReq
      BY <1>1, Inside DEF Store
    <3>2. tail_buf' \in TailLens
      BY <1>1, <2>2 DEF Store, Both, IInv, TypeOK
    <3> QED BY <1>1, <3>1, <3>2 DEF Store, File!Materialize
  <2> QED BY <2>1, <2>2
<1>2. CASE ~Store(r)
  BY <1>2, Unseen DEF Check, Fetch, ServeForward, RecvBytes, RecvErr, RecvClosed
<1> QED BY <1>1, <1>2

\* The result, as the file sees it.
LEMMA ReturnRefines ==
  ASSUME Both, NEW r \in Readers, pc[r] # "idle", NEW kind, NEW bytes, Return(r, kind, bytes),
         UNCHANGED <<total, srv, tail_buf, handle>>
  PROVE  File!Return(r, kind, bytes)
  BY Inside DEF Return, File!Return, NoReq, File!NoReq

\* The error is returned at the cursor of a broken response, and once.
LEMMA ErrorRefines ==
  ASSUME Both, NEW r \in Readers, ServeError(r) \/ ReturnError(r)
  PROVE  File!ReturnError(r)
<1>1. /\ UNCHANGED <<total, srv, tail_buf, handle, pos>>
      /\ last_err /\ errTold' = TRUE /\ pc[r] # "idle"
      /\ Return(r, "err", <<>>)
  BY DEF ServeError, ReturnError, TakesError, SurfacesError
<1>2. req[r].off = pos
  BY DEF ServeError, ReturnError, TakesError, Both, IInv, Pull
<1>3. Broken /\ ~errTold
  BY <1>1 DEF Both, RInv, ErrorIsReal, ToldIsLast
<1>4. File!Return(r, "err", <<>>)
  BY <1>1, ReturnRefines
<1>5. errTold = FALSE
  BY <1>3 DEF Both, IInv, TypeOK
<1> QED BY <1>1, <1>2, <1>3, <1>4, <1>5 DEF File!ReturnError, Broken

\* The tail buffer lies behind every byte of the response.
LEMMA WindowIsFar ==
  ASSUME Both, NEW r \in Readers, pc[r] # "idle", tail_buf # None
  PROVE  /\ tail_buf \in Nat /\ PSEUDO_EOF \in Nat /\ BufOrigin = PSEUDO_EOF - tail_buf
         /\ pos \in Nat /\ pos < PSEUDO_EOF - tail_buf
<1>1. tail_buf \in TailLens
  BY DEF Both, IInv, TypeOK
<1>2. MaxBytes + tail_buf < PSEUDO_EOF
  BY <1>1, PinnedAssumption
<1>3. tail_buf \in Nat /\ PSEUDO_EOF \in Nat /\ BufOrigin = PSEUDO_EOF - tail_buf
  BY TailLength DEF Both, IInv
<1>4. pos \in Nat /\ total \in Nat /\ total <= MaxBytes /\ MaxBytes \in Nat
  BY Lengths DEF Both
<1>5. pos <= total
  BY Inside
<1> QED BY <1>2, <1>3, <1>4, <1>5

\* A read from the tail buffer gets its slice of the window.
LEMMA TailRefines ==
  ASSUME Both, NEW r \in Readers, ServeTail(r)
  PROVE  File!ReturnTail(r)
<1> DEFINE off  == req[r].off
           size == req[r].size
           left == IF off < PSEUDO_EOF THEN PSEUDO_EOF - off ELSE 0
           take == IF size < left THEN size ELSE left
<1>1. pc[r] # "idle" /\ tail_buf # None /\ off >= BufOrigin /\ UNCHANGED <<total, srv, tail_buf, handle, errTold, pos>>
  <2>1. /\ pc[r] # "idle" /\ UNCHANGED <<total, srv, tail_buf, handle, errTold, pos>>
        /\ InBuffer(off) \/ PastEof(off)
    BY DEF ServeTail
  <2>2. tail_buf # None
    BY <2>1 DEF InBuffer, PastEof
  <2>3. off \in Nat
    BY <2>1, Inside
  <2> QED BY <2>1, <2>2, <2>3, WindowIsFar DEF InBuffer, PastEof
<1>2. /\ tail_buf \in Nat /\ PSEUDO_EOF \in Nat /\ BufOrigin = PSEUDO_EOF - tail_buf
      /\ pos \in Nat /\ pos < PSEUDO_EOF - tail_buf /\ off \in Nat /\ size \in Nat
  BY <1>1, WindowIsFar, Inside
<1>3. off # pos /\ File!InWindow(off)
  BY <1>1, <1>2 DEF File!InWindow, None, File!None
<1>4. Return(r, "tail", [i \in 1..take |-> off - (PSEUDO_EOF - tail_buf) + i])
  <2>1. CASE InBuffer(off) /\ Return(r, "tail", TailSlice(off, size))
    <3>1. tail_buf - (off - BufOrigin) = left
      BY <2>1, <1>2 DEF InBuffer
    <3>2. TailSlice(off, size) = [i \in 1..take |-> off - (PSEUDO_EOF - tail_buf) + i]
      BY <3>1, <1>2 DEF TailSlice
    <3> QED BY <2>1, <3>2
  <2>2. CASE PastEof(off) /\ Return(r, "tail", <<>>)
    <3>1. take = 0
      BY <2>2, <1>2 DEF PastEof
    <3>2. [i \in 1..take |-> off - (PSEUDO_EOF - tail_buf) + i] = <<>>
      BY <3>1
    <3> QED BY <2>2, <3>2
  <2> QED BY <2>1, <2>2 DEF ServeTail
<1>5. File!Return(r, "tail", [i \in 1..take |-> off - (PSEUDO_EOF - tail_buf) + i])
  BY <1>1, <1>4, ReturnRefines
<1> QED BY <1>1, <1>3, <1>5 DEF File!ReturnTail

\* A refused read is neither at the cursor nor in the window.
LEMMA OrderRefines ==
  ASSUME Both, NEW r \in Readers, ServeReadOrder(r)
  PROVE  File!ReturnReadOrder(r)
<1>1. /\ pc[r] # "idle" /\ UNCHANGED <<total, srv, tail_buf, handle, errTold, pos>>
      /\ ~InBuffer(req[r].off) /\ ~PastEof(req[r].off) /\ req[r].off # pos
      /\ Return(r, "order", <<>>)
  BY DEF ServeReadOrder
<1>2. ~File!InWindow(req[r].off)
  <2>1. ASSUME File!InWindow(req[r].off) PROVE FALSE
    <3>1. tail_buf # None /\ req[r].off >= PSEUDO_EOF - tail_buf
      BY <2>1 DEF File!InWindow, None, File!None
    <3>2. BufOrigin = PSEUDO_EOF - tail_buf /\ PSEUDO_EOF \in Nat /\ req[r].off \in Nat
      BY <1>1, <3>1, WindowIsFar, Inside
    <3> QED BY <1>1, <3>1, <3>2 DEF InBuffer, PastEof
  <2> QED BY <2>1
<1>3. File!Return(r, "order", <<>>)
  BY <1>1, ReturnRefines
<1> QED BY <1>1, <1>2, <1>3 DEF File!ReturnReadOrder

\* A forward read gets the bytes at the cursor: all it asked for, or what is left
\* when the response has ended.
LEMMA BytesRefines ==
  ASSUME Both, NEW r \in Readers, ReturnBytes(r)
  PROVE  File!ReturnBytes(r)
<1> DEFINE size == req[r].size
           take == IF size < Len(pending) THEN size ELSE Len(pending)
<1>1. /\ UNCHANGED <<total, srv, tail_buf, handle, errTold>> /\ pos' = pos + take
      /\ pc[r] = "pull" /\ ~Pulling(r) /\ ~SurfacesError
      /\ Return(r, "fwd", SubSeq(pending, 1, take))
  BY DEF ReturnBytes
<1>2. /\ size \in Nat /\ size > 0 /\ take \in Nat /\ take <= size /\ take <= Len(pending)
      /\ pending \in Seq(Byte) /\ Len(pending) \in Nat /\ pos \in Nat
  <2>1. pending \in Seq(Byte)
    BY DEF Both, IInv, TypeOK
  <2>2. size \in Nat /\ size > 0
    BY <1>1, Inside
  <2> QED BY <2>1, <2>2, Lengths DEF Both
<1>3. req[r].off = pos /\ handle = "open" /\ rxOpen /\ InHand /\ ErrorLast
  BY <1>1, OpenInside DEF Both, IInv, Pull
<1>4. SubSeq(pending, 1, take) = [i \in 1..take |-> pos + i]
  <2> HIDE DEF take
  <2>1. \A i \in 1..take : pending[i] = pos + i
    BY <1>2 DEF Both, IInv, PendingAt
  <2>2. SubSeq(pending, 1, take) = [i \in 1..take |-> pending[i]]
    BY <1>2
  <2> QED BY <2>1, <2>2
<1>5. pos + take <= total
  BY <1>2, <1>3, Lengths DEF Both, RInv, Bounded
<1>6. File!Served(take, size)
  <2>1. CASE take = size
    <3>1. ~errTold
      BY <2>1, <1>2 DEF Both, RInv, ToldIsLast
    <3> QED BY <2>1, <3>1, <1>2, <1>5 DEF File!Served
  <2>2. CASE take # size
    <3>1. take = Len(pending) /\ Len(pending) < size
      BY <2>2, <1>2
    <3>2. upstream_done
      BY <3>1, <1>1 DEF Pulling
    <3>3. chan = <<>> /\ task = "done" /\ End = taken /\ End = pos + Len(pending) /\ ~HasErr
      BY <3>2, <1>3 DEF ErrorLast, InHand, End, HasErr
    <3>4. CASE errTold
      <4>1. Broken /\ Len(pending) = 0
        BY <3>4 DEF Both, RInv, ErrorIsReal, ToldIsLast
      <4> QED BY <3>1, <3>4, <4>1, <1>2, <1>5 DEF File!Served, Broken
    <3>5. CASE last_err
      <4>1. Broken /\ ~errTold /\ pending # <<>>
        BY <3>5, <1>1 DEF Both, RInv, ErrorIsReal, ToldIsLast, SurfacesError
      <4>2. Len(pending) # 0
        BY <4>1, <1>2, EmptySeq
      <4> QED BY <3>1, <4>1, <4>2, <1>2, <1>5 DEF File!Served, Broken
    <3>6. CASE ~errTold /\ ~last_err
      <4>1. srv = "finished" /\ taken = total
        BY <3>3, <3>6, <1>3 DEF Both, IInv, TaskEnds
      <4> QED BY <3>1, <3>3, <4>1, <1>2, <1>5 DEF File!Served
    <3> QED BY <3>4, <3>5, <3>6
  <2> QED BY <2>1, <2>2
<1>7. File!Return(r, "fwd", [i \in 1..take |-> pos + i])
  BY <1>1, <1>4, ReturnRefines
<1>8. take \in 0..size
  BY <1>2
<1> HIDE DEF take
<1> QED BY <1>1, <1>3, <1>6, <1>7, <1>8 DEF File!ReturnBytes

\* Every step of the handle is a step of the file or is not seen.
LEMMA StepRefines == Both /\ [Next]_vars => [File!Next]_(File!vars)
<1> SUFFICES ASSUME Both, [Next]_vars PROVE File!Next \/ UNCHANGED File!vars
  OBVIOUS
<1>1. CASE UNCHANGED vars
  BY <1>1, Unseen DEF vars
<1>2. CASE Server \/ Task \/ Release \/ Close \/ Closed
  BY <1>2, ServerRefines, TaskRefines, CloseRefines DEF File!Next
<1>3. CASE \E r \in Readers, off \in Offsets, size \in Sizes : Read(r, off, size)
  BY <1>3, ReadRefines DEF File!Next
<1>4. ASSUME NEW r \in Readers, Reader(r) PROVE File!Next \/ UNCHANGED File!vars
  <2>1. CASE \/ Check(r) \/ Fetch(r) \/ Store(r) \/ ServeForward(r)
             \/ RecvBytes(r) \/ RecvErr(r) \/ RecvClosed(r)
    BY <2>1, BeforeRefines DEF File!Next
  <2>2. CASE ServeError(r) \/ ReturnError(r)
    BY <2>2, ErrorRefines DEF File!Next
  <2>3. CASE ServeTail(r) \/ ServeReadOrder(r)
    BY <2>3, TailRefines, OrderRefines DEF File!Next
  <2>4. CASE ReturnBytes(r)
    BY <2>4, BytesRefines DEF File!Next
  <2> QED BY <1>4, <2>1, <2>2, <2>3, <2>4 DEF Reader
<1> QED BY <1>1, <1>2, <1>3, <1>4 DEF Next

\* A stream handle with its task, channel, lock and critical sections implements
\* one sequential file: whatever the threads, chunks, errors, tail queries and
\* closes, each read takes effect at one moment.
THEOREM Refinement == Spec => IsSequentialFile
<1>1. Spec => []Both
  BY BothInit, BothStep, PTL DEF Spec
<1> QED BY <1>1, InitFile, StepRefines, PTL DEF Spec, IsSequentialFile, File!Spec
=============================================================================
