------------------------- MODULE StreamBufferProofs -------------------------
(***************************************************************************)
(* Proofs about what a StreamHandle keeps and asks for, with any number of *)
(* readers: the bytes it buffers and the tail SELECTs it issues.           *)
(***************************************************************************)
EXTENDS StreamHandleProofs, FiniteSetTheorems

USE DEF srvVars, taskVars, inner, tailVars, readVars, closeVars

-----------------------------------------------------------------------------
(* The bytes between the wire and the cursor. Every item is a piece of what *)
(* was on the wire at once, and consecutive items add up.                   *)

\* The bytes of n items.
Room(n) == n * WireCap

\* The rooms of the channel add up.
LEMMA RoomAdds ==
  /\ \A n \in Nat : Room(n) \in Nat /\ Room(n + 1) = Room(n) + WireCap
  /\ \A m, n \in Nat : m <= n => Room(m) <= Room(n)
<1>1. WireCap \in Nat
  BY StreamAssumption
<1>2. \A n \in Nat : Room(n) \in Nat /\ Room(n + 1) = Room(n) + WireCap
  BY <1>1 DEF Room
<1>3. ASSUME NEW m \in Nat, NEW n \in Nat, m <= n PROVE Room(m) <= Room(n)
  <2>1. PICK d \in Nat : n = m + d
    <3>1. n - m \in Nat /\ n = m + (n - m)
      BY <1>3
    <3> QED BY <3>1
  <2>2. (m + d) * WireCap = m * WireCap + d * WireCap
    BY <1>1
  <2>3. d * WireCap \in Nat /\ m * WireCap \in Nat
    BY <1>1
  <2> QED BY <2>1, <2>2, <2>3 DEF Room
<1> QED BY <1>2, <1>3

\* What is on the wire, and what the task holds, was on the wire at once.
OneItem ==
  /\ taken <= avail /\ avail <= taken + WireCap
  /\ task \in {"send", "sendErr"} => hand.hi <= hand.lo + WireCap

\* The channel is bounded, and so is what any stretch of it holds.
Span ==
  /\ Len(chan) <= ChanCap
  /\ \A i, j \in 1..Len(chan) : i <= j => chan[j].hi <= chan[i].lo + Room(j - i + 1)

\* A thread asks for one of the sizes, and a read leaves less than an item.
Asked == \A r \in Readers : pc[r] # "idle" => req[r].size \in Sizes
Left  == \E s \in Sizes : Len(pending) < s + WireCap

BInv == IInv /\ OneItem /\ Span /\ Asked /\ Left

\* The types that the sums need.
LEMMA BTypes == IInv =>
  /\ avail \in Nat /\ taken \in Nat /\ pos \in Nat /\ WireCap \in Nat \ {0} /\ ChanCap \in Nat \ {0}
  /\ chan \in Seq(Item) /\ Len(chan) \in Nat /\ hand \in Item /\ hand.lo \in Nat /\ hand.hi \in Nat
  /\ pending \in Seq(Byte) /\ Len(pending) \in Nat
  /\ \A i \in 1..Len(chan) : chan[i].lo \in Nat /\ chan[i].hi \in Nat
<1> SUFFICES ASSUME IInv PROVE
      /\ avail \in Nat /\ taken \in Nat /\ pos \in Nat /\ WireCap \in Nat \ {0} /\ ChanCap \in Nat \ {0}
      /\ chan \in Seq(Item) /\ Len(chan) \in Nat /\ hand \in Item /\ hand.lo \in Nat /\ hand.hi \in Nat
      /\ pending \in Seq(Byte) /\ Len(pending) \in Nat
      /\ \A i \in 1..Len(chan) : chan[i].lo \in Nat /\ chan[i].hi \in Nat
  OBVIOUS
<1>1. chan \in Seq(Item) /\ hand \in Item /\ pending \in Seq(Byte)
  BY DEF IInv, TypeOK
<1>2. \A i \in 1..Len(chan) : chan[i] \in Item
  BY <1>1
<1> QED BY <1>1, <1>2, StreamAssumption DEF IInv, TypeOK, Item

\* A handle that was just spawned buffers nothing.
LEMMA BInit == Init => BInv
<1> SUFFICES ASSUME Init PROVE BInv
  OBVIOUS
<1>1. IInv
  BY DataInit
<1>2. Len(chan) = 0 /\ Len(pending) = 0
  BY DEF Init
<1>3. OneItem /\ Span /\ Asked
  BY <1>2, StreamAssumption DEF Init, OneItem, Span, Asked
<1>4. PICK s \in Sizes : s \in Nat \ {0}
  BY StreamAssumption
<1>5. Left
  BY <1>2, <1>4, StreamAssumption DEF Left
<1> QED BY <1>1, <1>3, <1>5 DEF BInv

\* The server respects the room of the connection; closing empties the channel.
LEMMA BOutside == BInv /\ (Server \/ Release \/ Close \/ Closed) => OneItem' /\ Span' /\ Asked' /\ Left'
<1> SUFFICES ASSUME BInv, Server \/ Release \/ Close \/ Closed
             PROVE  OneItem' /\ Span' /\ Asked' /\ Left'
  OBVIOUS
<1>1. /\ UNCHANGED <<taken, task, hand, inner, readVars>>
      /\ avail' = avail \/ (avail' = avail + 1 /\ avail - taken < WireCap)
      /\ chan' = chan \/ chan' = <<>>
  BY DEF Server, SrvAccept, SrvEmit, SrvFinish, SrvFail, SrvAbort, Release, Close, Closed,
         DropHandle, DropFields, KillDelivered, KillLost, vars
<1>2. OneItem'
  BY <1>1, BTypes DEF BInv, OneItem
<1>3. Span'
  <2>1. CASE chan' = chan
    BY <2>1 DEF BInv, Span
  <2>2. CASE chan' = <<>>
    <3>1. Len(chan') = 0
      BY <2>2
    <3> QED BY <3>1, StreamAssumption DEF Span
  <2> QED BY <1>1, <2>1, <2>2
<1> QED BY <1>1, <1>2, <1>3 DEF BInv, Asked, Left

\* An item that follows the others adds at most what one item holds.
LEMMA BAppend ==
  ASSUME BInv, rxOpen, Len(chan) < ChanCap, chan' = Append(chan, hand), task \in {"send", "sendErr"}
  PROVE  Span'
<1>1. /\ Len(chan') = Len(chan) + 1 /\ chan'[Len(chan) + 1] = hand
      /\ \A i \in 1..Len(chan) : chan'[i] = chan[i]
  BY BTypes DEF BInv
<1>2. hand.lo = End /\ hand.hi <= hand.lo + WireCap
  BY DEF BInv, OneItem, IInv, Path, InHand
<1>3. ASSUME NEW i \in 1..Len(chan'), NEW j \in 1..Len(chan'), i <= j
      PROVE  chan'[j].hi <= chan'[i].lo + Room(j - i + 1)
  <2>1. CASE j \in 1..Len(chan)
    <3>1. i \in 1..Len(chan)
      BY <2>1, <1>1, <1>3
    <3> QED BY <2>1, <3>1, <1>1, <1>3 DEF BInv, Span
  <2>2. CASE j = Len(chan) + 1 /\ i = j
    <3>1. Room(1) = WireCap
      BY StreamAssumption DEF Room
    <3>2. j - i + 1 = 1
      BY <2>2
    <3> QED BY <2>2, <3>1, <3>2, <1>1, <1>2
  <2>3. CASE j = Len(chan) + 1 /\ i < j
    <3>1. i \in 1..Len(chan) /\ Len(chan) \in 1..Len(chan) /\ chan # <<>>
      BY <2>3, BTypes DEF BInv
    <3>2. chan[Len(chan)].hi <= chan[i].lo + Room(Len(chan) - i + 1)
      BY <3>1 DEF BInv, Span
    <3>3. hand.lo = chan[Len(chan)].hi
      BY <3>1, <1>2 DEF End
    <3>4. Len(chan) - i + 1 \in Nat /\ j - i + 1 = (Len(chan) - i + 1) + 1
      BY <2>3, <3>1
    <3>5. Room(j - i + 1) = Room(Len(chan) - i + 1) + WireCap /\ Room(Len(chan) - i + 1) \in Nat
      BY <3>4, RoomAdds
    <3>6. chan[i].lo \in Nat /\ chan[Len(chan)].hi \in Nat /\ hand.hi \in Nat /\ WireCap \in Nat
      BY <3>1, BTypes DEF BInv
    <3> QED BY <2>3, <3>1, <3>2, <3>3, <3>5, <3>6, <1>1, <1>2, SMTT(30)
  <2> QED BY <2>1, <2>2, <2>3, <1>1, <1>3, BTypes, SMTT(30) DEF BInv
<1>4. Len(chan') <= ChanCap
  BY <1>1, BTypes DEF BInv
<1> QED BY <1>3, <1>4 DEF Span

\* The task moves one item at a time.
LEMMA BTask == BInv /\ Task => OneItem' /\ Span' /\ Asked' /\ Left'
<1> SUFFICES ASSUME BInv, Task PROVE OneItem' /\ Span' /\ Asked' /\ Left'
  OBVIOUS
<1>1. UNCHANGED <<avail, pending, pc, req>>
  BY DEF Task, TaskConnected, TaskError, TaskChunk, TaskEof, TaskCancelled, TaskSend,
         TaskReaderGone, TaskSendErr
<1>2. \/ taken' = taken /\ task' \notin {"send", "sendErr"}
      \/ taken' = taken /\ hand' = [kind |-> "err", lo |-> taken, hi |-> taken]
      \/ taken' = avail /\ hand' = [kind |-> "ok", lo |-> taken, hi |-> avail]
  BY DEF Task, TaskConnected, TaskError, TaskChunk, TaskEof, TaskCancelled, TaskSend,
         TaskReaderGone, TaskSendErr, EnterSelect
<1>3. OneItem'
  BY <1>1, <1>2, BTypes DEF BInv, OneItem
<1>4. \/ chan' = chan
      \/ /\ chan' = Append(chan, hand) /\ rxOpen /\ Len(chan) < ChanCap
         /\ task \in {"send", "sendErr"}
  BY DEF Task, TaskConnected, TaskError, TaskChunk, TaskEof, TaskCancelled, TaskSend,
         TaskReaderGone, TaskSendErr
<1>5. Span'
  <2>1. CASE chan' = chan
    BY <2>1 DEF BInv, Span
  <2> QED BY <2>1, <1>4, BAppend
<1> QED BY <1>1, <1>3, <1>5 DEF BInv, Asked, Left

\* A thread that takes the first item leaves the others as they were, and takes it
\* only while it has less than it was asked for.
LEMMA BRecv ==
  ASSUME BInv, NEW r \in Readers, RecvBytes(r) \/ RecvErr(r) \/ RecvClosed(r)
  PROVE  Span' /\ Left'
<1>1. /\ chan' = chan \/ (chan # <<>> /\ chan' = Tail(chan))
      /\ pc[r] = "pull" /\ Len(pending) < req[r].size
      /\ pending' = pending \/ (chan # <<>> /\ pending' = pending \o Bytes(Head(chan)))
  BY DEF RecvBytes, RecvErr, RecvClosed, Pulling
<1>2. Span'
  <2>1. CASE chan' = chan
    BY <2>1 DEF BInv, Span
  <2>2. CASE chan # <<>> /\ chan' = Tail(chan)
    <3>1. Len(chan') = Len(chan) - 1 /\ \A i \in 1..Len(chan') : chan'[i] = chan[i + 1]
      BY <2>2, BTypes DEF BInv
    <3>2. ASSUME NEW i \in 1..Len(chan'), NEW j \in 1..Len(chan'), i <= j
          PROVE  chan'[j].hi <= chan'[i].lo + Room(j - i + 1)
      <4>1. i + 1 \in 1..Len(chan) /\ j + 1 \in 1..Len(chan) /\ i + 1 <= j + 1
        BY <3>1, <3>2, BTypes DEF BInv
      <4>2. (j + 1) - (i + 1) + 1 = j - i + 1
        BY <3>1, BTypes DEF BInv
      <4>3. chan[j + 1].hi <= chan[i + 1].lo + Room((j + 1) - (i + 1) + 1)
        BY <4>1 DEF BInv, Span
      <4> QED BY <4>2, <4>3, <3>1
    <3>3. Len(chan') <= ChanCap
      BY <3>1, BTypes DEF BInv, Span
    <3> QED BY <3>2, <3>3 DEF Span
  <2> QED BY <1>1, <2>1, <2>2
<1>3. Left'
  <2>1. CASE pending' = pending
    BY <2>1 DEF BInv, Left
  <2>2. CASE chan # <<>> /\ pending' = pending \o Bytes(Head(chan))
    <3>1. Len(chan) > 0 /\ Head(chan) = chan[1] /\ chan[1] \in Item
      BY <2>2, BTypes DEF BInv
    <3>2. chan[1].hi <= chan[1].lo + WireCap
      <4>1. chan[1].hi <= chan[1].lo + Room(1 - 1 + 1)
        BY <3>1, BTypes, SMTT(30) DEF BInv, Span
      <4>2. Room(1) = WireCap /\ 1 - 1 + 1 = 1
        BY StreamAssumption DEF Room
      <4> QED BY <4>1, <4>2
    <3>3. Len(pending) \in Nat /\ WireCap \in Nat
      BY BTypes DEF BInv
    <3>4. Len(Bytes(chan[1])) = chan[1].hi - chan[1].lo /\ Bytes(chan[1]) \in Seq(Byte)
      BY <3>1, BytesType
    <3>5. Len(pending') = Len(pending) + Len(Bytes(chan[1]))
      BY <2>2, <3>1, <3>4, BTypes, Join DEF BInv
    <3>6. req[r].size \in Sizes /\ req[r].size \in Nat
      BY <1>1, StreamAssumption DEF BInv, Asked
    <3>7. chan[1].lo \in Nat /\ chan[1].hi \in Nat
      BY <3>1 DEF Item
    <3>8. Len(Bytes(chan[1])) <= WireCap
      BY <3>2, <3>3, <3>4, <3>7
    <3>9. Len(Bytes(chan[1])) \in Nat
      BY <3>4
    <3>10. Len(pending) < req[r].size
      BY <1>1
    <3>11. Len(pending') < req[r].size + WireCap
      BY <3>3, <3>5, <3>6, <3>8, <3>9, <3>10
    <3> QED BY <3>6, <3>11 DEF Left
  <2> QED BY <1>1, <2>1, <2>2
<1> QED BY <1>2, <1>3

\* A read that returns bytes leaves fewer.
LEMMA BReturn == ASSUME BInv, NEW r \in Readers, ReturnBytes(r) PROVE Left'
<1> DEFINE take == IF req[r].size < Len(pending) THEN req[r].size ELSE Len(pending)
<1>1. pending' = SubSeq(pending, take + 1, Len(pending))
  BY DEF ReturnBytes
<1>2. take \in Nat /\ take <= Len(pending) /\ pending \in Seq(Byte) /\ Len(pending) \in Nat
  BY BTypes DEF BInv, IInv, TypeOK
<1> HIDE DEF take
<1>3. Len(pending') = Len(pending) - take
  BY <1>1, <1>2, Cut
<1>4. PICK s \in Sizes : Len(pending) < s + WireCap
  BY DEF BInv, Left
<1>5. s \in Nat /\ WireCap \in Nat
  BY StreamAssumption
<1>6. Len(pending') < s + WireCap
  BY <1>2, <1>3, <1>4, <1>5
<1> QED BY <1>6 DEF Left

\* Every step of read_blocking keeps the bounds.
LEMMA BReader ==
  ASSUME BInv, NEW r \in Readers,
         Reader(r) \/ \E off \in Offsets, size \in Sizes : Read(r, off, size)
  PROVE  OneItem' /\ Span' /\ Asked' /\ Left'
<1>0. pc \in [Readers -> {"idle", "check", "fetch", "store", "serve", "pull"}]
      /\ req \in [Readers -> [off : Nat, size : Nat]]
  BY DEF BInv, IInv, TypeOK
<1>1. UNCHANGED <<avail, taskVars>>
  BY DEF Reader, Read, Check, Fetch, Store, ServeError, ServeTail, ServeReadOrder, ServeForward,
         RecvBytes, RecvErr, RecvClosed, ReturnError, ReturnBytes
<1>2. OneItem'
  BY <1>1 DEF BInv, OneItem
<1>3. Asked'
  <2>1. CASE \E off \in Offsets, size \in Sizes : Read(r, off, size)
    BY <2>1, <1>0 DEF Read, Goto, BInv, Asked
  <2>2. CASE \E step \in {"fetch", "store", "serve", "pull"} :
               Goto(r, step) /\ pc[r] # "idle" /\ UNCHANGED req
    BY <2>2, <1>0 DEF Goto, BInv, Asked
  <2>3. CASE \E kind, bytes : Return(r, kind, bytes)
    BY <2>3, <1>0 DEF Return, Goto, BInv, Asked
  <2>4. CASE UNCHANGED <<pc, req>>
    BY <2>4 DEF BInv, Asked
  <2> QED BY <2>1, <2>2, <2>3, <2>4
          DEF Reader, Check, Fetch, Store, ServeError, ServeTail, ServeReadOrder, ServeForward,
              RecvBytes, RecvErr, RecvClosed, ReturnError, ReturnBytes
<1>4. CASE RecvBytes(r) \/ RecvErr(r) \/ RecvClosed(r)
  BY <1>2, <1>3, <1>4, BRecv
<1>5. CASE ReturnBytes(r)
  <2>1. chan' = chan
    BY <1>5 DEF ReturnBytes
  <2> QED BY <1>2, <1>3, <1>5, <2>1, BReturn DEF BInv, Span
<1>6. CASE UNCHANGED <<chan, pending>>
  BY <1>2, <1>3, <1>6 DEF BInv, Span, Left
<1> QED BY <1>4, <1>5, <1>6
        DEF Reader, Read, Check, Fetch, Store, ServeError, ServeTail, ServeReadOrder, ServeForward,
            ReturnError

\* Every step keeps the bounds.
LEMMA BStep == BInv /\ [Next]_vars => BInv'
<1> SUFFICES ASSUME BInv, [Next]_vars PROVE BInv'
  OBVIOUS
<1>0. IInv'
  BY DataStep DEF BInv
<1>1. CASE UNCHANGED vars
  BY <1>0, <1>1 DEF vars, BInv, OneItem, Span, Asked, Left
<1>2. CASE Server \/ Task \/ Release \/ Close \/ Closed
  BY <1>0, <1>2, BOutside, BTask DEF BInv
<1>3. CASE \E r \in Readers : Reader(r) \/ \E off \in Offsets, size \in Sizes : Read(r, off, size)
  BY <1>0, <1>3, BReader DEF BInv
<1> QED BY <1>1, <1>2, <1>3 DEF Next

\* A reader that is slow or has stopped reading bounds the memory of its stream, by
\* the capacity of the channel and one item more, whatever the server sends; a read
\* leaves less than one item behind.
THEOREM MemoryBounded == Spec => []BoundedBuffering
<1>1. BInv => BoundedBuffering
  <2> SUFFICES ASSUME BInv PROVE BoundedBuffering
    OBVIOUS
  <2>1. ASSUME rxOpen PROVE taken - pos - Len(pending) <= (ChanCap + 1) * WireCap
    <3>1. Queued /\ InHand
      BY <2>1 DEF BInv, IInv, Path
    <3>2. End <= pos + Len(pending) + Room(Len(chan)) /\ End \in Nat
      <4>1. CASE chan = <<>>
        <5>1. Len(chan) = 0 /\ Room(0) = 0
          BY <4>1, StreamAssumption DEF Room
        <5> QED BY <4>1, <5>1, BTypes DEF BInv, End
      <4>2. CASE chan # <<>>
        <5>1. Len(chan) > 0
          BY <4>2, BTypes DEF BInv
        <5>2. chan[Len(chan)].hi <= chan[1].lo + Room(Len(chan) - 1 + 1)
          BY <5>1, BTypes, SMTT(30) DEF BInv, Span
        <5>3. Len(chan) - 1 + 1 = Len(chan)
          BY BTypes DEF BInv
        <5> QED BY <4>2, <5>1, <5>2, <5>3, <3>1, BTypes DEF BInv, End, Queued
      <4> QED BY <4>1, <4>2
    <3>3. taken <= End + WireCap
      BY <3>1, <3>2, BTypes DEF BInv, InHand, OneItem
    <3>4. Room(Len(chan)) <= Room(ChanCap) /\ Room(ChanCap + 1) = Room(ChanCap) + WireCap
          /\ Room(ChanCap) \in Nat /\ Room(Len(chan)) \in Nat
      BY BTypes, RoomAdds DEF BInv, Span
    <3>5. taken - pos - Len(pending) <= Room(ChanCap + 1)
      BY <3>2, <3>3, <3>4, BTypes, SMTT(30) DEF BInv
    <3> QED BY <3>5 DEF Room
  <2> QED BY <2>1 DEF BInv, Left, BoundedBuffering
<1> QED BY <1>1, BInit, BStep, PTL DEF Spec

-----------------------------------------------------------------------------
(* The tail SELECTs. The lock is free while a thread fetches, so a second   *)
(* thread may decide to fetch as well; only what was stored stops the next. *)

\* The threads whose tail SELECT is not stored yet.
Asking == {r \in Readers : pc[r] \in {"fetch", "store"}}

\* Until an attempt is remembered, a SELECT was issued by a thread still busy with it.
Pending == ~tail_attempted => sqlTail = Cardinality(Asking)

SInv == TypeOK /\ Pending /\ OneSelectPerReader

\* The threads that ask are some of a finite number, and one more makes one more.
LEMMA AskingCount ==
  ASSUME IsFiniteSet(Readers)
  PROVE  /\ IsFiniteSet(Asking) /\ Cardinality(Asking) <= Cardinality(Readers)
         /\ Cardinality(Asking) \in Nat /\ Cardinality(Readers) \in Nat
         /\ \A r \in Readers \ Asking :
              /\ Cardinality(Asking \cup {r}) = Cardinality(Asking) + 1
              /\ Cardinality(Asking) + 1 <= Cardinality(Readers)
<1>1. Asking \subseteq Readers
  BY DEF Asking
<1>2. IsFiniteSet(Asking) /\ Cardinality(Asking) <= Cardinality(Readers)
  BY <1>1, FS_Subset
<1>3. Cardinality(Asking) \in Nat /\ Cardinality(Readers) \in Nat
  BY <1>2, FS_CardinalityType
<1>4. ASSUME NEW r \in Readers \ Asking
      PROVE  /\ Cardinality(Asking \cup {r}) = Cardinality(Asking) + 1
             /\ Cardinality(Asking) + 1 <= Cardinality(Readers)
  <2>1. Cardinality(Asking \cup {r}) = Cardinality(Asking) + 1
    BY <1>2, FS_AddElement
  <2>2. Asking \cup {r} \subseteq Readers
    BY <1>1
  <2>3. Cardinality(Asking \cup {r}) <= Cardinality(Readers)
    BY <2>2, FS_Subset
  <2> QED BY <2>1, <2>3
<1> QED BY <1>2, <1>3, <1>4

\* A handle that was just spawned has issued no tail SELECT.
LEMMA SInit == ASSUME IsFiniteSet(Readers) PROVE Init => SInv
<1> SUFFICES ASSUME Init PROVE SInv
  OBVIOUS
<1>1. Asking = {}
  BY DEF Init, Asking
<1>2. Cardinality(Asking) = 0
  BY <1>1, FS_EmptySet
<1>3. sqlTail = 0
  BY DEF Init
<1>4. TypeOK
  BY TypeInit
<1> QED BY <1>2, <1>3, <1>4, AskingCount DEF SInv, Pending, OneSelectPerReader

\* Every step of a thread keeps the count.
LEMMA SReader ==
  ASSUME IsFiniteSet(Readers), SInv, NEW r \in Readers,
         Reader(r) \/ \E off \in Offsets, size \in Sizes : Read(r, off, size)
  PROVE  Pending' /\ OneSelectPerReader'
<1>0. /\ pc \in [Readers -> {"idle", "check", "fetch", "store", "serve", "pull"}]
      /\ sqlTail \in Nat /\ tail_attempted \in BOOLEAN
  BY DEF SInv, TypeOK
<1>1. CASE Check(r) /\ NeedMaterialize(req[r].off)
  <2>1. /\ ~tail_attempted /\ UNCHANGED tail_attempted /\ sqlTail' = sqlTail + 1
        /\ pc[r] = "check" /\ pc' = [pc EXCEPT ![r] = "fetch"]
    BY <1>1 DEF Check, NeedMaterialize, Goto, tailVars
  <2>2. r \notin Asking /\ Asking' = Asking \cup {r}
    BY <1>0, <2>1 DEF Asking
  <2>3. sqlTail = Cardinality(Asking)
    BY <2>1 DEF SInv, Pending
  <2>4. Cardinality(Asking') = Cardinality(Asking) + 1 /\ Cardinality(Asking) + 1 <= Cardinality(Readers)
    BY <2>2, AskingCount
  <2> QED BY <2>1, <2>3, <2>4 DEF Pending, OneSelectPerReader
<1>2. CASE Store(r)
  <2>1. tail_attempted' /\ sqlTail' = sqlTail
    BY <1>2 DEF Store
  <2> QED BY <2>1 DEF SInv, Pending, OneSelectPerReader
<1>3. ASSUME UNCHANGED <<sqlTail, tail_attempted>>, Asking' = Asking
      PROVE  Pending' /\ OneSelectPerReader'
  BY <1>3 DEF SInv, Pending, OneSelectPerReader
<1>4. CASE Fetch(r)
  <2>1. /\ UNCHANGED <<sqlTail, tail_attempted>>
        /\ pc[r] = "fetch" /\ pc' = [pc EXCEPT ![r] = "store"]
    BY <1>4 DEF Fetch, Goto, tailVars
  <2>2. Asking' = Asking
    BY <1>0, <2>1 DEF Asking
  <2> QED BY <1>3, <2>1, <2>2
<1>5. ASSUME UNCHANGED <<sqlTail, tail_attempted>>, r \notin Asking,
             NEW step \in {"idle", "check", "serve", "pull"}, pc' = [pc EXCEPT ![r] = step]
      PROVE  Pending' /\ OneSelectPerReader'
  <2>1. Asking' = Asking
    BY <1>0, <1>5 DEF Asking
  <2> QED BY <1>3, <1>5, <2>1
<1>6. CASE \E off \in Offsets, size \in Sizes : Read(r, off, size)
  <2>1. /\ UNCHANGED <<sqlTail, tail_attempted>>
        /\ pc[r] = "idle" /\ pc' = [pc EXCEPT ![r] = "check"]
    BY <1>6 DEF Read, Goto, tailVars
  <2> QED BY <1>5, <2>1 DEF Asking
<1>7. CASE Check(r) /\ ~NeedMaterialize(req[r].off)
  <2>1. /\ UNCHANGED <<sqlTail, tail_attempted>>
        /\ pc[r] = "check" /\ pc' = [pc EXCEPT ![r] = "serve"]
    BY <1>7 DEF Check, Goto, tailVars
  <2> QED BY <1>5, <2>1 DEF Asking
<1>8. CASE ServeForward(r)
  <2>1. /\ UNCHANGED <<sqlTail, tail_attempted>>
        /\ pc[r] = "serve" /\ pc' = [pc EXCEPT ![r] = "pull"]
    BY <1>8 DEF ServeForward, Goto, tailVars
  <2> QED BY <1>5, <2>1 DEF Asking
<1>9. CASE ServeError(r) \/ ServeTail(r) \/ ServeReadOrder(r) \/ ReturnError(r) \/ ReturnBytes(r)
  <2>1. /\ UNCHANGED <<sqlTail, tail_attempted>> /\ pc[r] \in {"serve", "pull"}
        /\ pc' = [pc EXCEPT ![r] = "idle"]
    BY <1>9 DEF ServeError, ServeTail, ServeReadOrder, ReturnError, ReturnBytes, Return, Goto, tailVars
  <2> QED BY <1>5, <2>1 DEF Asking
<1>10. CASE RecvBytes(r) \/ RecvErr(r) \/ RecvClosed(r)
  <2>1. UNCHANGED <<sqlTail, tail_attempted, pc>>
    BY <1>10 DEF RecvBytes, RecvErr, RecvClosed, readVars, tailVars
  <2> QED BY <1>3, <2>1 DEF Asking
<1> QED BY <1>1, <1>2, <1>4, <1>6, <1>7, <1>8, <1>9, <1>10 DEF Reader

\* Every step keeps it.
LEMMA SStep == ASSUME IsFiniteSet(Readers) PROVE SInv /\ [Next]_vars => SInv'
<1> SUFFICES ASSUME SInv, [Next]_vars PROVE SInv'
  OBVIOUS
<1>0. TypeOK'
  BY TypeStep DEF SInv
<1>1. CASE UNCHANGED <<readVars, tailVars>>
  BY <1>0, <1>1 DEF SInv, Pending, Asking, OneSelectPerReader
<1>2. CASE Server \/ Task \/ Release \/ Close \/ Closed
  BY <1>1, <1>2
  DEF Server, SrvAccept, SrvEmit, SrvFinish, SrvFail, SrvAbort, Task, TaskConnected, TaskError,
      TaskChunk, TaskEof, TaskCancelled, TaskSend, TaskReaderGone, TaskSendErr, EnterSelect,
      Release, Close, DropHandle, DropFields, KillDelivered, KillLost, Closed, vars
<1>3. CASE \E r \in Readers : Reader(r) \/ \E off \in Offsets, size \in Sizes : Read(r, off, size)
  BY <1>0, <1>3, SReader DEF SInv
<1> QED BY <1>1, <1>2, <1>3 DEF Next, vars

\* However many threads are inside read_blocking, each issues one tail SELECT at
\* most: an attempt that was stored, whatever its outcome, is the last one.
THEOREM SelectsAreBounded == ASSUME IsFiniteSet(Readers) PROVE Spec => []OneSelectPerReader
<1>1. SInv => OneSelectPerReader
  BY DEF SInv
<1>2. Init => SInv
  BY SInit
<1>3. SInv /\ [Next]_vars => SInv'
  BY SStep
<1> QED BY <1>1, <1>2, <1>3, PTL DEF Spec
=============================================================================
