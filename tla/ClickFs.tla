------------------------------ MODULE ClickFs -------------------------------
(***************************************************************************)
(* The open files of a mount: open, read and release of src/src/fs.rs over *)
(* the table of handles, with README.md as module Readme renders it and    *)
(* the errno of a failed query as module HttpClient finds it.              *)
(*                                                                         *)
(* Processes open, read and close files at the same time; the kernel       *)
(* queues their requests, fuser hands them to one thread, and every        *)
(* handler runs to its reply before the next request. What a handler waits *)
(* for (DESCRIBE, the sub-queries of README.md, the live stream) goes on   *)
(* while other clients alter the table.                                    *)
(*                                                                         *)
(* A byte [file, of, ver, at] is the at-th byte of a file; ver is the      *)
(* version of the table it describes, and of the query that told it. A     *)
(* read of a stream is one step here; what happens inside it is module     *)
(* StreamHandle.                                                           *)
(***************************************************************************)
EXTENDS Integers, Sequences, FiniteSets, HttpClient, Readme

CONSTANTS
  Procs,        \* processes that use the mount
  SchemaFile, ReadmeFile, StreamFile,  \* .schema, README.md and a .tsv of a table
  MaxVer,       \* times the table is altered (bound of the model)
  MaxFh,        \* opens (bound of the model)
  MaxPos,       \* bytes of a stream (bound of the model)
  Placeholder,  \* the st_size of a special file (4096 in the code)
  Offsets, Sizes,  \* what processes ask for
  tail_enabled  \* TailConfig.enabled

Files       == {SchemaFile, ReadmeFile, StreamFile}
Versions    == 0..MaxVer
NoFh        == 0

SchemaLen(v) == 2 + v  \* the text changes with the table, and so does its length

ASSUME ClickFsAssumption ==
  /\ MaxVer \in Nat /\ MaxFh \in Nat /\ MaxPos \in Nat
  /\ Placeholder \in Nat
  /\ Offsets \subseteq Nat /\ Sizes \subseteq Nat \ {0}
  /\ tail_enabled \in BOOLEAN
  /\ SchemaFile # ReadmeFile /\ SchemaFile # StreamFile /\ ReadmeFile # StreamFile

VARIABLES
  version,     \* the server: how often the table has been altered
  proc,        \* processes, and what the kernel knows of their file
  queue,       \* requests that wait for the dispatcher
  releases,    \* handles whose RELEASE the kernel has queued
  pc, cur,     \* the dispatcher: step and request
  fh_id, text, parts,  \* locals of open: handle, content, sections so far
  fh_counter, handles, \* ClickFs
  streams,     \* handles whose StreamHandle is alive
  failure      \* the query error the last reply reported, and what caused it

locals == <<fh_id, text, parts>>
vars == <<version, proc, queue, releases, pc, cur, locals, fh_counter, handles, streams, failure>>

NoProc    == [st |-> "closed", file |-> SchemaFile, fh |-> NoFh, direct |-> TRUE,
              since |-> 0, off |-> 0, res |-> "none", bytes |-> <<>>]
NoRequest == [op |-> "none", proc |-> CHOOSE p \in Procs : TRUE, fh |-> NoFh, off |-> 0, size |-> 0]
NoHandle  == [kind |-> "none", file |-> SchemaFile, bytes |-> <<>>, pos |-> 0]
NoParts   == [q \in SubQueries |-> Pending]
NoFailure == [errno |-> "none", cause |-> NoCause, left |-> Whole]

Init ==
  /\ version = 0
  /\ proc = [p \in Procs |-> NoProc]
  /\ queue = <<>> /\ releases = {}
  /\ pc = "idle" /\ cur = NoRequest
  /\ fh_id = NoFh /\ text = <<>> /\ parts = NoParts
  /\ fh_counter = 1
  /\ handles = [h \in 1..MaxFh |-> NoHandle]
  /\ streams = {} /\ failure = NoFailure

-----------------------------------------------------------------------------
(* Processes, kernel and server (external).                                 *)
Alter ==
  /\ version < MaxVer
  /\ version' = version + 1
  /\ UNCHANGED <<proc, queue, releases, pc, cur, locals, fh_counter, handles, streams, failure>>

Opens == fh_counter - 1 + Cardinality({i \in 1..Len(queue) : queue[i].op = "open"})
         + (IF pc = "open" THEN 1 ELSE 0)

SysOpen(p, f) ==
  /\ proc[p].st = "closed" /\ Opens < MaxFh
  /\ proc' = [proc EXCEPT ![p] = [NoProc EXCEPT !.st = "waiting", !.file = f, !.since = version]]
  /\ queue' = Append(queue, [NoRequest EXCEPT !.op = "open", !.proc = p])
  /\ UNCHANGED <<version, releases, pc, cur, locals, fh_counter, handles, streams, failure>>

\* Without FOPEN_DIRECT_IO the kernel serves a read up to st_size only.
SysRead(p, off, size) ==
  LET left == IF proc[p].direct \/ proc[p].file = StreamFile THEN size ELSE Placeholder - off
  IN  /\ proc[p].st = "open"
      /\ IF left <= 0
         THEN /\ proc' = [proc EXCEPT ![p] = [@ EXCEPT !.off = off, !.res = "data", !.bytes = <<>>]]
              /\ UNCHANGED queue
         ELSE /\ proc' = [proc EXCEPT ![p] = [@ EXCEPT !.st = "waiting", !.off = off,
                                                       !.res = "none", !.bytes = <<>>]]
              /\ queue' = Append(queue, [op |-> "read", proc |-> p, fh |-> proc[p].fh, off |-> off,
                                         size |-> IF size < left THEN size ELSE left])
      /\ UNCHANGED <<version, releases, pc, cur, locals, fh_counter, handles, streams, failure>>

\* close(2) does not wait for the RELEASE.
SysClose(p) ==
  /\ proc[p].st = "open"
  /\ proc' = [proc EXCEPT ![p] = NoProc]
  /\ releases' = releases \cup {proc[p].fh}
  /\ UNCHANGED <<version, queue, pc, cur, locals, fh_counter, handles, streams, failure>>

-----------------------------------------------------------------------------
(* The dispatcher.                                                          *)
Take ==
  /\ pc = "idle" /\ queue # <<>>
  /\ cur' = Head(queue) /\ pc' = Head(queue).op
  /\ queue' = Tail(queue) /\ failure' = NoFailure
  /\ UNCHANGED <<version, proc, releases, locals, fh_counter, handles, streams>>

TakeRelease(h) ==
  /\ pc = "idle" /\ h \in releases
  /\ cur' = [NoRequest EXCEPT !.op = "release", !.fh = h] /\ pc' = "release"
  /\ releases' = releases \ {h} /\ failure' = NoFailure
  /\ UNCHANGED <<version, proc, queue, locals, fh_counter, handles, streams>>

Idle ==
  /\ pc' = "idle" /\ cur' = NoRequest
  /\ fh_id' = NoFh /\ text' = <<>> /\ parts' = NoParts

file == proc[cur.proc].file

\* A query with this response is the error e, and the reply its errno.
Fails(e, cause, resp) ==
  /\ e # Ok
  /\ failure' = [errno |-> to_errno(e), cause |-> cause, left |-> Remnant(resp)]

\* reply.error(e.to_errno()) to an open.
OpenFailed ==
  /\ \E cause \in Causes : \E resp \in Responses(cause) : Fails(query_text(resp), cause, resp)
  /\ Idle
  /\ proc' = [proc EXCEPT ![cur.proc] = NoProc]

\* Mutant: the counter is read and not incremented.
OpenStartSame ==
  /\ pc = "open"
  /\ fh_id' = 1 /\ fh_counter' = fh_counter + 1
  /\ pc' = CASE file = SchemaFile -> "describe"
             [] file = ReadmeFile -> "render"
             [] file = StreamFile -> IF tail_enabled THEN "order" ELSE "insert"
  /\ UNCHANGED <<version, proc, queue, releases, cur, text, parts, handles, streams, failure>>

OpenStart ==
  /\ pc = "open"
  /\ fh_id' = fh_counter /\ fh_counter' = fh_counter + 1
  /\ pc' = CASE file = SchemaFile -> "describe"
             [] file = ReadmeFile -> "render"
             [] file = StreamFile -> IF tail_enabled THEN "order" ELSE "insert"
  /\ UNCHANGED <<version, proc, queue, releases, cur, text, parts, handles, streams, failure>>

SchemaText(v) == [i \in 1..SchemaLen(v) |-> [file |-> SchemaFile, of |-> "schema", ver |-> v, at |-> i]]

\* Mutant: the text of another open handle of the file is reused.
DescribedOpen ==
  IF \E h \in 1..MaxFh : handles[h].file = file /\ handles[h].kind = "special"
  THEN handles[CHOOSE h \in 1..MaxFh : handles[h].file = file /\ handles[h].kind = "special"].bytes
  ELSE SchemaText(version)

\* What sql_describe answers now.
Described == SchemaText(version)

\* fetch_describe: the query answers or fails; no handle exists then.
Describe ==
  /\ pc = "describe"
  /\ \/ /\ pc' = "insert" /\ text' = Described
        /\ UNCHANGED <<proc, cur, fh_id, parts, failure>>
     \/ OpenFailed
  /\ UNCHANGED <<version, queue, releases, fh_counter, handles, streams>>

\* render: the sub-queries run concurrently, and each may fail on its own.
SubQuery(q) ==
  /\ pc = "render" /\ parts[q] = Pending
  /\ \E ans \in Answers(q, version) : parts' = [parts EXCEPT ![q] = ans]
  /\ UNCHANGED <<version, proc, queue, releases, pc, cur, fh_id, text, fh_counter, handles, streams, failure>>

ReadmeText(a) ==
  LET lines == render(a)
  IN  [i \in 1..Len(lines) |->
         [file |-> ReadmeFile, of |-> lines[i].of, ver |-> lines[i].ver, at |-> i]]

Render ==
  /\ pc = "render" /\ \A q \in SubQueries : parts[q] # Pending
  /\ pc' = "insert" /\ text' = ReadmeText(parts)
  /\ UNCHANGED <<version, proc, queue, releases, cur, fh_id, parts, fh_counter, handles, streams, failure>>

\* fetch_tail_order_expr: a failure falls back to tuple(), open goes on.
OrderExpr ==
  /\ pc = "order"
  /\ pc' = "insert"
  /\ UNCHANGED <<version, proc, queue, releases, cur, locals, fh_counter, handles, streams, failure>>

Opened(direct) ==
  /\ handles' = [handles EXCEPT ![fh_id] =
       [kind |-> IF file = StreamFile THEN "stream" ELSE "special",
        file |-> file, bytes |-> text, pos |-> 0]]
  /\ streams' = IF file = StreamFile THEN streams \cup {fh_id} ELSE streams
  /\ proc' = [proc EXCEPT ![cur.proc] = [@ EXCEPT !.st = "open", !.fh = fh_id, !.direct = direct]]
  /\ Idle
  /\ UNCHANGED <<version, queue, releases, fh_counter, failure>>

\* Mutant: reply.opened(fh_id, 0).
InsertCached == pc = "insert" /\ Opened(FALSE)

\* StreamHandle::spawn, handles.insert and reply.opened(fh_id, FOPEN_DIRECT_IO).
Insert == pc = "insert" /\ Opened(TRUE)

\* failure is set by the caller.
Answer(res, bytes) ==
  /\ proc' = [proc EXCEPT ![cur.proc] = [@ EXCEPT !.st = "open", !.res = res, !.bytes = bytes]]
  /\ Idle
  /\ UNCHANGED <<version, queue, releases, fh_counter, streams>>

\* Mutant: the slice is not cut at the end of the text.
SliceUncut(bytes, off, size) ==
  [i \in 1..size |-> [file |-> bytes[1].file, of |-> bytes[1].of, ver |-> bytes[1].ver, at |-> off + i]]

Slice(bytes, off, size) ==
  IF off >= Len(bytes) THEN <<>>
  ELSE SubSeq(bytes, off + 1, IF off + size < Len(bytes) THEN off + size ELSE Len(bytes))

\* A handle that is not in the table, or a slice of the text it was given.
ReadSpecial ==
  LET h == handles[cur.fh]
  IN  /\ pc = "read" /\ h.kind # "stream"
      /\ IF h.kind = "none" THEN Answer("EBADF", <<>>)
         ELSE Answer("data", Slice(h.bytes, cur.off, cur.size))
      /\ UNCHANGED <<handles, failure>>

StreamByte(i) == [file |-> StreamFile, of |-> "rows", ver |-> 0, at |-> i]

StreamBytes(off, n) == [i \in 1..n |-> StreamByte(off + i)]

\* Mutant: a read ahead of the cursor waits for the stream to get there.
ReadStreamWaits ==
  /\ pc = "read" /\ handles[cur.fh].kind = "stream"
  /\ cur.off = handles[cur.fh].pos
  /\ \E n \in 0..cur.size :
       /\ cur.off + n <= MaxPos
       /\ Answer("data", StreamBytes(cur.off, n))
       /\ handles' = [handles EXCEPT ![cur.fh].pos = @ + n]
       /\ UNCHANGED failure

\* A stream that has begun fails with QueryError::Stream; before the first byte
\* the error is the one of query_stream_with_id.
StreamFails ==
  \/ failure' = [errno |-> to_errno(Stream), cause |-> Cause("network", 0), left |-> Nothing]
  \/ /\ handles[cur.fh].pos = 0
     /\ \E cause \in Causes : \E resp \in Responses(cause) :
          Fails(query_stream_with_id(resp), cause, resp)

\* read_blocking: away from the cursor ReadOrder, at the cursor the next bytes,
\* end of file or the stream's error. Offsets are below the tail window; reads
\* inside it are served from the pinned buffer and are part of StreamHandle.
ReadStream ==
  /\ pc = "read" /\ handles[cur.fh].kind = "stream"
  /\ \/ /\ cur.off # handles[cur.fh].pos
        /\ Answer("EIO", <<>>) /\ UNCHANGED <<handles, failure>>
     \/ /\ cur.off = handles[cur.fh].pos
        /\ \/ \E n \in 0..cur.size :
                /\ cur.off + n <= MaxPos
                /\ Answer("data", StreamBytes(cur.off, n))
                /\ handles' = [handles EXCEPT ![cur.fh].pos = @ + n]
                /\ UNCHANGED failure
           \/ /\ StreamFails
              /\ Answer(failure'.errno, <<>>)
              /\ UNCHANGED handles

\* Mutants: the entry is looked up and stays; entries are found by file.
ReleaseKeeps ==
  /\ pc = "release"
  /\ Idle
  /\ UNCHANGED <<version, proc, queue, releases, fh_counter, handles, streams, failure>>

ReleaseByFile ==
  LET Same(h) == handles[h].file = handles[cur.fh].file
  IN  /\ pc = "release"
      /\ handles' = [h \in 1..MaxFh |-> IF Same(h) THEN NoHandle ELSE handles[h]]
      /\ streams' = {h \in streams : ~Same(h)}
      /\ Idle
      /\ UNCHANGED <<version, proc, queue, releases, fh_counter, failure>>

\* The removed entry is dropped, and with it the StreamHandle.
Release ==
  /\ pc = "release"
  /\ handles' = [handles EXCEPT ![cur.fh] = NoHandle]
  /\ streams' = streams \ {cur.fh}
  /\ Idle
  /\ UNCHANGED <<version, proc, queue, releases, fh_counter, failure>>

-----------------------------------------------------------------------------
Dispatcher ==
  \/ Take \/ \E h \in releases : TakeRelease(h)
  \/ OpenStart \/ Describe \/ (\E q \in SubQueries : SubQuery(q)) \/ Render \/ OrderExpr \/ Insert
  \/ ReadSpecial \/ ReadStream \/ Release

\* All files closed and no open left within the bound.
Done ==
  /\ pc = "idle" /\ queue = <<>> /\ releases = {} /\ Opens >= MaxFh
  /\ \A p \in Procs : proc[p].st = "closed"
  /\ UNCHANGED vars

Next ==
  \/ Alter
  \/ \E p \in Procs, f \in Files : SysOpen(p, f)
  \/ \E p \in Procs, off \in Offsets, size \in Sizes : SysRead(p, off, size)
  \/ \E p \in Procs : SysClose(p)
  \/ Dispatcher
  \/ Done

Spec == Init /\ [][Next]_vars

\* Queries have a timeout and streams end, so every handler gets on.
FairSpec == Spec /\ WF_vars(Dispatcher)

-----------------------------------------------------------------------------
\* README.md has five lines at most.
MaxLen == SchemaLen(MaxVer) + 5 + MaxPos
Byte   == [file : Files, of : SubQueries \cup {"schema", "rows"},
           ver : Versions \cup {Unavailable, None}, at : 1..MaxLen]
Errnos == {"EIO", "EACCES", "ENOENT", "ETIMEDOUT", "EROFS", "EAGAIN", "ENOMEM", "ECANCELED"}

IsText(t) ==
  /\ Len(t) <= MaxLen
  /\ \A i \in 1..Len(t) : t[i] \in Byte /\ (t[i].file = SchemaFile => t[i].at <= SchemaLen(t[i].ver))

\* Requests, handles and replies are well formed, and no byte of a text lies
\* past the end of the text it was cut from.
TypeOK ==
  /\ version \in Versions
  /\ \A p \in Procs : /\ proc[p].st \in {"closed", "waiting", "open"}
                      /\ proc[p].fh \in 0..MaxFh
                      /\ proc[p].res \in Errnos \cup {"none", "data", "EBADF"}
                      /\ IsText(proc[p].bytes)
  /\ pc \in {"idle", "open", "describe", "render", "order", "insert", "read", "release"}
  /\ fh_counter \in 1..(MaxFh + 1) /\ fh_id \in 0..MaxFh
  /\ failure \in [errno : Errnos \cup {"none"}, cause : Causes \cup {NoCause},
                  left : {Whole, Nothing, 200} \cup Statuses]
  /\ releases \subseteq 1..MaxFh /\ streams \subseteq 1..MaxFh
  /\ \A h \in 1..MaxFh : /\ handles[h].kind \in {"none", "special", "stream"}
                         /\ IsText(handles[h].bytes) /\ handles[h].pos \in 0..MaxPos

\* A process reads the file it opened, at the offset it asked for, in one
\* version of the table if the file is .schema: handles are never confused,
\* however opens, failed opens and releases of several processes interleave.
ReadsTheOpenedFile ==
  \A p \in Procs : \A i \in 1..Len(proc[p].bytes) :
    LET b == proc[p].bytes[i]
    IN  /\ b.file = proc[p].file /\ b.at = proc[p].off + i
        /\ b.file = SchemaFile => b.ver = proc[p].bytes[1].ver

\* A handle the kernel holds is never answered EBADF.
HeldIsKnown == \A p \in Procs : proc[p].res # "EBADF"

\* "regenerated on open" (readme.rs:130): what a process reads from .schema or
\* README.md was true of the table after the process had called open.
FreshOnOpen ==
  \A p \in Procs : \A i \in 1..Len(proc[p].bytes) :
    LET b == proc[p].bytes[i]
    IN  b.file # StreamFile /\ b.ver \in Versions => b.ver >= proc[p].since

\* "Any sub-query that fails turns into an _(unavailable)_ line" (readme.rs:5), a
\* failed count into the one of the stats, and no other does: what a sub-query told
\* of the table is in the text, and what is unavailable had its own query fail, or
\* the count its section begins with. A 200 without JSON is no such failure: of
\* stats it leaves no line at all.
FailuresStayLocal ==
  LET Shown(q, v) == \E i \in 1..Len(text) : text[i].of = q /\ text[i].ver = v
      Lost(q)     == parts[q] = Failed \/ (q = "stats" /\ parts["count"] = Failed)
  IN  pc = "insert" /\ file = ReadmeFile =>
        /\ \A q \in SubQueries :
             /\ parts[q] = Failed => Shown(IF q = "count" THEN "stats" ELSE q, Unavailable)
             /\ parts[q] \in Versions /\ ~Lost(q) => Shown(q, parts[q])
        /\ \A i \in 1..Len(text) : text[i].ver = Unavailable => Lost(text[i].of)

\* The errno a process gets for a failed query is the one of the reason it failed
\* for, whichever way the response carries the exception code and whatever HTTP
\* status comes with it. Only a broken connection changes that: to EIO, or, when
\* the code is lost with the text, to what a bare refusal with that status means.
ErrnoTellsCause ==
  failure # NoFailure =>
    \/ failure.errno = ErrnoOf(failure.cause)
    \/ failure.left # Whole /\ failure.errno = "EIO"
    \/ failure.left \in Statuses /\ failure.errno = ErrnoOf(Cause("proxy", failure.left))

\* Every live stream belongs to a file some process has open, or its RELEASE is
\* on the way: no interleaving of opens and closes leaks a query.
NoOrphanStreams ==
  \A h \in streams : \/ \E p \in Procs : proc[p].st # "closed" /\ proc[p].fh = h
                     \/ h \in releases
                     \/ pc = "release" /\ cur.fh = h

\* One thread serves all: every request is answered all the same, behind however
\* many slow opens and reads it has to wait.
EveryRequestIsAnswered ==
  \A p \in Procs : proc[p].st = "waiting" ~> proc[p].st # "waiting"
-----------------------------------------------------------------------------
\* The read of a process on its way through the queue and the dispatcher.
Asks(p) ==
  {r \in {queue[i] : i \in 1..Len(queue)} \cup (IF pc = "read" THEN {cur} ELSE {}) :
     r.op = "read" /\ r.proc = p}

Size(p) == IF Asks(p) = {} THEN 0 ELSE (CHOOSE r \in Asks(p) : TRUE).size

\* The file of a process, whichever handle it has and wherever its request is.
Mine(p) ==
  LET h    == proc[p].fh
      made == pc = "insert" /\ cur.proc = p
  IN  [st    |-> IF proc[p].st # "waiting" THEN proc[p].st
                 ELSE IF h # NoFh THEN "reading" ELSE IF made THEN "fetched" ELSE "opening",
       file  |-> proc[p].file,
       parts |-> IF pc = "render" /\ cur.proc = p THEN parts ELSE NoParts,
       text  |-> IF h # NoFh THEN handles[h].bytes ELSE IF made THEN text ELSE <<>>,
       pos   |-> IF h # NoFh THEN handles[h].pos ELSE 0,
       off   |-> proc[p].off,
       size  |-> Size(p),
       res   |-> proc[p].res, bytes |-> proc[p].bytes]

Private == INSTANCE OpenFiles WITH view <- [p \in Procs |-> Mine(p)]

\* Processes share the dispatcher and the handle table, and never notice: each sees
\* a file of its own, fixed by its open, whatever the others open, read and close.
FilesArePrivate == Private!Spec

=============================================================================
