----------------------------- MODULE OpenFiles ------------------------------
(***************************************************************************)
(* What the open files of a mount promise to the processes that use them,  *)
(* without the queue, the dispatcher, the handle table and the releases of *)
(* src/src/fs.rs: each process has a file of its own.                      *)
(*                                                                         *)
(* The content of .schema and README.md is asked for while open runs, and  *)
(* stays what it was until the process closes the file; reads are slices   *)
(* of it. A .tsv has a cursor that no other process moves. Only .schema    *)
(* can fail to open.                                                       *)
(***************************************************************************)
EXTENDS Integers, Sequences

CONSTANTS
  Procs, SchemaFile, ReadmeFile, StreamFile,
  SubQueries, Answers(_, _),  \* README.md is put together from sub-queries;
  Pending,                    \* their answers depend on the version of the table
  SchemaText(_),              \* .schema of a version of the table
  ReadmeText(_),              \* README.md of some answers
  StreamByte(_),              \* the bytes of a .tsv, from 1 on
  Offsets, Sizes, Errnos

VARIABLES
  version,  \* the table: how often it has been altered
  view      \* per process: its file

vars == <<version, view>>

NoParts == [q \in SubQueries |-> Pending]
NoView  == [st |-> "closed", file |-> SchemaFile, parts |-> NoParts, text |-> <<>>, pos |-> 0,
            off |-> 0, size |-> 0, res |-> "none", bytes |-> <<>>]

Init == version = 0 /\ view = [p \in Procs |-> NoView]

\* p goes from one stage to the next, and the other files stay as they are.
Becomes(p, from, new) == view[p].st = from /\ view' = [view EXCEPT ![p] = new] /\ UNCHANGED version

Alter == version' = version + 1 /\ UNCHANGED view

Open(p, f) == Becomes(p, "closed", [NoView EXCEPT !.st = "opening", !.file = f])

SubQuery(p, q) ==
  /\ view[p].file = ReadmeFile /\ view[p].parts[q] = Pending
  /\ \E ans \in Answers(q, version) : Becomes(p, "opening", [view[p] EXCEPT !.parts[q] = ans])

\* The content, as it is now or as the sub-queries told it.
Fetched(p) ==
  CASE view[p].file = SchemaFile -> SchemaText(version)
    [] view[p].file = ReadmeFile -> ReadmeText(view[p].parts)
    [] view[p].file = StreamFile -> <<>>

Fetch(p) ==
  /\ view[p].file = ReadmeFile => \A q \in SubQueries : view[p].parts[q] # Pending
  /\ Becomes(p, "opening", [view[p] EXCEPT !.st = "fetched", !.text = Fetched(p), !.parts = NoParts])

OpenDone(p) == Becomes(p, "fetched", [view[p] EXCEPT !.st = "open"])

OpenFails(p) == view[p].file = SchemaFile /\ Becomes(p, "opening", NoView)

Read(p, off, size) ==
  Becomes(p, "open", [view[p] EXCEPT !.st = "reading", !.off = off, !.size = size,
                                     !.res = "none", !.bytes = <<>>])

\* The reply to a read; the cursor has moved past the bytes of it.
Reply(p, res, bytes, pos) ==
  Becomes(p, "reading", [view[p] EXCEPT !.st = "open", !.size = 0, !.res = res, !.bytes = bytes, !.pos = pos])

ReadText(p) ==
  LET end == view[p].off + view[p].size
      len == Len(view[p].text)
  IN  /\ view[p].file # StreamFile
      /\ Reply(p, "data", SubSeq(view[p].text, view[p].off + 1, IF end < len THEN end ELSE len), view[p].pos)

ReadStream(p) ==
  LET off == view[p].off
      pos == view[p].pos
  IN  /\ view[p].file = StreamFile
      /\ \/ off # pos /\ Reply(p, "EIO", <<>>, pos)
         \/ off = pos /\ \E n \in 0..view[p].size :
              Reply(p, "data", [i \in 1..n |-> StreamByte(pos + i)], pos + n)
         \/ off = pos /\ \E e \in Errnos : Reply(p, e, <<>>, pos)

Close(p) == Becomes(p, "open", NoView)

\* Most steps of an implementation stutter here; TLC tries the disjuncts in order.
Next ==
  \/ UNCHANGED vars
  \/ Alter
  \/ \E p \in Procs :
       \/ \E f \in {SchemaFile, ReadmeFile, StreamFile} : Open(p, f)
       \/ \E q \in SubQueries : SubQuery(p, q)
       \/ Fetch(p) \/ OpenDone(p) \/ OpenFails(p)
       \/ \E off \in Offsets, size \in Sizes : Read(p, off, size)
       \/ ReadText(p) \/ ReadStream(p) \/ Close(p)

Spec == Init /\ [][Next]_vars
=============================================================================
