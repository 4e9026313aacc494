# A TLA+ model of clickfs

clickfs mounts a ClickHouse server as a read-only file system: databases and
tables are directories, `.schema` and `README.md` are texts made when they are
opened, and `<partition>.tsv` and `all.tsv` are the live response of a SELECT.
This directory holds TLA+ models of that program, the TLC configurations that
check them, and TLAPS proofs of their safety properties and refinements. The code is the
reference; line numbers are those of `src/src/*.rs`, and `PROJECT.json` maps every
definition to the lines it stands for.

## The system

| Component | Code | State | Operations | Hard because |
|---|---|---|---|---|
| streaming handle | `stream.rs` | `pending`, `pos`, `upstream_done`, `last_err`, the tail buffer, a bounded channel, a task | `spawn`, `read_blocking`, `cancel`, `Drop` | task, server, readers and close run concurrently; errors arrive behind data; the lock is given up for a query |
| ClickHouse client | `driver.rs` | an HTTP client | `query_text`, `query_stream_with_id`, `kill_query` | answers are late or fail; KILL and SELECT travel on different connections |
| inode table | `inode.rs` | `forward`, `reverse`, `bump` | `allocate`, `lookup` | two maps without a common lock; probing that can wrap |
| listing cache | `cache.rs` | entries with the time of insertion | `get`, `insert` | entries outlive what they list |
| path resolver | `resolver.rs` | none | `resolve` | pure |
| directory operations | `fs.rs` | three caches, the inodes | `lookup`, `readdir` | the catalog changes during and between requests; listings are split by offsets |
| open files | `fs.rs` | `fh_counter`, `handles` | `open`, `read`, `release` | requests of several processes interleave; RELEASE comes late |
| README.md synthesis | `readme.rs` | none | `render` | five concurrent queries, each may fail |
| error mapping | `error.rs` | none | `to_errno`, `parse_clickhouse_error` | the reason of a failure comes in a header, a text or a status, and they may disagree |
| tail query | `fs.rs`, `driver.rs`, `stream.rs` | the `TailContext` of a handle | `fetch_tail_order_expr`, `sql_select_tail`, `reverse_tsv_rows` | the key is asked for at open and used later; keys, limits and empty lines have many shapes |
| mount lifecycle | `main.rs` | main thread, signal thread, runtime | `run_mount`, `run_umount` | signals, the kernel, open files and detached tasks end in any order |

fuser's `mount2` (0.14) reads requests in one loop and calls the handlers of
`ClickFs` one after the other. A handler blocks that loop (`block_on`) while it
waits for ClickHouse. Concurrent with it are the stream tasks, the detached KILLs,
the signal thread, the server and other users of the server. The components are
written for more than that: `StreamHandle` and `InodeTable` take `&self`, lock
inside and speak of other threads in their comments (`stream.rs:179-182`,
`inode.rs:50`). Both are therefore modelled with any number of threads, and the
runs say which results need the serial dispatcher.

What makes the parts correct:

- *Stream*: forward reads are the response, byte for byte; a broken response never
  looks like a complete one; an error comes after the data before it; memory stays
  bounded; every read returns; a closed file leaves no task and no query behind; no
  reader asks for the tail twice. All of it together: the handle behaves like one
  sequential file, with a tail buffer pinned to a fixed end of file.
- *Tail query*: the buffer is whole rows under one header, the latest by the key, and
  there is one whenever the server answers, also when the key could not be looked up,
  if no call in the key has several arguments.
- *Inodes*: stable, unique and resolvable while no probe wraps; unique even then with one
  request at a time.
- *Tree*: an answer is never staler than the cache and the query allow; a listing
  of a quiet directory is complete and free of duplicates.
- *Open files*: a process reads the file it opened; a held handle is known; texts
  are fresh at open and read to their end; a failed sub-query is told and takes no other
  line with it; an errno tells the cause; no stream outlives its file; everyone is answered.
  All of the reading together: a process never notices that others use the mount.
- *Mount*: a process that ends leaves no mount behind, unless it was killed without
  AutoUnmount, and has dropped everything; a closed file's query stops.

`PROJECT.json` lists the hazards behind these properties at the lines where
they bite.

## Modules

**`StreamHandle.tla`** - one open `.tsv`. The response is the numbers 1..`total`; the
server hands out blocks of at most `WireCap`, finishes or fails. The task is
`connecting`, at `select!`, sending a chunk, sending the error, or done; the
channel is a sequence of at most `ChanCap` items. `read_blocking` is split where
it gives up the lock or waits: `Check` (first critical section), `Fetch` (the tail
SELECT, no lock), `Store` (second), then one of `ServeError`, `ServeTail`,
`ServeReadOrder`, `ServeForward` (third), the pull loop `RecvBytes`, `RecvErr`,
`RecvClosed` with the lock held, and `ReturnError` or `ReturnBytes`. `Release` is
`ClickFs::release` with its `cancel()`, `DropHandle` is `Drop` (a second `cancel()`
and the spawned KILL), `DropFields` closes the channel. `notify_waiters` is modelled
as it is: it reaches a task that waits in `select!` and no other. A KILL is
delivered at any later time or lost; delivered before the SELECT was accepted, it
kills nothing. A tail buffer is represented by its length and its bytes by their
positions in it. `MCStreamHandle` gives the offsets.

**`SequentialFile.tla`** - what such a handle promises: a file behind one cursor, a read
as one step between its call and its return. `StreamHandle` ends with the mapping:
`status` is what became of the SELECT, `cursor` is `pos`, `window` the length of the tail
buffer, `told` the history variable `errTold`, and `asked` the arguments of the threads
inside `read_blocking`. Task, channel, lock and critical sections have no counterpart:
their steps stutter.

**`TailQuery.tla`** - what stands in the tail buffer. `Open` asks for the key (and may get
no answer), other clients insert rows or replace the table, `Materialize` sends the SELECT
and reverses its rows. A key is a sequence of columns and calls; the statement is the
record of partition, ORDER BY and limit that its text stands for, with `Split` cutting at
every comma as the code does. The server sorts, breaks ties in any way and refuses a
fragment of a call. Lines are sequences of values, so that a row of one empty string is an
empty line. `MCTailQuery` gives the tables.

**`InodeTable.tla`** - `allocate` step by step on the two maps, one action per
access to a map, with the hash an arbitrary function into `HashVals` and inodes
modulo `MaxIno + 1`. It assumes bit 1 of a hash set, as `hash` makes it.

**`Namespace.tla`** - resolver, caches, `lookup` and `readdir` over a catalog that
other clients change. Paths are sequences of names; name rules are the sets
`Valid` and `ValidPart`. Time is a clock of ticks kept as ages; a query is evaluated
by the server at one moment and delivered at a later one, at most `QueryMax` ticks
after it was sent. A process lists a directory with as many `readdir` calls as the
reply buffer makes necessary. Every handler is one request from `Request` to its
reply. `MCNamespace` gives the names and the catalogs.

**`ClickFs.tla`** - open files. Processes call open, read and close; the kernel
queues requests and RELEASEs, the dispatcher takes one at a time; `open` is split
where it waits (DESCRIBE, the sub-queries of README.md, the sort key for tail
mode). A byte is a record of file, query, version of the table and position, so that
mixing handles, versions or offsets shows. `failure` is the query error of the last
reply with its cause. The kernel is external: it cuts a read
at the placeholder size unless the file was opened with `FOPEN_DIRECT_IO`. A read of
a stream is one step whose outcomes are those `StreamHandle` allows for offsets
below the tail window.

**`OpenFiles.tla`** - what the mount promises to the processes that use files: each has one
of its own. It is `closed`, `opening`, `fetched`, `open` or `reading`; its content is asked
for while it opens and stays what it was; a read of a text is a slice of it, a read of a
`.tsv` gives bytes at a cursor that belongs to the process; only `.schema` can fail to open.
There is no queue, no dispatcher, no handle and no release. `ClickFs` ends with the
mapping: `Mine(p)` puts the file of a process together from what the kernel knows, the
entry of its handle, the locals of the `open` that runs for it, and its request, which may
be queued or being served (`Asks`). Taking a request, allocating a handle and `release`
stutter.

**`HttpClient.tla`** - operators: how a response becomes an answer or an errno.
A response has the fate of its connection, a status, and the exception codes of its
header and of its text. `query_text` and `query_stream_with_id` differ in what they do
when the text of an error is lost. `Responses` is what servers and proxies may send
for a cause, with the connection broken in any place; `ClickFs` draws every failure from
it. `Remnant` says what is left of the cause then, for `ErrnoTellsCause`.

**`Readme.tla`** - operators: which line of README.md shows which answer, for answers
that failed, are empty or are no JSON. `ClickFs` runs the sub-queries.

**`Mount.tla`** - the life of the process: start-up checks, the signal thread,
`mount2`, `clickfs umount` from another process, and the end, which drops the file
system and then the runtime. `fusermount -u` and `umount` fail while a file is open. The
option AutoUnmount is on or off.

**`StreamHandleProofs.tla`, `StreamBufferProofs.tla`, `StreamRefinement.tla`,
`InodeTableProofs.tla`, `NamespaceProofs.tla`, `ClickFsProofs.tla`, `MountProofs.tla`,
`TailQueryProofs.tla`** - theorems and proofs about the module they are named for
(the two others of the stream: what a handle keeps, and the refinement).

Operators introduced by a comment `Mutant:` are wrong versions of the definition
below them. No specification uses them; they are listed in `PROJECT.json` and each
is known to break the property it is listed with.

## Runs

| Run | Shows |
|---|---|
| `stream` | one reader: `ForwardReadsAreTheFile`, `NoSilentTruncation`, `ErrorAfterAllData`, `BoundedBuffering`, `ReadReturns`, `NothingLeftRunning`, `IsSequentialFile`, types |
| `stream_two` | two readers: `OneSelectPerReader`, and `IsSequentialFile`, which contains the three properties of the data path |
| `inode` | two threads, no wrap: `UniqueInodes`, `GivenResolve`, `ReverseAgrees` |
| `inode_serial` | one thread, with wrap: `UniqueInodes`, `AllocateReturns`, types |
| `ns_table` | a table's directory: `QuietListing`, `AnswersAreFresh`, types |
| `ns_database` | a database: `QuietListing`, `AnswersAreFresh` |
| `clickfs` | `ReadsTheOpenedFile`, `HeldIsKnown`, `FreshOnOpen`, `FailuresStayLocal`, `ErrnoTellsCause`, `NoOrphanStreams`, `FilesArePrivate` (`ClickFs` implements `OpenFiles`), `EveryRequestIsAnswered`, types |
| `mount` | `CleanExit`, `ClosedStops`, types |
| `tail` | `BufferIsRows`, `LatestRows`, `KeysMaterialize` |

The following runs end with a counterexample on purpose: the property is a sentence
of the repository's docs or comments, and the code does something else.

| Run | Sentence | What happens |
|---|---|---|
| `stream_sticky` | `docs/streaming-read.md:59`, `Failed` stays `Failed` | the error is returned once, then end of file |
| `ns_view` | `docs/streaming-read.md:146`, re-reading the list keeps the view consistent | an entry that exists all the time is skipped when an earlier one disappears between two replies |
| `mount_signal` | `README.md:143` "Ctrl-C unmounts and exits" | a signal that meets an open file, or comes before the mount, is used up; later ones are swallowed |

More sentences are false, or true only with a condition. They have no run of their own;
the models show each with other constants, with one more invariant or with a definition
in the form the sentence asks for:

- `docs/streaming-read.md:163,167` special files are opened with `opened(fh, 0)`, "不开启"
  direct I/O: the code opens every file with `FOPEN_DIRECT_IO` (`fs.rs:566`), and has to. As
  documented (`InsertCached` in place of `Insert`) the kernel cuts a text at the
  placeholder size, and `FilesArePrivate` fails with a README.md that is longer.
- `stream.rs:181` "`tail_attempted` (set under the lock) prevents re-entry": the flag is
  set after the tail SELECT, so threads that decide while one is running issue their own.
  What holds is `OneSelectPerReader`: nobody asks again. With the serial dispatcher of
  today that is one SELECT; with two readers it can be two.
- `stream.rs:374` "KILL QUERY ASYNC makes it deterministic": a KILL can overtake the
  SELECT of a task that is still connecting. What holds is `NothingLeftRunning`: the task
  then ends at its first send. That property does not depend on the KILL, since the server
  also stops a SELECT whose connection closes; how much sooner a KILL does is not modelled.
- `inode.rs:37` "Reserve low values.": a probe from the last inode wraps to the reserved
  ones (`HashVals` holding `MaxIno` and two paths), so no property says that they stay
  free. With two threads and wrap-around `UniqueInodes` fails as well: the probe that
  steps over the root adds a shared counter, so two probes for one path may part there.
  Both take a hash at the very end of the 64-bit range.
- `readme.rs:5` "Any sub-query that fails turns into an _(unavailable)_ line": so says
  `FailuresStayLocal`, with a failed count told in the line of the stats. A 200 whose text
  is no JSON is no failure to the code: of stats it leaves no line at all, of columns one
  that says that there are none.
- `CHANGELOG.md:96` schema changes "visible within 2s": an entry's age counts from the
  delivery of the answer, so the bound is the TTL plus the duration of the query, as in
  `AnswersAreFresh`.
- `stream.rs:375` the KILL task "lives in the runtime and will outlive `self` long enough to
  fire": not the KILLs spawned when the mount ends, with which the runtime is dropped.
  What holds is `ClosedStops`, since the connection closes as well.
- `README.md:172-174` tail is unordered for engines without a key: it also is when the lookup
  of the key failed (`fs.rs:230`), and then nothing tells the reader. `LatestRows` excludes
  it with `stale`, as it excludes a table that was replaced after the open; what holds then
  is `BufferIsRows`, and after a failed lookup `KeysMaterialize`.
- `driver.rs:432` "we must apply DESC to every column": the statement is cut at every comma,
  so a key with a call of several arguments, such as `cityHash64(a, b)`, gives a
  statement the server refuses; `KeysMaterialize` names it as an exception.
- `error.rs:159`, the header is the definitive code: `query_text` reads the body first, and
  a connection lost there is EIO whatever the header said (`query_stream_with_id` uses the
  header). Without the header a stream whose text is lost falls back to the status
  (`driver.rs:263`): an unknown table sent with 401 reads as EACCES then. `ErrnoTellsCause` allows EIO
  for a broken connection, and for a code that only the lost text had the errno of the
  status, and nothing else.

### Bounds

- `stream` has responses of up to 3 bytes in blocks of 1, a channel of 1 and reads of 1
  or 3: enough for a read that needs several chunks, a full channel with the task
  blocked behind it, one byte more than the stream may buffer, and an error in every
  place. `stream_two` has blocks of up to 2, so that a read leaves bytes pending. The
  pseudo end of file is 10 and the trigger gap 3, so that there are offsets below the
  window, in the window but below the buffer, in the buffer, and at its end; tail
  buffers are empty or of 2 bytes.
- The inode runs have three or four paths and as few hash values, so that probes
  overlap and, in `inode_serial`, fill the range and pass the root.
- The tree runs have one database, and at most two tables or one partition, of which
  every combination but the empty database occurs; a TTL
  and a query of one tick each; a reply buffer of 3 or 4 entries, so that listings
  take several replies with time to expire between them. A table that is listed
  although `resolve` rejects it (`t2`) is included.
- `clickfs` has two processes, two opens and one alteration of the table: both may hold
  the same file, or one may reopen what it closed. The placeholder size is below the length of the texts,
  as it is for a long README.md. README.md has the two sub-queries whose answers are
  combined (stats and count) and one of the three that stand alone (schema). One
  exception code has an errno of its own and one has not; the statuses are two whose
  errnos differ from both.
  Both processes can have the same file, each can fail to open `.schema`, and one can have the
  handle that is drawn after the other closed: the cases in which `FilesArePrivate` could fail.
- `tail` has values 0 and 1 in tables of one and two columns, at most three rows and a limit
  of two, so that the limit is below, at and above the number of rows; keys are
  absent, of one or two columns, shorter than the sorting key, a call of one argument
  that reverses the order, and a call of two.
- `mount` has two streams, two signals and two uses of `clickfs umount`.

No symmetry is used: the liveness runs do not allow it and the others are small.

### Fairness

- `StreamHandle`: weak fairness of the server (`max_execution_time` and the HTTP
  timeouts end every query), of the task and of the closing steps (tokio runs ready
  tasks); strong fairness of each reader, because tokio's `Mutex` is first come,
  first served. Nothing makes a program read or close.
- `InodeTable`: weak fairness of every thread inside `allocate`.
- `ClickFs`: weak fairness of the dispatcher; that a stream read ends is
  `ReadReturns` of `StreamHandle`.
- `Mount`: weak fairness of the main thread, the signal thread, RELEASEs, KILL tasks
  and of closing files. Opening, signals and unmounting are free.

## Proofs

`StreamHandleProofs` proves, for any set of readers, any capacities, offsets,
sizes and tail lengths:

- `TypeCorrect`: `Spec => []TypeOK`;
- `ForwardReads`: `Spec => []ForwardReadsAreTheFile`;
- `EmptyMeansEnd`: `Spec => []NoSilentTruncation`;
- `ErrorComesLast`: `Spec => []ErrorAfterAllData`.

The properties speak of replies; what keeps them true is the path of the bytes. The
inductive invariant `IInv` adds: a thread in the pull loop holds the lock and reads
at the cursor (`Pull`); `pending` starts at the cursor (`PendingAt`); `pending`, the
channel and what the task holds are consecutive pieces of the response (`Queued`,
`InHand`); an error is the last item of the channel and the task is done then
(`ErrorLast`); an error that waits in `last_err` has no bytes beside it once the lock
is free (`ErrorWaits`); and a task ends under an open handle only with the response
complete or an error told or still to tell (`TaskEnds`). The path is claimed only
while the receiver lives (`rxOpen`): after the drop the queue is thrown away.

`StreamRefinement` proves `Refinement`: `Spec => IsSequentialFile`, under the same
generality. Every step of the handle is one step of the file or leaves what the file
shows unchanged; a read takes effect when it returns. Beside `IInv` the argument needs
`RInv`: nothing is passed on that the response does not have (`Bounded`); an error on
the path or told is that of a failed or killed SELECT (`ErrorIsReal`); a told error
leaves nothing to return (`ToldIsLast`); a thread outside `read_blocking` has no
arguments (`IdleAsksNothing`). `PinnedAssumption`, that a response never reaches
the offsets of a pinned tail buffer (`max_result_bytes` against `PSEUDO_EOF`, 2^63 - 1),
keeps the tail window away from the cursor.

`StreamBufferProofs` proves what a handle keeps.

- `MemoryBounded`: `Spec => []BoundedBuffering`, for any number of readers. The bytes
  between the wire and the cursor are consecutive (`Path` of `IInv`), so it is enough to
  bound each stretch: what is on the wire and what the task holds was on the wire at
  once (`OneItem`), a stretch of n items of the channel has n times as many bytes
  (`Span`), a read asks for one of the sizes (`Asked`) and leaves less than an item
  (`Left`).
- `SelectsAreBounded`: `Spec => []OneSelectPerReader`, for any finite set of readers. Until
  an attempt is stored, as many SELECTs were issued as threads are busy with one (`Asking`,
  `Pending`), and a thread is busy with one at a time; from then on no thread decides to
  issue another.

`InodeTableProofs` proves `TypeCorrect` without conditions, and, assuming `NoWrap` (no
probe starts so high that passing all other paths would wrap):

- `InodesUnique`: `Spec => []UniqueInodes`;
- `InodesResolve`: `Spec => []GivenResolve`;
- `MapsAgree`: `Spec => []ReverseAgrees`.

The argument is that of linear probing without deletion: no slot is vacant between
the start of a path's probe and its slot (`Chained`), and the slots a running probe has
passed belong to others (`Probed`), so a vacant slot may be taken. `NoWrap` is needed:
the counterexample without it is described above. With one request at a time it is
not: `InodesUniqueSerial` assumes `Serial` instead and holds for every hash. A path without
an entry in `reverse` then has no slot (`Mapped`, `Unmapped`), so that any vacant slot may
be taken, and what was given out stays in `reverse` (`GivenStays`).

`NamespaceProofs` proves `TypeCorrect` (`[]TypeOK`), `LookupsAreFresh`
(`[]AnswersAreFresh`) and `ListingsAreComplete` (`[]QuietListing`) for any names, catalogs,
TTL, query time and reply buffer. For the first two, the models
keep for every object how long ago it was last there and last missing. `NInv` says that
these ages start at the present (`Ages`), that an answer on its way was true within the
time it has waited (`AnswerFresh`) and that a cached listing was true within its age plus
the time of a query (`CacheFresh`). A tick ages everything by one, so each bound moves
with what it bounds.

`ListingsAreComplete` is about a listing that takes several requests, each of which fetches
the list again or finds it in a cache. `LInv` adds to `NInv`: what is served and cached tells
of objects the server may have (`NamesKnown`), a directory with an inode can be listed
(`DirsKnown`), and the request at hand is the next page of the listing (`Asked`). While
nothing below the directory has changed for longer than a listing lives (`Quiet`), every
answer and every live entry of the cache is the same set of names, by `AnswerFresh` and
`CacheFresh`; so every page is cut from one and the same sequence, and what the process
has got is its beginning (`ListedSoFar`). That this sequence has every name exactly once
(`WholeEnumerates`) rests on `Sorted`, which gives each name the place that is the number
of names before it in the collation: what ORDER BY does, without an induction over the
sequence. `NameAssumption` keeps the entries apart: no database, table or partition is
named `.` or `..`, `.schema` and `README.md` do not end in `.tsv`. The code does not look for
a table of the first kind, which ClickHouse can be made to have; it would be listed beside
the entry that every directory has.

`ClickFsProofs` proves, for any processes, number of opens and alterations, offsets,
sizes, exception codes and statuses:

- `ErrnoIsTold`: `Spec => []ErrnoTellsCause`, by cases over `Responses`, every place where
  the connection can break included (`ResponseOf`, `TextErrno`, `StreamErrno`);
- `TypeCorrect`, `HandlesAreNotConfused`, `HandlesAreKnown`, `TextsAreFresh`,
  `FailuresAreLocal` and `StreamsAreOwned`: `TypeOK`, `ReadsTheOpenedFile`, `HeldIsKnown`,
  `FreshOnOpen`, `FailuresStayLocal` and `NoOrphanStreams`.

They follow from one invariant, `Inv` (theorem `Invariant`). A process has one request
in flight at most, and it is the one it waits for (`Requests`); the handle it has is
below `fh_counter`, is its own, is not being released, and its entry was made by its own
open (`Held`); what `open` has put together so far belongs to the file and is not older
than the call (`Opening`); what a process got is what its file holds at its offset
(`Got`). The bound on opens (`Bound`) belongs to the model: the code's counter has 64 bits.
`FailuresStayLocal` rests on lemmas about the lines of README.md (`RenderTells`,
`ReadmeTells`), reads on one about slices (`SliceTells`).

- `FilesAreTheirOwn`: `Spec => FilesArePrivate`, the refinement of `OpenFiles`.

It is proved from `Inv` without anything new: for every action there is a lemma (`...Seen`)
that names the step of `OpenFiles` it is, or (`...Unseen`) that no process sees it. Each shows
what becomes of `Mine(p)` for the process that is served and that `Mine(r)` stays for all
others (`Others`, `Aside`), which is where handles that are given out, filled and removed must
not be theirs (`Held`). A process has one read in flight (`AsksOne`, from `Requests`), which
makes the size it waits for a function of the state. `ReadText` never sees a missing handle,
and a slice is `SubSeq` also past the end (`SliceIs`).

`MountProofs` proves `TypeCorrect` and `ExitIsClean` (`[]CleanExit`) for any files, signals
and uses of umount. The invariant adds who serves the mount (`MountServed`), that files
are open only on a mount and dropped before the runtime (`FilesFollowMount`), and that
exactly the dropped handles have a KILL (`KillPerDrop`).

`TailQueryProofs` proves `WholeRows`, `RowsAreLatest` and `KeysAreAccepted` (`[]BufferIsRows`,
`[]LatestRows`, `[]KeysMaterialize`) for any tables, keys, limits and partitions. The
invariant says that the key asked for at open is the table's unless it is stale
(`KeyKept`), and a key of some table in any case (`KeyShaped`). The rest is one step: the buffer is what the server sent, with its rows
turned around (`Reversed`), and the order by every column descending is the reverse of
the key's.

What the proofs assume of the constants is named and checked by TLC in every run:
`StreamAssumption`, `PinnedAssumption`, `InodeAssumption`, `NamespaceAssumption` (every name has
one place in the collation), `NameAssumption` (see above), `CatalogAssumption` (an object
exists only inside its parent), `ClickFsAssumption`,
`HttpAssumption`, `ReadmeAssumption`, `MountAssumption`, `TailAssumption` (keys are sequences of
columns and calls of the table).

Only model-checked is liveness, which rests on fairness and is outside the prover's reach:
`ReadReturns`, `NothingLeftRunning`, `AllocateReturns`, `EveryRequestIsAnswered` and
`ClosedStops`. Every invariant and every refinement of a passing run has a theorem.

## Not modelled

- `getattr`, `statfs` and `attr_for_plan` change no state. `readdir` of a file, directory
  opens and write opens are rejected by the kernel of a read-only mount; `NotADir`
  is modelled, EISDIR and EROFS of `open` are not. Inodes the kernel never got are not
  asked for, so the ENOENT answers of `path_of` are left out.
- TLS, compression and the building of the HTTP client, quoting and the other SQL texts
  of `driver.rs`: strings without state. The wording of errors and of README.md lines,
  `human_bytes`, `json_to_u64`, argument parsing.
- A 200 response whose body ends in an exception text is a success to `query_text`, and
  to a stream it is data: what ClickHouse writes there is outside the models, except
  that `Readme` has answers that are no JSON.

## Plan

Done, in this order: `StreamHandle` with its proofs, `InodeTable` with its proofs,
`Namespace`, `ClickFs`, `Mount`, `SequentialFile` with the refinement, `TailQuery`,
`HttpClient`, `Readme`; then the proofs of every safety property; last `OpenFiles` with the
refinement of `ClickFs`. What could follow:

1. one directory tree as an abstract specification of `Namespace`, in which an answer is one
   of the recent catalogs, refined with `NInv` and `LInv`;
2. `ClickFs` with `StreamHandle` in place of its one-step reads of a stream, so that the tail
   window and the stall of the dispatcher behind a slow stream are in one model.
