----------------------------- MODULE Namespace ------------------------------
(***************************************************************************)
(* The directory tree of a mount: src/src/resolver.rs, src/src/cache.rs    *)
(* and the lookup and readdir handlers of src/src/fs.rs, over a ClickHouse *)
(* catalog that other clients change while time passes.                    *)
(*                                                                         *)
(* fuser dispatches one request at a time; a request that misses its cache *)
(* waits for a query while the catalog and the clock move on. A path is    *)
(* the sequence of its names, an object of the catalog the sequence        *)
(* <<database>>, <<database, table>> or <<database, table, partition>>.    *)
(* Time is counted in ticks, and only as ages, capped at Horizon.          *)
(***************************************************************************)
EXTENDS Integers, Sequences, FiniteSets

CONSTANTS
  Db, Dot, DotDot, Schema, ReadmeMd,  \* the names db, ., .., .schema, README.md
  All,         \* the partition_id "all" of a table without partitions
  Collation,   \* every database, table and partition name, in ORDER BY order
  Valid,       \* the names that pass valid_db_or_table
  ValidPart,   \* the names that pass valid_identifier
  Catalogs,    \* the catalogs the server may have
  LookupNames, \* names the kernel looks up
  LsDirs,      \* directories some process lists
  CacheTtl,    \* ticks a listing stays in a TtlCache (2 s in the code)
  QueryMax,    \* ticks a listing query may take (its HTTP timeout)
  BufCap       \* entries that fit in one readdir reply

Horizon == CacheTtl + QueryMax + 1
None    == -1

Names == {Collation[i] : i \in 1..Len(Collation)}

ASSUME NamespaceAssumption ==
  /\ CacheTtl \in Nat /\ QueryMax \in Nat /\ BufCap \in Nat \ {0}
  /\ Collation \in Seq(Names)
  /\ \A i, j \in 1..Len(Collation) : Collation[i] = Collation[j] => i = j

\* A database, a table of it or a partition of that exists only inside its parent.
ASSUME CatalogAssumption ==
  \A c \in Catalogs : \A o \in c :
    /\ o \in Seq(Names) /\ Len(o) \in 1..3
    /\ Len(o) > 1 => SubSeq(o, 1, Len(o) - 1) \in c

tsv(p) == <<p>>          \* the file name "<p>.tsv"
AllTsv == tsv(All)       \* "all.tsv"

\* Nothing else is called "." or "..", and no file "<p>.tsv" is ".schema" or "README.md".
ASSUME NameAssumption ==
  /\ Dot # DotDot /\ Schema # ReadmeMd
  /\ ({Dot, DotDot} \cup {Schema, ReadmeMd}) \cap {tsv(p) : p \in Names \cup {All}} = {}
  /\ {Dot, DotDot} \cap (Names \cup {Db, Schema, ReadmeMd}) = {}

Objects == UNION Catalogs
Keys    == {<<>>} \cup {o \in Objects : Len(o) < 3}  \* keys of the three caches

VARIABLES
  catalog,            \* the server: objects that exist
  sinceIn, sinceOut,  \* ticks since an object was last in, last out
  cache,              \* db_cache, table_cache and part_cache, by key
  inodes,             \* paths that have an inode
  pc, cur,            \* the dispatcher: step and request
  wait, answer,       \* the pending query: ticks so far, its answer
  reply, lag,         \* the last answer; ticks since the catalog bore it out
  ls                  \* a process listing a directory

server == <<catalog, sinceIn, sinceOut>>
vars == <<server, cache, inodes, pc, cur, wait, answer, reply, lag, ls>>

-----------------------------------------------------------------------------
(* resolver.rs. Both errors of resolve, NotFound and InvalidIdentifier, are *)
(* ENOENT to the kernel.                                                    *)
NotFound == [kind |-> "NotFound", obj |-> <<>>]

resolve(path) ==
  LET valid == path[1] = Db /\ path[2] \in Valid /\ (Len(path) > 2 => path[3] \in Valid)
      leaf  == path[4]
      OfTable(kind) == [kind |-> kind, obj |-> <<path[2], path[3]>>]
  IN  CASE Len(path) = 0 -> [kind |-> "Root", obj |-> <<>>]
        [] Len(path) = 1 /\ path[1] = Db -> [kind |-> "DbNamespace", obj |-> <<>>]
        [] Len(path) = 2 /\ valid -> [kind |-> "ListTables", obj |-> <<path[2]>>]
        [] Len(path) = 3 /\ valid -> OfTable("ListPartitions")
        [] Len(path) = 4 /\ valid /\ leaf = Schema   -> OfTable("DescribeTable")
        [] Len(path) = 4 /\ valid /\ leaf = ReadmeMd -> OfTable("Readme")
        [] Len(path) = 4 /\ valid /\ leaf = AllTsv   -> OfTable("StreamAll")
        [] Len(path) = 4 /\ valid /\ \E p \in ValidPart \ {All} : leaf = tsv(p) ->
             [kind |-> "StreamPartition", obj |-> <<path[2], path[3], leaf[1]>>]
        [] OTHER -> NotFound

Parent(obj) == SubSeq(obj, 1, Len(obj) - 1)

\* Objects that appear in a directory.
Children(dir) == {o \in Objects : resolve(dir).kind # "Root" /\ Parent(o) = resolve(dir).obj}

is_dir(plan) == plan.kind \in {"Root", "DbNamespace", "ListTables", "ListPartitions"}

-----------------------------------------------------------------------------
(* The server (external).                                                   *)

\* A listing query. Its answer is sorted and free of duplicates (ORDER BY,
\* DISTINCT), so the set of names stands for it, and Sorted gives its order.
Listing(key) == {n \in Names : Append(key, n) \in catalog}

\* Other clients create and drop databases, tables and partitions.
Change ==
  /\ \E c \in Catalogs \ {catalog} :
       /\ catalog' = c
       /\ sinceIn'  = [o \in Objects |-> IF o \in c THEN 0 ELSE sinceIn[o]]
       /\ sinceOut' = [o \in Objects |-> IF o \in c THEN sinceOut[o] ELSE 0]
       /\ ls' = [ls EXCEPT !.steady = @ \cap c,
                 !.quiet = @ /\ Children(ls.dir) \cap c = Children(ls.dir) \cap catalog]
  /\ UNCHANGED <<cache, inodes, pc, cur, wait, answer, reply, lag>>

Older(age, cap) == IF age = None \/ age = cap THEN age ELSE age + 1

\* A query that is taking QueryMax ticks is answered before the next tick.
Tick ==
  /\ pc \in {"query", "answered"} => wait < QueryMax
  /\ wait' = IF pc \in {"query", "answered"} THEN wait + 1 ELSE wait
  /\ cache' = [k \in Keys |-> [cache[k] EXCEPT !.age = Older(@, CacheTtl + 1)]]
  /\ sinceIn'  = [o \in Objects |-> IF o \in catalog THEN 0 ELSE Older(sinceIn[o], Horizon)]
  /\ sinceOut' = [o \in Objects |-> IF o \in catalog THEN Older(sinceOut[o], Horizon) ELSE 0]
  /\ UNCHANGED <<catalog, inodes, pc, cur, answer, reply, lag, ls>>

-----------------------------------------------------------------------------
(* cache.rs: get, the removal of an expired entry, insert.                  *)
NoEntry == [names |-> {}, age |-> None]

\* Mutant: expiry is not checked.
getAnyAge(key) == cache[key].age # None

get(key) == cache[key].age \in 0..CacheTtl

remove(key)        == cache' = [cache EXCEPT ![key] = NoEntry]
insert(key, names) == cache' = [cache EXCEPT ![key] = [names |-> names, age |-> 0]]

-----------------------------------------------------------------------------
(* fs.rs: which listing a request needs.                                    *)
\* verify_plan_exists asks for the parent's listing, readdir for its own.
NeedsQuery(op, plan) ==
  plan.kind \notin (IF op = "lookup" THEN {"Root", "DbNamespace"} ELSE {"Root"})

Key(op, plan) == IF op = "lookup" THEN Parent(plan.obj) ELSE plan.obj

\* Mutant: the pseudo-partition "all" is kept.
FetchedAll(key, names) == names

\* fetch_partitions drops the pseudo-partition "all".
Fetched(key, names) == IF Len(key) = 2 THEN names \ {All} ELSE names

\* ORDER BY: a name's place is the number of those before it.
Sorted(names) ==
  LET Before(n) == {m \in names : \E i, j \in 1..Len(Collation) :
                                   i < j /\ Collation[i] = m /\ Collation[j] = n}
  IN  [i \in 1..Cardinality(names) |-> CHOOSE n \in names : Cardinality(Before(n)) = i - 1]

\* The entries readdir builds, in their order.
Entries(plan, names) ==
  LET listed == Sorted(names)
  IN  <<Dot, DotDot>> \o
      CASE plan.kind = "Root" -> <<Db>>
        [] plan.kind = "ListPartitions" ->
             <<Schema, ReadmeMd, AllTsv>> \o [i \in 1..Len(listed) |-> tsv(listed[i])]
        [] OTHER -> listed

\* Mutant: the cookie names the last entry sent, not the next one.
PageAgain(entries, off, cap) ==
  SubSeq(entries, IF off = 0 THEN 1 ELSE off, IF off + cap < Len(entries) THEN off + cap ELSE Len(entries))

\* entries.skip(offset), up to what the reply buffer takes.
Page(entries, off, cap) ==
  SubSeq(entries, off + 1, IF off + cap < Len(entries) THEN off + cap ELSE Len(entries))

-----------------------------------------------------------------------------
(* Requests. A process looks a name up, or lists a directory with one       *)
(* readdir after another until a reply is empty.                            *)
NoAnswer  == [ok |-> FALSE, names |-> {}]
NoRequest == [op |-> "none", path |-> <<>>, off |-> 0]
NoLs == [state |-> "none", dir |-> <<>>, off |-> 0, listed |-> <<>>, quiet |-> FALSE, steady |-> {}]

Init ==
  /\ catalog \in Catalogs
  /\ sinceIn  = [o \in Objects |-> IF o \in catalog THEN 0 ELSE Horizon]
  /\ sinceOut = [o \in Objects |-> IF o \in catalog THEN Horizon ELSE 0]
  /\ cache = [k \in Keys |-> NoEntry]
  /\ inodes = {<<>>}
  /\ pc = "idle" /\ cur = NoRequest
  /\ wait = 0 /\ answer = NoAnswer
  /\ reply = "none" /\ lag = 0
  /\ ls = NoLs

Request(op, path, off) ==
  /\ pc = "idle"
  /\ pc' = "handle"
  /\ cur' = [op |-> op, path |-> path, off |-> off]
  /\ reply' = "none" /\ lag' = 0
  /\ UNCHANGED <<server, cache, inodes, wait, answer>>

Lookup(dir, name) ==
  /\ dir \in inodes /\ is_dir(resolve(dir))
  /\ Request("lookup", Append(dir, name), 0)
  /\ UNCHANGED ls

\* opendir. quiet: nothing below dir has changed for Horizon ticks. steady: what
\* has existed below it for that long.
LsStart(dir) ==
  /\ pc = "idle" /\ ls.state # "run"
  /\ dir \in inodes
  /\ ls' = [state |-> "run", dir |-> dir, off |-> 0, listed |-> <<>>,
            quiet  |-> \A o \in Children(dir) : Horizon \in {sinceIn[o], sinceOut[o]},
            steady |-> {o \in Children(dir) : sinceOut[o] = Horizon}]
  /\ UNCHANGED <<server, cache, inodes, pc, cur, wait, answer, reply, lag>>

LsNext ==
  /\ ls.state = "run"
  /\ Request("readdir", ls.dir, ls.off)
  /\ UNCHANGED ls

-----------------------------------------------------------------------------
(* The handlers.                                                            *)
plan == resolve(cur.path)
key  == Key(cur.op, plan)

Done(r) ==
  /\ pc' = "idle" /\ cur' = NoRequest /\ wait' = 0 /\ answer' = NoAnswer
  /\ reply' = r
  /\ lag' = CASE r = "entry" /\ plan.obj \in Objects  -> sinceIn[plan.obj]
              [] r = "enoent" /\ plan.obj \in Objects -> sinceOut[plan.obj]
              [] OTHER -> 0

\* reply.error: a listing process gives up.
Error(r) ==
  /\ Done(r)
  /\ ls' = IF cur.op = "readdir" THEN [ls EXCEPT !.state = "none"] ELSE ls
  /\ UNCHANGED inodes

\* The rest of lookup, once the parent's names are known.
ServeLookup(names) ==
  /\ cur.op = "lookup"
  /\ IF NeedsQuery("lookup", plan) /\ plan.obj[Len(plan.obj)] \notin names
     THEN Error("enoent")
     ELSE Done("entry") /\ inodes' = inodes \cup {cur.path} /\ UNCHANGED ls

\* The rest of readdir. The first entry that no longer fits has got its inode.
ServeReaddir(names, failed) ==
  LET entries == Entries(plan, names)
      page    == Page(entries, cur.off, BufCap)
      touched == Page(entries, cur.off, BufCap + 1)
  IN  /\ cur.op = "readdir"
      /\ inodes' = inodes \cup {Append(cur.path, n) :
                      n \in {touched[i] : i \in 1..Len(touched)} \ {Dot, DotDot}}
      /\ Done("page")
      /\ ls' = [ls EXCEPT !.listed = @ \o page, !.off = @ + Len(page),
                          !.quiet = @ /\ ~failed,
                          !.state = IF page = <<>> THEN "done" ELSE "run"]

Serve(names) == ServeLookup(names) \/ ServeReaddir(names, FALSE)

ResolveError ==
  /\ pc = "handle" /\ plan = NotFound
  /\ Error("enoent")
  /\ UNCHANGED <<server, cache>>

NotADir ==
  /\ pc = "handle" /\ plan # NotFound /\ cur.op = "readdir" /\ ~is_dir(plan)
  /\ Error("notdir")
  /\ UNCHANGED <<server, cache>>

Handled == pc = "handle" /\ plan # NotFound /\ (cur.op = "lookup" \/ is_dir(plan))

NoQuery ==
  /\ Handled /\ ~NeedsQuery(cur.op, plan)
  /\ Serve({})
  /\ UNCHANGED <<server, cache>>

\* Mutant: an entry lives on as long as it is used.
HitSliding ==
  /\ Handled /\ NeedsQuery(cur.op, plan) /\ get(key)
  /\ Serve(cache[key].names)
  /\ insert(key, cache[key].names)
  /\ UNCHANGED server

Hit ==
  /\ Handled /\ NeedsQuery(cur.op, plan) /\ get(key)
  /\ Serve(cache[key].names)
  /\ UNCHANGED <<server, cache>>

Miss ==
  /\ Handled /\ NeedsQuery(cur.op, plan) /\ ~get(key)
  /\ remove(key)
  /\ pc' = "query" /\ wait' = 0
  /\ UNCHANGED <<server, inodes, cur, answer, reply, lag, ls>>

\* The server evaluates the query, or the query fails (external).
Evaluate ==
  /\ pc = "query"
  /\ pc' = "answered"
  /\ answer' \in {[ok |-> TRUE, names |-> Listing(key)], NoAnswer}
  /\ UNCHANGED <<server, cache, inodes, cur, wait, reply, lag, ls>>

\* The answer arrives: its age counts from now.
Deliver ==
  /\ pc = "answered" /\ answer.ok
  /\ insert(key, Fetched(key, answer.names))
  /\ Serve(Fetched(key, answer.names))
  /\ UNCHANGED server

\* A failure is not cached. It is fatal unless partitions were to be listed.
DeliverError ==
  /\ pc = "answered" /\ ~answer.ok
  /\ IF cur.op = "readdir" /\ plan.kind = "ListPartitions"
     THEN ServeReaddir({}, TRUE)
     ELSE Error("error")
  /\ UNCHANGED <<server, cache>>

Next ==
  \/ Change \/ Tick
  \/ \E dir \in inodes, n \in LookupNames : Lookup(dir, n)
  \/ \E dir \in LsDirs : LsStart(dir)
  \/ LsNext
  \/ ResolveError \/ NotADir \/ NoQuery \/ Hit \/ Miss
  \/ Evaluate \/ Deliver \/ DeliverError

Spec == Init /\ [][Next]_vars

-----------------------------------------------------------------------------
\* Cache entries hold names of the right kind (never the `all` placeholder that
\* fetch_partitions filters out), and ages and waits stay within their bounds.
TypeOK ==
  /\ catalog \in Catalogs
  /\ sinceIn \in [Objects -> 0..Horizon] /\ sinceOut \in [Objects -> 0..Horizon]
  /\ \A k \in Keys : /\ cache[k].names \subseteq Names \ (IF Len(k) = 2 THEN {All} ELSE {})
                     /\ cache[k].age \in 0..(CacheTtl + 1) \cup {None}
  /\ pc \in {"idle", "handle", "query", "answered"}
  /\ cur.op \in {"none", "lookup", "readdir"}
  /\ wait \in 0..QueryMax
  /\ answer.ok \in BOOLEAN /\ answer.names \subseteq Names
  /\ reply \in {"none", "entry", "page", "enoent", "notdir", "error"}
  /\ lag \in 0..Horizon
  /\ ls.state \in {"none", "run", "done"}

\* The answer to a lookup, found or not, was true of the catalog when the listing
\* it rests on was made, and a cached listing outlives its TTL by at most the
\* time its query took: no sequence of expiries, refills and failed queries
\* makes a lookup staler than that.
AnswersAreFresh == lag <= CacheTtl + QueryMax

\* What a directory of the tree holds.
Contents(dir) ==
  LET names == {o[Len(o)] : o \in Children(dir) \cap catalog}
  IN  {Dot, DotDot} \cup
      CASE resolve(dir).kind = "Root" -> {Db}
        [] resolve(dir).kind = "ListPartitions" ->
             {Schema, ReadmeMd, AllTsv} \cup {tsv(p) : p \in names}
        [] OTHER -> names

\* A process that lists a directory while nothing below it changes and no query
\* fails gets each of its entries exactly once, however its readdir calls are
\* split by the reply buffer and whatever expires in between.
QuietListing ==
  ls.state = "done" /\ ls.quiet =>
    /\ {ls.listed[i] : i \in 1..Len(ls.listed)} = Contents(ls.dir)
    /\ \A i, j \in 1..Len(ls.listed) : ls.listed[i] = ls.listed[j] => i = j

\* "every readdir queries the list again (hitting the cache), which keeps the
\* view consistent" (docs/streaming-read.md:146): an object that exists all the
\* time is in the listing, once.
ViewConsistent ==
  ls.state = "done" =>
    \A o \in ls.steady :
      LET n == o[Len(o)]
          file == IF Len(o) = 3 THEN tsv(n) ELSE n
      IN  \E i \in 1..Len(ls.listed) :
            /\ ls.listed[i] = file
            /\ \A j \in 1..Len(ls.listed) : ls.listed[j] = file => i = j

=============================================================================
