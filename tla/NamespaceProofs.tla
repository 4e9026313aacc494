-------------------------- MODULE NamespaceProofs --------------------------
(***************************************************************************)
(* Proofs about the directory tree: caches, queries and lookups keep their *)
(* types, no answer to a lookup is staler than the time to live of a       *)
(* listing plus the time of its query, and a listing of a directory that   *)
(* nobody changes is complete.                                             *)
(***************************************************************************)
EXTENDS Namespace, FiniteSetTheorems, SequenceTheorems, TLAPS

USE DEF server

-----------------------------------------------------------------------------
(* The inductive invariant.                                                 *)

Listings == [names : SUBSET Names, age : 0..(CacheTtl + 1) \cup {None}]

\* A request, and a process that lists.
CurType == cur \in [op : {"none", "lookup", "readdir"}, path : {cur.path}, off : {cur.off}]
LsType  == ls \in [state : {"none", "run", "done"}, dir : {ls.dir}, off : {ls.off},
                   listed : {ls.listed}, quiet : {ls.quiet}, steady : {ls.steady}]

\* The types, with the shape of the records spelled out.
Types ==
  /\ catalog \in Catalogs
  /\ sinceIn \in [Objects -> 0..Horizon] /\ sinceOut \in [Objects -> 0..Horizon]
  /\ cache \in [Keys -> Listings]
  /\ \A k \in Keys : Len(k) = 2 => All \notin cache[k].names
  /\ pc \in {"idle", "handle", "query", "answered"}
  /\ CurType
  /\ wait \in 0..QueryMax
  /\ answer \in [ok : BOOLEAN, names : SUBSET Names]
  /\ reply \in {"none", "entry", "page", "enoent", "notdir", "error"}
  /\ lag \in 0..Horizon
  /\ LsType

\* Both ages of an object count from the moment the catalog last said so.
Ages == \A o \in Objects : IF o \in catalog THEN sinceIn[o] = 0 ELSE sinceOut[o] = 0

\* The children of a key that its listing tells of: all but the pseudo-partition.
Told(k) == {n \in Names : Append(k, n) \in Objects /\ ~(Len(k) = 2 /\ n = All)}

\* A listing was true of each of these children at most `age` ticks ago.
TrueWithin(k, names, age) ==
  \A n \in Told(k) :
    IF n \in names THEN sinceIn[Append(k, n)] <= age ELSE sinceOut[Append(k, n)] <= age

\* An answer on its way is as old as the wait, a cached one adds its age to that.
AnswerFresh == pc = "answered" /\ answer.ok => TrueWithin(key, answer.names, wait)
CacheFresh  == \A k \in Keys : get(k) => TrueWithin(k, cache[k].names, cache[k].age + QueryMax)

NInv == Types /\ Ages /\ AnswerFresh /\ CacheFresh /\ AnswersAreFresh

-----------------------------------------------------------------------------
(* Objects and the paths that name them.                                    *)

\* The bounds are numbers.
LEMMA Bounds == CacheTtl \in Nat /\ QueryMax \in Nat /\ Horizon = CacheTtl + QueryMax + 1
BY NamespaceAssumption DEF Horizon

\* An object is its parent's path and a name that the listings know.
LEMMA ObjectIsChild == ASSUME NEW o \in Objects PROVE
    /\ o \in Seq(Names) /\ Len(o) \in 1..3 /\ o[Len(o)] \in Names
    /\ Parent(o) \in Keys /\ Len(Parent(o)) = Len(o) - 1
    /\ Append(Parent(o), o[Len(o)]) = o
<1>1. PICK c \in Catalogs : o \in c
  BY DEF Objects
<1>2. o \in Seq(Names) /\ Len(o) \in 1..3 /\ (Len(o) > 1 => SubSeq(o, 1, Len(o) - 1) \in c)
  BY <1>1, CatalogAssumption
<1>3. o[Len(o)] \in Names
  BY <1>2
<1>4. /\ Len(Parent(o)) = Len(o) - 1 /\ Parent(o) \in Seq(Names)
      /\ \A i \in 1..(Len(o) - 1) : Parent(o)[i] = o[i]
  BY <1>2, SubSeqProperties DEF Parent
<1>5. Parent(o) \in Keys
  <2>1. CASE Len(o) = 1
    <3>1. Parent(o) = <<>>
      BY <1>4, <2>1, EmptySeq
    <3> QED BY <3>1 DEF Keys
  <2>2. CASE Len(o) > 1
    <3>1. Parent(o) \in Objects
      BY <1>1, <1>2, <2>2 DEF Objects, Parent
    <3> QED BY <1>2, <1>4, <3>1 DEF Keys
  <2> QED BY <1>2, <2>1, <2>2
<1>6. Append(Parent(o), o[Len(o)]) = o
  <2>1. Append(Parent(o), o[Len(o)]) \in Seq(Names) /\ Len(Append(Parent(o), o[Len(o)])) = Len(o)
    BY <1>2, <1>3, <1>4
  <2>2. \A i \in 1..Len(o) : Append(Parent(o), o[Len(o)])[i] = o[i]
    BY <1>2, <1>3, <1>4, AppendProperties
  <2> QED BY <1>2, <2>1, <2>2, SeqEqual
<1> QED BY <1>2, <1>3, <1>4, <1>5, <1>6

\* What a path can resolve to.
LEMMA Plans == ASSUME NEW path PROVE
    \/ resolve(path) = [kind |-> "Root", obj |-> <<>>]
    \/ resolve(path) = [kind |-> "DbNamespace", obj |-> <<>>]
    \/ resolve(path) = NotFound
    \/ resolve(path) = [kind |-> "ListTables", obj |-> <<path[2]>>]
    \/ resolve(path) = [kind |-> "ListPartitions", obj |-> <<path[2], path[3]>>]
    \/ resolve(path) = [kind |-> "DescribeTable", obj |-> <<path[2], path[3]>>]
    \/ resolve(path) = [kind |-> "Readme", obj |-> <<path[2], path[3]>>]
    \/ resolve(path) = [kind |-> "StreamAll", obj |-> <<path[2], path[3]>>]
    \/ /\ resolve(path) = [kind |-> "StreamPartition", obj |-> <<path[2], path[3], path[4][1]>>]
       /\ \E p \in ValidPart \ {All} : path[4] = tsv(p)
<1>1. CASE Len(path) # 4
  BY <1>1 DEF resolve
<1>2. CASE Len(path) = 4 /\ path[4] \in {Schema, ReadmeMd, AllTsv}
  BY <1>2 DEF resolve
<1>3. CASE Len(path) = 4 /\ path[4] \notin {Schema, ReadmeMd, AllTsv}
  BY <1>3 DEF resolve
<1> QED BY <1>1, <1>2, <1>3

\* A plan that names a partition does not name the pseudo-partition, and the top
\* directories name no object.
LEMMA PlanObject == ASSUME NEW path, NEW o \in Objects, resolve(path).obj = o PROVE
    /\ resolve(path).kind \notin {"Root", "DbNamespace"}
    /\ Len(o) = 3 => o[3] # All
<1>1. o # <<>>
  BY ObjectIsChild
<1>2. \A a, b, c : Len(<<a>>) = 1 /\ Len(<<a, b>>) = 2 /\ <<a, b, c>>[3] = c /\ <<a>>[1] = a
  OBVIOUS
<1>3. CASE \E p \in ValidPart \ {All} : path[4] = tsv(p)
  <2>1. path[4][1] # All
    BY <1>2, <1>3 DEF tsv
  <2> QED BY <1>1, <1>2, <2>1, Plans DEF NotFound
<1>4. CASE ~\E p \in ValidPart \ {All} : path[4] = tsv(p)
  BY <1>1, <1>2, <1>4, Plans DEF NotFound
<1> QED BY <1>3, <1>4

\* A lookup of an object asks the listing of its parent, which tells of it.
LEMMA LookupAsksParent == ASSUME cur.op = "lookup", plan.obj \in Objects PROVE
    /\ NeedsQuery("lookup", plan)
    /\ key \in Keys /\ plan.obj[Len(plan.obj)] \in Told(key)
    /\ Append(key, plan.obj[Len(plan.obj)]) = plan.obj
<1>1. key = Parent(plan.obj)
  BY DEF key, Key
<1>2. NeedsQuery("lookup", plan) /\ (Len(plan.obj) = 3 => plan.obj[3] # All)
  BY PlanObject DEF plan, NeedsQuery
<1>3. /\ key \in Keys /\ Len(key) = Len(plan.obj) - 1 /\ Len(plan.obj) \in 1..3
      /\ plan.obj[Len(plan.obj)] \in Names
      /\ Append(key, plan.obj[Len(plan.obj)]) = plan.obj
  BY <1>1, ObjectIsChild
<1>4. ~(Len(key) = 2 /\ plan.obj[Len(plan.obj)] = All)
  BY <1>2, <1>3
<1> QED BY <1>2, <1>3, <1>4 DEF Told

-----------------------------------------------------------------------------
(* The steps.                                                               *)

\* A mount starts with empty caches.
LEMMA NInit == Init => NInv
<1> SUFFICES ASSUME Init PROVE NInv
  OBVIOUS
<1>1. CurType /\ LsType
  BY DEF Init, CurType, LsType, NoRequest, NoLs
<1>2. cache \in [Keys -> Listings] /\ \A k \in Keys : cache[k] = NoEntry
  BY DEF Init, NoEntry, Listings
<1>3. \A k \in Keys : ~get(k) /\ All \notin cache[k].names
  BY <1>2, Bounds DEF get, NoEntry, None
<1>4. /\ sinceIn \in [Objects -> 0..Horizon] /\ sinceOut \in [Objects -> 0..Horizon]
      /\ wait \in 0..QueryMax /\ lag \in 0..Horizon /\ lag <= CacheTtl + QueryMax
  BY Bounds DEF Init
<1>5. Types
  BY <1>1, <1>2, <1>3, <1>4 DEF Init, Types, NoAnswer
<1>6. Ages
  BY DEF Init, Ages
<1> QED BY <1>3, <1>4, <1>5, <1>6 DEF Init, NInv, AnswerFresh, CacheFresh, AnswersAreFresh

\* A handler's reply: what it says was true CacheTtl + QueryMax ticks ago at most.
LEMMA DoneIsFresh ==
  ASSUME NInv, NEW r, Done(r), r \in {"entry", "page", "enoent", "notdir", "error"},
         plan.obj \in Objects =>
           /\ r = "entry"  => sinceIn[plan.obj] <= CacheTtl + QueryMax
           /\ r = "enoent" => sinceOut[plan.obj] <= CacheTtl + QueryMax
  PROVE  /\ pc' = "idle" /\ CurType' /\ wait' \in 0..QueryMax
         /\ answer' \in [ok : BOOLEAN, names : SUBSET Names]
         /\ reply' \in {"none", "entry", "page", "enoent", "notdir", "error"}
         /\ lag' \in 0..Horizon /\ AnswersAreFresh'
<1>1. pc' = "idle" /\ cur' = NoRequest /\ wait' = 0 /\ answer' = NoAnswer /\ reply' = r
  BY DEF Done
<1>2. CurType' /\ wait' \in 0..QueryMax /\ answer' \in [ok : BOOLEAN, names : SUBSET Names]
  BY <1>1, Bounds DEF CurType, NoRequest, NoAnswer
<1>3. \/ lag' = 0
      \/ r = "entry" /\ plan.obj \in Objects /\ lag' = sinceIn[plan.obj]
      \/ r = "enoent" /\ plan.obj \in Objects /\ lag' = sinceOut[plan.obj]
  BY DEF Done
<1>4. lag' \in 0..Horizon /\ lag' <= CacheTtl + QueryMax
  BY <1>3, Bounds DEF NInv, Types
<1> QED BY <1>1, <1>2, <1>4 DEF AnswersAreFresh

\* The types of a listing process survive every way a handler updates it.
LEMMA ErrorLs == ASSUME LsType, NEW r, Error(r) PROVE LsType'
BY DEF Error, LsType

\* So do they when a page of a listing is added, or the listing ends.
LEMMA ReaddirLs == ASSUME LsType, NEW names, NEW failed, ServeReaddir(names, failed) PROVE LsType'
<1> DEFINE entries == Entries(plan, names)
           page    == Page(entries, cur.off, BufCap)
<1>1. ls' = [ls EXCEPT !.listed = @ \o page, !.off = @ + Len(page), !.quiet = @ /\ ~failed,
                       !.state = IF page = <<>> THEN "done" ELSE "run"]
  BY DEF ServeReaddir
<1> HIDE DEF page
<1> QED BY <1>1 DEF LsType

\* The rest of a handler that knows the names of a listing young enough.
LEMMA ServeIsFresh ==
  ASSUME NInv, NEW names, Serve(names),
         cur.op = "lookup" /\ plan.obj \in Objects => TrueWithin(key, names, CacheTtl + QueryMax)
  PROVE  /\ pc' = "idle" /\ CurType' /\ LsType' /\ wait' \in 0..QueryMax
         /\ answer' \in [ok : BOOLEAN, names : SUBSET Names]
         /\ reply' \in {"none", "entry", "page", "enoent", "notdir", "error"}
         /\ lag' \in 0..Horizon /\ AnswersAreFresh'
<1>1. CASE ServeReaddir(names, FALSE)
  <2>1. Done("page")
    BY <1>1 DEF ServeReaddir
  <2>2. LsType'
    BY <1>1, ReaddirLs DEF NInv, Types
  <2> QED BY <2>1, <2>2, DoneIsFresh
<1>2. CASE ServeLookup(names)
  <2> DEFINE o == plan.obj
             n == o[Len(o)]
  <2>1. cur.op = "lookup"
    BY <1>2 DEF ServeLookup
  <2>2. LsType'
    BY <1>2, ErrorLs DEF ServeLookup, NInv, Types, LsType
  <2>3. ASSUME o \in Objects
        PROVE  IF n \in names THEN sinceIn[o] <= CacheTtl + QueryMax
                              ELSE sinceOut[o] <= CacheTtl + QueryMax
    <3>1. n \in Told(key) /\ Append(key, n) = o
      BY <2>1, <2>3, LookupAsksParent
    <3> QED BY <2>1, <2>3, <3>1 DEF TrueWithin
  <2>4. CASE NeedsQuery("lookup", plan) /\ n \notin names
    <3>1. Done("enoent")
      BY <1>2, <2>4 DEF ServeLookup, Error
    <3> QED BY <2>2, <2>3, <2>4, <3>1, DoneIsFresh
  <2>5. CASE ~(NeedsQuery("lookup", plan) /\ n \notin names)
    <3>1. Done("entry")
      BY <1>2, <2>5 DEF ServeLookup
    <3>2. o \in Objects => n \in names
      BY <2>1, <2>5, LookupAsksParent
    <3> QED BY <2>2, <2>3, <3>1, <3>2, DoneIsFresh
  <2> QED BY <2>4, <2>5
<1> QED BY <1>1, <1>2 DEF Serve

\* A request arrives, a process starts to list a directory.
LEMMA RequestStep ==
  ASSUME NInv, \/ \E dir, n : Lookup(dir, n)
               \/ \E dir : LsStart(dir)
               \/ LsNext
  PROVE  NInv'
<1>1. CASE \E dir : LsStart(dir)
  <2>1. PICK dir : LsStart(dir)
    BY <1>1
  <2>2. UNCHANGED <<server, cache, pc, cur, wait, answer, reply, lag>> /\ pc = "idle"
    BY <2>1 DEF LsStart
  <2>3. LsType'
    <3> DEFINE quiet  == \A o \in Children(dir) : Horizon \in {sinceIn[o], sinceOut[o]}
               steady == {o \in Children(dir) : sinceOut[o] = Horizon}
    <3>1. ls' = [state |-> "run", dir |-> dir, off |-> 0, listed |-> <<>>,
                 quiet |-> quiet, steady |-> steady]
      BY <2>1 DEF LsStart
    <3> HIDE DEF quiet, steady
    <3> QED BY <3>1 DEF LsType
  <2> QED BY <2>2, <2>3
          DEF NInv, Types, CurType, Ages, AnswerFresh, CacheFresh, TrueWithin, Told, get, AnswersAreFresh
<1>2. CASE (\E dir, n : Lookup(dir, n)) \/ LsNext
  <2>1. PICK op, path, off :
          op \in {"lookup", "readdir"} /\ Request(op, path, off) /\ UNCHANGED ls
    BY <1>2 DEF Lookup, LsNext
  <2>2. /\ UNCHANGED <<server, cache, wait, answer, ls>> /\ pc' = "handle"
        /\ cur' = [op |-> op, path |-> path, off |-> off] /\ reply' = "none" /\ lag' = 0
    BY <2>1 DEF Request
  <2>3. CurType' /\ lag' \in 0..Horizon /\ lag' <= CacheTtl + QueryMax
    BY <2>1, <2>2, Bounds DEF CurType
  <2> QED BY <2>2, <2>3
          DEF NInv, Types, LsType, Ages, AnswerFresh, CacheFresh, TrueWithin, Told, get, AnswersAreFresh
<1> QED BY <1>1, <1>2

\* A listing stays as true when its children's ages do not grow faster than its own.
LEMMA AgesWith ==
  ASSUME NEW k, NEW names, NEW age \in Nat, NEW d \in {0, 1}, TrueWithin(k, names, age),
         sinceIn \in [Objects -> 0..Horizon], sinceOut \in [Objects -> 0..Horizon],
         sinceIn' \in [Objects -> 0..Horizon], sinceOut' \in [Objects -> 0..Horizon],
         \A o \in Objects : sinceIn'[o] <= sinceIn[o] + d /\ sinceOut'[o] <= sinceOut[o] + d
  PROVE  TrueWithin(k, names, age + d)'
<1>1. ASSUME NEW n \in Told(k)
      PROVE  IF n \in names THEN sinceIn'[Append(k, n)] <= age + d
                            ELSE sinceOut'[Append(k, n)] <= age + d
  <2> DEFINE o == Append(k, n)
  <2>1. o \in Objects
    BY DEF Told
  <2>2. sinceIn[o] \in Nat /\ sinceOut[o] \in Nat /\ sinceIn'[o] \in Nat /\ sinceOut'[o] \in Nat
    BY <2>1, Bounds
  <2>3. IF n \in names THEN sinceIn[o] <= age ELSE sinceOut[o] <= age
    BY DEF TrueWithin
  <2> HIDE DEF o
  <2>4. sinceIn'[o] <= sinceIn[o] + d /\ sinceOut'[o] <= sinceOut[o] + d
    BY <2>1
  <2>5. IF n \in names THEN sinceIn'[o] <= age + d ELSE sinceOut'[o] <= age + d
    BY <2>2, <2>3, <2>4
  <2> QED BY <2>5 DEF o
<1> QED BY <1>1 DEF TrueWithin, Told

\* Another client changes the catalog: no age grows.
LEMMA ChangeStep == ASSUME NInv, Change PROVE NInv'
<1>1. PICK c \in Catalogs :
        /\ catalog' = c
        /\ sinceIn'  = [o \in Objects |-> IF o \in c THEN 0 ELSE sinceIn[o]]
        /\ sinceOut' = [o \in Objects |-> IF o \in c THEN sinceOut[o] ELSE 0]
        /\ ls' = [ls EXCEPT !.steady = @ \cap c,
                  !.quiet = @ /\ Children(ls.dir) \cap c = Children(ls.dir) \cap catalog]
  BY DEF Change
<1>2. UNCHANGED <<cache, inodes, pc, cur, wait, answer, reply, lag>>
  BY DEF Change
<1>3. LsType'
  <2> DEFINE same == Children(ls.dir) \cap c = Children(ls.dir) \cap catalog
  <2>1. ls' = [ls EXCEPT !.steady = @ \cap c, !.quiet = @ /\ same]
    BY <1>1
  <2> HIDE DEF same
  <2> QED BY <2>1 DEF NInv, Types, LsType
<1>4. /\ sinceIn \in [Objects -> 0..Horizon] /\ sinceOut \in [Objects -> 0..Horizon]
      /\ sinceIn' \in [Objects -> 0..Horizon] /\ sinceOut' \in [Objects -> 0..Horizon]
  BY <1>1, Bounds DEF NInv, Types
<1>5. \A o \in Objects : sinceIn'[o] <= sinceIn[o] + 0 /\ sinceOut'[o] <= sinceOut[o] + 0
  BY <1>1, <1>4, Bounds
<1>6. Types'
  BY <1>1, <1>2, <1>3, <1>4 DEF NInv, Types, CurType
<1>7. Ages'
  BY <1>1 DEF Ages
<1>8. AnswerFresh'
  <2>1. ASSUME pc = "answered", answer.ok PROVE TrueWithin(key, answer.names, wait)'
    <3>1. wait \in Nat /\ wait + 0 = wait /\ TrueWithin(key, answer.names, wait)
      BY <2>1, Bounds DEF NInv, Types, AnswerFresh
    <3>2. key' = key
      BY <1>2 DEF key, plan
    <3> QED BY <1>2, <1>4, <1>5, <3>1, <3>2, AgesWith DEF TrueWithin, Told
  <2> QED BY <1>2, <2>1 DEF AnswerFresh
<1>9. CacheFresh'
  <2>1. ASSUME NEW k \in Keys, get(k)' PROVE TrueWithin(k, cache[k].names, cache[k].age + QueryMax)'
    <3>1. get(k) /\ cache[k].age \in Nat
      BY <1>2, <2>1, Bounds DEF get
    <3>2. cache[k].age + QueryMax \in Nat /\ cache[k].age + QueryMax + 0 = cache[k].age + QueryMax
      BY <3>1, Bounds
    <3>3. TrueWithin(k, cache[k].names, cache[k].age + QueryMax)
      BY <3>1 DEF NInv, CacheFresh
    <3> QED BY <1>2, <1>4, <1>5, <3>2, <3>3, AgesWith DEF TrueWithin, Told
  <2> QED BY <1>2, <2>1 DEF CacheFresh
<1> QED BY <1>2, <1>6, <1>7, <1>8, <1>9 DEF NInv, AnswersAreFresh

\* The clock: a query ages with its wait, an entry of a cache until it expires.
LEMMA TickStep == ASSUME NInv, Tick PROVE NInv'
<1>1. /\ sinceIn'  = [o \in Objects |-> IF o \in catalog THEN 0 ELSE Older(sinceIn[o], Horizon)]
      /\ sinceOut' = [o \in Objects |-> IF o \in catalog THEN Older(sinceOut[o], Horizon) ELSE 0]
      /\ cache' = [k \in Keys |-> [cache[k] EXCEPT !.age = Older(@, CacheTtl + 1)]]
      /\ pc \in {"query", "answered"} => wait < QueryMax
      /\ wait' = IF pc \in {"query", "answered"} THEN wait + 1 ELSE wait
      /\ UNCHANGED <<catalog, inodes, pc, cur, answer, reply, lag, ls>>
  BY DEF Tick
<1>2. \A cap \in Nat : \A age \in 0..cap : Older(age, cap) \in 0..cap /\ Older(age, cap) <= age + 1
  BY DEF Older, None
<1>3. /\ sinceIn \in [Objects -> 0..Horizon] /\ sinceOut \in [Objects -> 0..Horizon]
      /\ Horizon \in Nat
  BY Bounds DEF NInv, Types
<1>4. /\ sinceIn' \in [Objects -> 0..Horizon] /\ sinceOut' \in [Objects -> 0..Horizon]
      /\ \A o \in Objects : sinceIn'[o] <= sinceIn[o] + 1 /\ sinceOut'[o] <= sinceOut[o] + 1
  BY <1>1, <1>2, <1>3
<1>5. wait' \in 0..QueryMax /\ wait \in 0..QueryMax
  BY <1>1, Bounds DEF NInv, Types
<1>6. ASSUME NEW k \in Keys
      PROVE  /\ cache'[k] \in Listings /\ cache'[k].names = cache[k].names
             /\ cache'[k].age \in 0..CacheTtl =>
                  cache[k].age \in 0..CacheTtl /\ cache'[k].age = cache[k].age + 1
  <2>1. cache[k] \in Listings /\ cache'[k] = [cache[k] EXCEPT !.age = Older(@, CacheTtl + 1)]
    BY <1>1 DEF NInv, Types
  <2>2. /\ cache'[k].names = cache[k].names /\ cache'[k].age = Older(cache[k].age, CacheTtl + 1)
        /\ cache'[k] = [names |-> cache'[k].names, age |-> cache'[k].age]
    BY <2>1 DEF Listings
  <2>3. cache[k].age \in 0..(CacheTtl + 1) \cup {None} /\ cache[k].names \in SUBSET Names
    BY <2>1 DEF Listings
  <2>4. cache'[k].age \in 0..(CacheTtl + 1) \cup {None}
    BY <2>2, <2>3, Bounds DEF Older, None
  <2>5. cache'[k].age \in 0..CacheTtl =>
          cache[k].age \in 0..CacheTtl /\ cache'[k].age = cache[k].age + 1
    BY <2>2, <2>3, Bounds DEF Older, None
  <2> QED BY <2>2, <2>3, <2>4, <2>5 DEF Listings
<1>7. Types'
  <2>1. cache' \in [Keys -> Listings] /\ \A k \in Keys : Len(k) = 2 => All \notin cache'[k].names
    BY <1>1, <1>6 DEF NInv, Types
  <2> QED BY <1>1, <1>4, <1>5, <2>1 DEF NInv, Types, CurType, LsType
<1>8. Ages'
  BY <1>1 DEF Ages
<1>9. AnswerFresh'
  <2>1. ASSUME pc = "answered", answer.ok PROVE TrueWithin(key, answer.names, wait)'
    <3>1. wait \in Nat /\ wait' = wait + 1 /\ TrueWithin(key, answer.names, wait)
      BY <1>1, <1>5, <2>1, Bounds DEF NInv, AnswerFresh
    <3>2. key' = key /\ answer' = answer
      BY <1>1 DEF key, plan
    <3> QED BY <1>3, <1>4, <3>1, <3>2, AgesWith DEF TrueWithin, Told
  <2> QED BY <1>1, <2>1 DEF AnswerFresh
<1>10. CacheFresh'
  <2>1. ASSUME NEW k \in Keys, get(k)' PROVE TrueWithin(k, cache[k].names, cache[k].age + QueryMax)'
    <3>1. get(k) /\ cache[k].age \in Nat /\ cache'[k].age = cache[k].age + 1
          /\ cache'[k].names = cache[k].names
      BY <1>6, <2>1, Bounds DEF get
    <3>2. /\ cache[k].age + QueryMax \in Nat
          /\ (cache[k].age + QueryMax) + 1 = cache'[k].age + QueryMax
      BY <3>1, Bounds
    <3>3. TrueWithin(k, cache[k].names, cache[k].age + QueryMax)
      BY <3>1 DEF NInv, CacheFresh
    <3> QED BY <1>3, <1>4, <3>1, <3>2, <3>3, AgesWith DEF TrueWithin, Told
  <2> QED BY <2>1 DEF CacheFresh
<1> QED BY <1>1, <1>7, <1>8, <1>9, <1>10 DEF NInv, AnswersAreFresh

\* A cached listing young enough to be served.
LEMMA HitIsFresh == ASSUME NInv, get(key), key \in Keys PROVE
    TrueWithin(key, cache[key].names, CacheTtl + QueryMax)
<1>1. TrueWithin(key, cache[key].names, cache[key].age + QueryMax) /\ cache[key].age \in 0..CacheTtl
  BY DEF get, NInv, CacheFresh
<1>2. \A o \in Objects : sinceIn[o] \in Nat /\ sinceOut[o] \in Nat
  BY Bounds DEF NInv, Types
<1>3. \A a \in Nat : a <= cache[key].age + QueryMax => a <= CacheTtl + QueryMax
  BY <1>1, Bounds
<1> QED BY <1>1, <1>2, <1>3 DEF TrueWithin, Told

\* The answer of a query, as it is cached and served.
LEMMA AnswerIsFresh == ASSUME NInv, pc = "answered", answer.ok PROVE
    /\ TrueWithin(key, Fetched(key, answer.names), QueryMax)
    /\ TrueWithin(key, Fetched(key, answer.names), CacheTtl + QueryMax)
<1> DEFINE names == Fetched(key, answer.names)
<1>1. TrueWithin(key, answer.names, wait)
  BY DEF NInv, AnswerFresh
<1>2. \A n \in Told(key) : n \in names <=> n \in answer.names
  BY DEF Fetched, Told
<1>3. /\ \A o \in Objects : sinceIn[o] \in Nat /\ sinceOut[o] \in Nat
      /\ \A a \in Nat : a <= wait => a <= QueryMax /\ a <= CacheTtl + QueryMax
  BY Bounds DEF NInv, Types
<1> HIDE DEF names
<1>4. TrueWithin(key, names, QueryMax) /\ TrueWithin(key, names, CacheTtl + QueryMax)
  BY <1>1, <1>2, <1>3 DEF TrueWithin, Told
<1> QED BY <1>4 DEF names

\* A handler that is done leaves the catalog alone, and the cache with listings that
\* are young enough.
LEMMA ServedStep ==
  ASSUME NInv, UNCHANGED server, Types', AnswersAreFresh', pc' = "idle",
         \/ UNCHANGED cache
         \/ \E names \in SUBSET Names :
              insert(key, names) /\ (key \in Keys => TrueWithin(key, names, QueryMax))
  PROVE  NInv'
<1>1. Ages' /\ AnswerFresh'
  BY DEF NInv, Ages, AnswerFresh
<1>2. CASE UNCHANGED cache
  BY <1>1, <1>2 DEF NInv, CacheFresh, TrueWithin, Told, get
<1>3. CASE \E names \in SUBSET Names :
             insert(key, names) /\ (key \in Keys => TrueWithin(key, names, QueryMax))
  <2>1. PICK names \in SUBSET Names :
          insert(key, names) /\ (key \in Keys => TrueWithin(key, names, QueryMax))
    BY <1>3
  <2> DEFINE entry == [names |-> names, age |-> 0]
  <2>2. cache' = [cache EXCEPT ![key] = entry] /\ cache \in [Keys -> Listings]
    BY <2>1 DEF insert, NInv, Types
  <2>3. ASSUME NEW k \in Keys, get(k)' PROVE TrueWithin(k, cache[k].names, cache[k].age + QueryMax)'
    <3>1. CASE k = key
      <4>1. cache'[k].names = names /\ cache'[k].age = 0
        BY <2>2, <3>1
      <4>2. TrueWithin(k, names, 0 + QueryMax)
        <5>1. 0 + QueryMax = QueryMax
          BY Bounds
        <5> QED BY <2>1, <3>1, <5>1
      <4> QED BY <4>1, <4>2 DEF TrueWithin, Told
    <3>2. CASE k # key
      <4>1. cache'[k] = cache[k]
        BY <2>2, <3>2
      <4>2. get(k)
        BY <2>3, <4>1 DEF get
      <4>3. TrueWithin(k, cache[k].names, cache[k].age + QueryMax)
        BY <4>2 DEF NInv, CacheFresh
      <4> QED BY <4>1, <4>3 DEF TrueWithin, Told
    <3> QED BY <3>1, <3>2
  <2> QED BY <1>1, <2>3 DEF NInv, CacheFresh
<1> QED BY <1>2, <1>3

\* A handler answers without a query: an error, a directory that needs none, a hit.
LEMMA HandleStep == ASSUME NInv, ResolveError \/ NotADir \/ NoQuery \/ Hit PROVE NInv'
<1>1. CASE ResolveError \/ NotADir
  <2>1. PICK r \in {"enoent", "notdir"} : Error(r) /\ (r = "enoent" => plan = NotFound)
    BY <1>1 DEF ResolveError, NotADir
  <2>2. Done(r) /\ UNCHANGED <<server, cache>>
    BY <1>1, <2>1 DEF Error, ResolveError, NotADir
  <2>3. plan = NotFound => plan.obj \notin Objects
    BY ObjectIsChild DEF NotFound
  <2>4. LsType'
    BY <2>1, ErrorLs DEF NInv, Types
  <2> QED BY <2>1, <2>2, <2>3, <2>4, DoneIsFresh, ServedStep DEF NInv, Types
<1>2. CASE NoQuery
  <2>1. Serve({}) /\ UNCHANGED <<server, cache>> /\ ~NeedsQuery(cur.op, plan)
    BY <1>2 DEF NoQuery
  <2>2. ~(cur.op = "lookup" /\ plan.obj \in Objects)
    BY <2>1, LookupAsksParent
  <2> QED BY <2>1, <2>2, ServeIsFresh, ServedStep DEF NInv, Types
<1>3. CASE Hit
  <2>1. get(key) /\ Serve(cache[key].names) /\ UNCHANGED <<server, cache>>
    BY <1>3 DEF Hit
  <2>2. CASE key \in Keys
    <3>1. cache[key].names \in SUBSET Names
      BY <2>2 DEF NInv, Types, Listings
    <3>2. TrueWithin(key, cache[key].names, CacheTtl + QueryMax)
      BY <2>1, <2>2, HitIsFresh
    <3> QED BY <2>1, <3>1, <3>2, ServeIsFresh, ServedStep DEF NInv, Types
  <2>3. CASE key \notin Keys
    <3>1. ~(cur.op = "lookup" /\ plan.obj \in Objects)
      BY <2>3, LookupAsksParent
    <3> QED BY <2>1, <3>1, ServeIsFresh, ServedStep DEF NInv, Types
  <2> QED BY <2>2, <2>3
<1> QED BY <1>1, <1>2, <1>3

\* A query starts, is evaluated by the server at one moment, and its answer arrives.
LEMMA QueryStep == ASSUME NInv, Miss \/ Evaluate \/ Deliver \/ DeliverError PROVE NInv'
<1>1. CASE Miss
  <2>1. /\ cache' = [cache EXCEPT ![key] = NoEntry] /\ pc' = "query" /\ wait' = 0
        /\ UNCHANGED <<server, inodes, cur, answer, reply, lag, ls>>
    BY <1>1 DEF Miss, remove
  <2>2. NoEntry \in Listings /\ NoEntry.names = {} /\ NoEntry.age = None
    BY DEF NoEntry, Listings
  <2>3. cache \in [Keys -> Listings] /\ cache' \in [Keys -> Listings]
        /\ \A k \in Keys : cache'[k] = cache[k] \/ cache'[k] = NoEntry
    BY <2>1, <2>2 DEF NInv, Types
  <2>4. Types'
    <3>1. \A k \in Keys : Len(k) = 2 => All \notin cache'[k].names
      BY <2>2, <2>3 DEF NInv, Types
    <3>2. wait' \in 0..QueryMax
      BY <2>1, Bounds
    <3> QED BY <2>1, <2>3, <3>1, <3>2 DEF NInv, Types, CurType, LsType
  <2>5. CacheFresh'
    <3>1. ASSUME NEW k \in Keys, get(k)' PROVE cache'[k] = cache[k] /\ get(k)
      BY <2>2, <2>3, <3>1, Bounds DEF get, None
    <3> QED BY <2>1, <3>1 DEF NInv, CacheFresh, TrueWithin, Told
  <2> QED BY <2>1, <2>4, <2>5 DEF NInv, Ages, AnswerFresh, AnswersAreFresh
<1>2. CASE Evaluate
  <2>1. /\ pc' = "answered" /\ UNCHANGED <<server, cache, inodes, cur, wait, reply, lag, ls>>
        /\ answer' = [ok |-> TRUE, names |-> Listing(key)] \/ answer' = NoAnswer
    BY <1>2 DEF Evaluate
  <2>2. answer' \in [ok : BOOLEAN, names : SUBSET Names]
    <3>1. \A ok \in BOOLEAN, names \in SUBSET Names :
            [ok |-> ok, names |-> names] \in [ok : BOOLEAN, names : SUBSET Names]
      OBVIOUS
    <3>2. Listing(key) \in SUBSET Names
      BY DEF Listing
    <3> QED BY <2>1, <3>1, <3>2, Zenon DEF NoAnswer
  <2>3. Types'
    <3>1. pc' = "answered" /\ UNCHANGED <<server, cache, inodes, cur, wait, reply, lag, ls>>
      BY <2>1
    <3> QED BY <2>2, <3>1 DEF NInv, Types, CurType, LsType
  <2>4. AnswerFresh'
    <3>1. ASSUME answer'.ok PROVE TrueWithin(key, answer'.names, wait)
      <4>1. answer'.names = Listing(key)
        BY <2>1, <3>1 DEF NoAnswer
      <4>2. ASSUME NEW n \in Told(key)
            PROVE  IF n \in Listing(key) THEN sinceIn[Append(key, n)] = 0
                                         ELSE sinceOut[Append(key, n)] = 0
        BY <4>2 DEF Told, Listing, NInv, Ages
      <4>3. 0 <= wait
        BY Bounds DEF NInv, Types
      <4> QED BY <4>1, <4>2, <4>3 DEF TrueWithin
    <3> QED BY <2>1, <3>1 DEF AnswerFresh, TrueWithin, Told, key, plan
  <2>5. CacheFresh'
    BY <2>1 DEF NInv, CacheFresh, TrueWithin, Told, get
  <2> QED BY <2>1, <2>3, <2>4, <2>5 DEF NInv, Ages, AnswersAreFresh
<1>3. CASE Deliver
  <2> DEFINE names == Fetched(key, answer.names)
  <2>1. /\ pc = "answered" /\ answer.ok /\ insert(key, names) /\ Serve(names) /\ UNCHANGED server
    BY <1>3 DEF Deliver
  <2>2. names \in SUBSET Names /\ (Len(key) = 2 => All \notin names)
    BY DEF Fetched, NInv, Types
  <2>3. TrueWithin(key, names, QueryMax) /\ TrueWithin(key, names, CacheTtl + QueryMax)
    BY <2>1, AnswerIsFresh
  <2> HIDE DEF names
  <2>5. Types'
    <3> DEFINE entry == [names |-> names, age |-> 0]
    <3>1. entry \in Listings /\ entry.names = names
      BY <2>2, Bounds DEF Listings
    <3>2. cache' = [cache EXCEPT ![key] = entry]
      BY <2>1 DEF insert
    <3> HIDE DEF entry
    <3>3. cache' \in [Keys -> Listings] /\ \A k \in Keys : Len(k) = 2 => All \notin cache'[k].names
      BY <2>2, <3>1, <3>2 DEF NInv, Types
    <3> QED BY <2>1, <2>3, <3>3, ServeIsFresh DEF NInv, Types
  <2>6. AnswersAreFresh' /\ pc' = "idle"
    BY <2>1, <2>3, ServeIsFresh
  <2> QED BY <2>1, <2>2, <2>3, <2>5, <2>6, ServedStep
<1>4. CASE DeliverError
  <2>1. UNCHANGED <<server, cache>> /\ (ServeReaddir({}, TRUE) \/ Error("error"))
    BY <1>4 DEF DeliverError
  <2>2. PICK r \in {"page", "error"} : Done(r)
    BY <2>1 DEF ServeReaddir, Error
  <2>3. LsType'
    BY <2>1, ReaddirLs, ErrorLs DEF NInv, Types
  <2> QED BY <2>1, <2>2, <2>3, DoneIsFresh, ServedStep DEF NInv, Types
<1> QED BY <1>1, <1>2, <1>3, <1>4

\* Every step of the server, its other clients and the handlers keeps the invariant.
LEMMA NStep == NInv /\ [Next]_vars => NInv'
<1> SUFFICES ASSUME NInv, [Next]_vars PROVE NInv'
  OBVIOUS
<1>1. CASE UNCHANGED vars
  BY <1>1 DEF vars, NInv, Types, CurType, LsType, Ages, AnswerFresh, CacheFresh, TrueWithin, Told,
              get, key, plan, AnswersAreFresh
<1> QED BY <1>1, RequestStep, ChangeStep, TickStep, HandleStep, QueryStep DEF Next

-----------------------------------------------------------------------------
\* Whatever expires, fails or changes on the server: caches hold names of the right
\* kind, never the pseudo-partition, and ages and waits stay within their bounds.
THEOREM TypeCorrect == Spec => []TypeOK
<1>1. NInv => TypeOK
  <2> SUFFICES ASSUME NInv PROVE TypeOK
    OBVIOUS
  <2>1. \A k \in Keys : /\ cache[k].names \subseteq Names \ (IF Len(k) = 2 THEN {All} ELSE {})
                        /\ cache[k].age \in 0..(CacheTtl + 1) \cup {None}
    BY DEF NInv, Types, Listings
  <2> QED BY <2>1 DEF NInv, Types, CurType, LsType, TypeOK
<1> QED BY <1>1, NInit, NStep, PTL DEF Spec

\* The answer to a lookup was true of the catalog CacheTtl + QueryMax ticks ago or
\* later, for any tree, any names, any order of expiry, refill and failure.
THEOREM LookupsAreFresh == Spec => []AnswersAreFresh
<1>1. NInv => AnswersAreFresh
  BY DEF NInv
<1> QED BY <1>1, NInit, NStep, PTL DEF Spec

-----------------------------------------------------------------------------
(* The order of a listing.                                                  *)

\* The names that ORDER BY puts before n.
Precedes(m, n) == \E i, j \in 1..Len(Collation) : i < j /\ Collation[i] = m /\ Collation[j] = n
Before(names, n) == {m \in names : Precedes(m, n)}

\* The server knows finitely many names.
LEMMA FiniteNames == IsFiniteSet(Names)
<1> DEFINE f == [i \in 1..Len(Collation) |-> Collation[i]]
<1>1. Len(Collation) \in Nat
  BY NamespaceAssumption
<1>2. f \in Surjection(1..Len(Collation), Names)
  BY DEF Names, Surjection
<1>3. IsFiniteSet(1..Len(Collation))
  BY <1>1, FS_Interval
<1> HIDE DEF f
<1> QED BY <1>2, <1>3, FS_Surjection

\* Names are in a total order.
LEMMA NamesOrdered ==
  /\ \A n \in Names : ~Precedes(n, n)
  /\ \A m, n \in Names : m # n => Precedes(m, n) \/ Precedes(n, m)
  /\ \A l, m, n \in Names : Precedes(l, m) /\ Precedes(m, n) => Precedes(l, n)
<1>1. Len(Collation) \in Nat /\ \A i, j \in 1..Len(Collation) : Collation[i] = Collation[j] => i = j
  BY NamespaceAssumption
<1>2. \A n \in Names : \E i \in 1..Len(Collation) : Collation[i] = n
  BY DEF Names
<1>3. ASSUME NEW n \in Names PROVE ~Precedes(n, n)
  BY <1>1 DEF Precedes
<1>4. ASSUME NEW m \in Names, NEW n \in Names, m # n PROVE Precedes(m, n) \/ Precedes(n, m)
  <2>1. PICK i \in 1..Len(Collation) : Collation[i] = m
    BY <1>2
  <2>2. PICK j \in 1..Len(Collation) : Collation[j] = n
    BY <1>2
  <2>3. i < j \/ j < i
    BY <1>1, <1>4, <2>1, <2>2
  <2> QED BY <2>1, <2>2, <2>3 DEF Precedes
<1>5. ASSUME NEW l \in Names, NEW m \in Names, NEW n \in Names, Precedes(l, m), Precedes(m, n)
      PROVE  Precedes(l, n)
  <2>1. PICK i \in 1..Len(Collation), j \in 1..Len(Collation) :
          i < j /\ Collation[i] = l /\ Collation[j] = m
    BY <1>5 DEF Precedes
  <2>2. PICK p \in 1..Len(Collation), q \in 1..Len(Collation) :
          p < q /\ Collation[p] = m /\ Collation[q] = n
    BY <1>5 DEF Precedes
  <2>3. j = p /\ i < q
    BY <1>1, <2>1, <2>2
  <2> QED BY <2>1, <2>2, <2>3 DEF Precedes
<1> QED BY <1>3, <1>4, <1>5

\* ORDER BY lists a set of names: all of it, each name at one place.
LEMMA SortedLists == ASSUME NEW names \in SUBSET Names PROVE
    /\ Cardinality(names) \in Nat
    /\ Sorted(names) \in [1..Cardinality(names) -> names]
    /\ \A n \in names : \E i \in 1..Cardinality(names) : Sorted(names)[i] = n
    /\ \A i, j \in 1..Cardinality(names) : Sorted(names)[i] = Sorted(names)[j] => i = j
<1> DEFINE N      == Cardinality(names)
           Rank(n) == Cardinality(Before(names, n))
           rank   == [n \in names |-> Rank(n)]
<1>1. IsFiniteSet(names) /\ N \in Nat
  BY FiniteNames, FS_Subset, FS_CardinalityType
<1>2. ASSUME NEW n \in names PROVE IsFiniteSet(Before(names, n)) /\ Rank(n) \in 0..(N - 1)
  <2>1. Before(names, n) \in SUBSET names /\ n \notin Before(names, n)
    BY NamesOrdered DEF Before
  <2>2. IsFiniteSet(Before(names, n)) /\ Rank(n) <= N /\ Rank(n) # N
    BY <1>1, <2>1, FS_Subset
  <2>3. Rank(n) \in Nat
    BY <2>2, FS_CardinalityType
  <2> HIDE DEF N, Rank
  <2> QED BY <1>1, <2>2, <2>3
<1>3. ASSUME NEW m \in names, NEW n \in names, Precedes(m, n) PROVE Rank(m) # Rank(n)
  <2>1. Before(names, m) \in SUBSET Before(names, n)
    BY <1>3, NamesOrdered DEF Before
  <2>2. m \in Before(names, n) /\ m \notin Before(names, m)
    BY <1>3, NamesOrdered DEF Before
  <2> QED BY <1>2, <2>1, <2>2, FS_Subset
<1>4. \A m, n \in names : Rank(m) = Rank(n) => m = n
  BY <1>3, NamesOrdered
<1>5. rank \in Injection(names, 0..(N - 1))
  <2>1. \A n \in names : rank[n] = Rank(n)
    OBVIOUS
  <2> HIDE DEF Rank
  <2>2. rank \in [names -> 0..(N - 1)]
    BY <1>2
  <2> QED BY <1>4, <2>1, <2>2 DEF Injection, IsInjective
<1>6. IsFiniteSet(0..(N - 1)) /\ Cardinality(0..(N - 1)) = N
  <2> HIDE DEF N
  <2>1. N - 1 \in Int /\ (0 > N - 1 => N = 0) /\ (N - 1) - 0 + 1 = N
    BY <1>1
  <2> QED BY <2>1, FS_Interval
<1>7. \A i \in 0..(N - 1) : \E n \in names : Rank(n) = i
  <2>1. rank \in Surjection(names, 0..(N - 1))
    BY <1>5, <1>6, FS_Injection
  <2>2. \A i \in 0..(N - 1) : \E n \in names : rank[n] = i
    BY <2>1 DEF Surjection
  <2> QED BY <2>2
<1>8. \A i \in 1..N : Sorted(names)[i] \in names /\ Rank(Sorted(names)[i]) = i - 1
  <2> SUFFICES ASSUME NEW i \in 1..N
               PROVE  Sorted(names)[i] \in names /\ Rank(Sorted(names)[i]) = i - 1
    OBVIOUS
  <2>1. Sorted(names)[i] = CHOOSE n \in names : Rank(n) = i - 1
    BY DEF Sorted, Before, Precedes
  <2>2. i - 1 \in 0..(N - 1)
    <3> HIDE DEF N
    <3> QED BY <1>1
  <2> HIDE DEF Rank
  <2> QED BY <1>7, <2>1, <2>2
<1>9. Sorted(names) \in [1..N -> names]
  <2> DEFINE nth(i) == CHOOSE n \in names : Rank(n) = i - 1
  <2>1. Sorted(names) = [i \in 1..N |-> nth(i)]
    BY DEF Sorted, Before, Precedes
  <2> HIDE DEF N, nth
  <2> QED BY <1>8, <2>1
<1>10. ASSUME NEW n \in names PROVE \E i \in 1..N : Sorted(names)[i] = n
  <2>1. Rank(n) + 1 \in 1..N /\ (Rank(n) + 1) - 1 = Rank(n)
    <3>1. Rank(n) \in 0..(N - 1)
      BY <1>2
    <3> HIDE DEF N, Rank
    <3> QED BY <1>1, <3>1
  <2>2. Rank(Sorted(names)[Rank(n) + 1]) = Rank(n) /\ Sorted(names)[Rank(n) + 1] \in names
    BY <1>8, <2>1
  <2> QED BY <1>4, <2>1, <2>2
<1>11. \A i, j \in 1..N : Sorted(names)[i] = Sorted(names)[j] => i = j
  <2> HIDE DEF N, Rank
  <2>1. \A i, j \in 1..N : i - 1 = j - 1 => i = j
    BY <1>1
  <2> QED BY <1>8, <2>1
<1> QED BY <1>1, <1>9, <1>10, <1>11

\* A sequence that holds every element of a set, each at one place.
Enumerates(s, S) ==
  /\ s \in Seq(S)
  /\ \A x \in S : \E i \in 1..Len(s) : s[i] = x
  /\ \A i, j \in 1..Len(s) : s[i] = s[j] => i = j

\* Two lists with nothing in common, one behind the other.
LEMMA EnumeratesBoth ==
  ASSUME NEW s, NEW S, NEW t, NEW T, Enumerates(s, S), Enumerates(t, T), S \cap T = {}
  PROVE  Enumerates(s \o t, S \cup T)
<1> DEFINE u == s \o t
<1>1. s \in Seq(S \cup T) /\ t \in Seq(S \cup T)
  BY SeqMonotonic DEF Enumerates
<1>2. /\ u \in Seq(S \cup T) /\ Len(u) = Len(s) + Len(t) /\ Len(s) \in Nat /\ Len(t) \in Nat
      /\ \A i \in 1..Len(u) : u[i] = IF i <= Len(s) THEN s[i] ELSE t[i - Len(s)]
  BY <1>1, ConcatProperties, LenProperties
<1> HIDE DEF u
<1>3. ASSUME NEW x \in S \cup T PROVE \E i \in 1..Len(u) : u[i] = x
  <2>1. CASE x \in S
    <3>1. PICK i \in 1..Len(s) : s[i] = x
      BY <2>1 DEF Enumerates
    <3> QED BY <1>2, <3>1
  <2>2. CASE x \in T
    <3>1. PICK i \in 1..Len(t) : t[i] = x
      BY <2>2 DEF Enumerates
    <3>2. i + Len(s) \in 1..Len(u) /\ ~(i + Len(s) <= Len(s)) /\ (i + Len(s)) - Len(s) = i
      BY <1>2
    <3> QED BY <1>2, <3>1, <3>2
  <2> QED BY <2>1, <2>2
<1>4. ASSUME NEW i \in 1..Len(u), NEW j \in 1..Len(u), u[i] = u[j] PROVE i = j
  <2>1. \A k \in 1..Len(u) : /\ k <= Len(s) => k \in 1..Len(s) /\ u[k] = s[k] /\ u[k] \in S
                             /\ ~(k <= Len(s)) => /\ k - Len(s) \in 1..Len(t)
                                                  /\ u[k] = t[k - Len(s)] /\ u[k] \in T
    <3> SUFFICES ASSUME NEW k \in 1..Len(u)
                 PROVE  /\ k <= Len(s) => k \in 1..Len(s) /\ u[k] = s[k] /\ u[k] \in S
                        /\ ~(k <= Len(s)) => /\ k - Len(s) \in 1..Len(t)
                                             /\ u[k] = t[k - Len(s)] /\ u[k] \in T
      OBVIOUS
    <3>1. /\ k <= Len(s) => k \in 1..Len(s) /\ u[k] = s[k]
          /\ ~(k <= Len(s)) => k - Len(s) \in 1..Len(t) /\ u[k] = t[k - Len(s)]
      BY <1>2
    <3>2. (\A a \in 1..Len(s) : s[a] \in S) /\ (\A a \in 1..Len(t) : t[a] \in T)
      BY ElementOfSeq DEF Enumerates
    <3> QED BY <3>1, <3>2
  <2>2. CASE i <= Len(s) /\ j <= Len(s)
    BY <1>4, <2>1, <2>2 DEF Enumerates
  <2>3. CASE ~(i <= Len(s)) /\ ~(j <= Len(s))
    <3>1. i - Len(s) = j - Len(s)
      BY <1>4, <2>1, <2>3 DEF Enumerates
    <3> QED BY <1>2, <3>1
  <2> QED BY <1>4, <2>1, <2>2, <2>3
<1> QED BY <1>2, <1>3, <1>4 DEF Enumerates, u

\* What readdir lists of a directory.
Held(dirPlan, names) ==
  {Dot, DotDot} \cup
  CASE dirPlan.kind = "Root" -> {Db}
    [] dirPlan.kind = "ListPartitions" -> {Schema, ReadmeMd, AllTsv} \cup {tsv(p) : p \in names}
    [] OTHER -> names

\* readdir lists each of the entries once: the names of a directory are not ".", ".."
\* or, when they name a file, ".schema", "README.md" or "all.tsv".
LEMMA EntriesEnumerate ==
  ASSUME NEW dirPlan, NEW names \in SUBSET Names, dirPlan.kind = "ListPartitions" => All \notin names
  PROVE  Enumerates(Entries(dirPlan, names), Held(dirPlan, names))
<1> DEFINE N == Cardinality(names)
           listed == Sorted(names)
           rest == CASE dirPlan.kind = "Root" -> <<Db>>
                     [] dirPlan.kind = "ListPartitions" ->
                          <<Schema, ReadmeMd, AllTsv>> \o [i \in 1..Len(listed) |-> tsv(listed[i])]
                     [] OTHER -> listed
           own  == CASE dirPlan.kind = "Root" -> {Db}
                     [] dirPlan.kind = "ListPartitions" ->
                          {Schema, ReadmeMd, AllTsv} \cup {tsv(p) : p \in names}
                     [] OTHER -> names
<1>1. /\ N \in Nat /\ listed \in [1..N -> names]
      /\ \A n \in names : \E i \in 1..N : listed[i] = n
      /\ \A i, j \in 1..N : listed[i] = listed[j] => i = j
  BY SortedLists
<1> HIDE DEF listed, N
<1>2. listed \in Seq(names) /\ Len(listed) = N
  BY <1>1, SeqDef
<1>3. Enumerates(listed, names)
  BY <1>1, <1>2 DEF Enumerates
<1>4. Enumerates([i \in 1..Len(listed) |-> tsv(listed[i])], {tsv(p) : p \in names})
  <2> DEFINE files == {tsv(p) : p \in names}
             s     == [i \in 1..N |-> tsv(listed[i])]
  <2>1. s \in [1..N -> files]
    BY <1>1
  <2>2. s \in Seq(files) /\ Len(s) = N
    <3> HIDE DEF s, files
    <3> QED BY <1>1, <2>1, SeqDef
  <2>3. \A i \in 1..N : s[i] = tsv(listed[i])
    OBVIOUS
  <2>4. \A p, q \in names : tsv(p) = tsv(q) => p = q
    BY DEF tsv
  <2>5. \A x \in files : \E i \in 1..N : s[i] = x
    <3> HIDE DEF s
    <3> QED BY <1>1, <2>3
  <2>6. \A i, j \in 1..N : s[i] = s[j] => i = j
    <3> HIDE DEF s
    <3> QED BY <1>1, <2>3, <2>4
  <2> HIDE DEF s, files
  <2>7. Enumerates(s, files)
    BY <2>2, <2>5, <2>6 DEF Enumerates
  <2> QED BY <1>2, <2>7 DEF s, files
<1>5. Enumerates(<<Dot, DotDot>>, {Dot, DotDot})
  BY NameAssumption DEF Enumerates
<1>6. AllTsv \notin {Schema, ReadmeMd, Dot, DotDot} /\ Schema # ReadmeMd
  BY NameAssumption DEF AllTsv
<1>7. Enumerates(<<Schema, ReadmeMd, AllTsv>>, {Schema, ReadmeMd, AllTsv})
  <2>1. <<Schema, ReadmeMd, AllTsv>> \in Seq({Schema, ReadmeMd, AllTsv})
    OBVIOUS
  <2> QED BY <1>6, <2>1 DEF Enumerates
<1>8. Enumerates(rest, own) /\ own \cap {Dot, DotDot} = {}
  <2>1. CASE dirPlan.kind = "Root"
    <3>1. Enumerates(<<Db>>, {Db}) /\ Db \notin {Dot, DotDot}
      BY NameAssumption DEF Enumerates
    <3> QED BY <2>1, <3>1
  <2>2. CASE dirPlan.kind = "ListPartitions"
    <3> DEFINE files == {tsv(p) : p \in names}
    <3>1. /\ {Schema, ReadmeMd} \cap files = {} /\ AllTsv \notin files
          /\ files \cap {Dot, DotDot} = {} /\ {Schema, ReadmeMd} \cap {Dot, DotDot} = {}
      <4>1. \A p \in names : tsv(p) # AllTsv
        BY <2>2 DEF AllTsv, tsv
      <4>2. files \subseteq {tsv(p) : p \in Names \cup {All}}
        OBVIOUS
      <4> QED BY <4>1, <4>2, NameAssumption
    <3> HIDE DEF files
    <3>2. Enumerates(<<Schema, ReadmeMd, AllTsv>> \o [i \in 1..Len(listed) |-> tsv(listed[i])],
                     {Schema, ReadmeMd, AllTsv} \cup files)
      BY <1>4, <1>7, <3>1, EnumeratesBoth DEF files
    <3>3. ({Schema, ReadmeMd, AllTsv} \cup files) \cap {Dot, DotDot} = {}
      BY <1>6, <3>1
    <3> QED BY <2>2, <3>2, <3>3 DEF files
  <2>3. CASE dirPlan.kind \notin {"Root", "ListPartitions"}
    <3>1. names \cap {Dot, DotDot} = {}
      BY NameAssumption
    <3> QED BY <1>3, <2>3, <3>1
  <2> QED BY <2>1, <2>2, <2>3
<1>9. Entries(dirPlan, names) = <<Dot, DotDot>> \o rest /\ Held(dirPlan, names) = {Dot, DotDot} \cup own
  BY DEF Entries, Held, listed
<1> HIDE DEF rest, own
<1>10. {Dot, DotDot} \cap own = {}
  BY <1>8
<1> QED BY <1>5, <1>8, <1>9, <1>10, EnumeratesBoth

-----------------------------------------------------------------------------
(* A listing that nothing disturbs: the names it is served are those the    *)
(* catalog has, so its pages are pieces of one and the same sequence.       *)

\* The listings that are served and cached tell of objects.
NamesKnown ==
  /\ \A k \in Keys : cache[k].names \subseteq Told(k)
  /\ pc = "answered" /\ answer.ok => \A n \in answer.names : Append(key, n) \in Objects

\* A directory with an inode is one whose listing can be asked for.
PathNames == LookupNames \cup Names \cup {Db, Schema, ReadmeMd} \cup {tsv(p) : p \in Names \cup {All}}
DirsKnown == /\ inodes \subseteq Seq(PathNames)
             /\ \A dir \in inodes : is_dir(resolve(dir)) => resolve(dir).obj \in Keys

\* The request at hand: a name in such a directory, or the next page of the listing.
Asked ==
  /\ pc # "idle" =>
       \/ /\ cur.op = "lookup"
          /\ \E dir \in inodes, n \in LookupNames : is_dir(resolve(dir)) /\ cur.path = Append(dir, n)
       \/ cur.op = "readdir" /\ ls.state = "run" /\ cur.path = ls.dir /\ cur.off = ls.off
  /\ pc \in {"query", "answered"} /\ cur.op = "readdir" => is_dir(plan)
  /\ ls.state # "none" => ls.dir \in inodes /\ ls.off \in Nat

\* Nothing below the directory has changed for longer than a listing lives.
Quiet ==
  ls.state # "none" /\ ls.quiet =>
    \A o \in Children(ls.dir) : IF o \in catalog THEN sinceOut[o] = Horizon ELSE sinceIn[o] = Horizon

\* What its listing is while that is so, and how far the process has come in it.
Now(k)     == {n \in Told(k) : Append(k, n) \in catalog}
Whole(dir) == Entries(resolve(dir), Now(resolve(dir).obj))

ListedSoFar ==
  ls.state # "none" /\ ls.quiet =>
    /\ is_dir(resolve(ls.dir)) =>
         ls.off <= Len(Whole(ls.dir)) /\ ls.listed = SubSeq(Whole(ls.dir), 1, ls.off)
    /\ ls.state = "done" => is_dir(resolve(ls.dir)) /\ ls.off = Len(Whole(ls.dir))

LInv == NInv /\ NamesKnown /\ DirsKnown /\ Asked /\ Quiet /\ ListedSoFar

-----------------------------------------------------------------------------
(* The paths of directories, and the names in them.                         *)

\* The paths of directories.
LEMMA DirPlans ==
  ASSUME NEW X, NEW path \in Seq(X), is_dir(resolve(path))
  PROVE  \/ Len(path) = 0 /\ resolve(path) = [kind |-> "Root", obj |-> <<>>]
         \/ Len(path) = 1 /\ resolve(path) = [kind |-> "DbNamespace", obj |-> <<>>]
         \/ Len(path) = 2 /\ resolve(path) = [kind |-> "ListTables", obj |-> <<path[2]>>]
         \/ Len(path) = 3 /\ resolve(path) = [kind |-> "ListPartitions", obj |-> <<path[2], path[3]>>]
<1>1. \A kind, obj : [kind |-> kind, obj |-> obj].kind = kind
  OBVIOUS
<1>2. resolve(path).kind \in {"Root", "DbNamespace", "ListTables", "ListPartitions"}
  BY DEF is_dir
<1>3. Len(path) \in Nat
  OBVIOUS
<1>4. CASE Len(path) = 0
  BY <1>4 DEF resolve
<1>5. CASE Len(path) = 1
  BY <1>2, <1>5 DEF resolve, NotFound
<1>6. CASE Len(path) = 2
  BY <1>2, <1>6 DEF resolve, NotFound
<1>7. CASE Len(path) = 3
  <2>1. resolve(path) = NotFound \/ resolve(path) = [kind |-> "ListPartitions", obj |-> <<path[2], path[3]>>]
    BY <1>7 DEF resolve
  <2> QED BY <1>2, <1>7, <2>1 DEF NotFound
<1>8. CASE Len(path) = 4
  BY <1>2, <1>8 DEF resolve, NotFound
<1>9. CASE Len(path) > 4
  <2>1. Len(path) # 0 /\ Len(path) # 1 /\ Len(path) # 2 /\ Len(path) # 3 /\ Len(path) # 4
    <3>1. \A l \in Nat : l > 4 => l # 0 /\ l # 1 /\ l # 2 /\ l # 3 /\ l # 4
      OBVIOUS
    <3> QED BY <1>3, <1>9, <3>1
  <2>2. resolve(path) = NotFound
    BY <2>1 DEF resolve
  <2> QED BY <1>2, <2>2 DEF NotFound
<1>10. Len(path) = 0 \/ Len(path) = 1 \/ Len(path) = 2 \/ Len(path) = 3 \/ Len(path) = 4 \/ Len(path) > 4
  <2>1. \A l \in Nat : l = 0 \/ l = 1 \/ l = 2 \/ l = 3 \/ l = 4 \/ l > 4
    OBVIOUS
  <2> QED BY <1>3, <2>1
<1> QED BY <1>4, <1>5, <1>6, <1>7, <1>8, <1>9, <1>10

\* The parent of a name in a directory is the directory.
LEMMA ParentOfChild == ASSUME NEW S, NEW k \in Seq(S), NEW n \in S PROVE Parent(Append(k, n)) = k
<1> DEFINE o == Append(k, n)
<1>1. Len(o) = Len(k) + 1 /\ Len(k) \in Nat /\ \A i \in 1..Len(k) : o[i] = k[i]
  BY AppendProperties
<1>2. Len(o) - 1 = Len(k) /\ \A i \in 1..Len(k) : o[i] \in S
  BY <1>1, ElementOfSeq
<1> HIDE DEF o
<1>3. SubSeq(o, 1, Len(k)) \in Seq(S) /\ Len(SubSeq(o, 1, Len(k))) = Len(k)
      /\ \A i \in 1..Len(k) : SubSeq(o, 1, Len(k))[i] = o[i]
  BY <1>1, <1>2, SubSeqProperties
<1>4. SubSeq(o, 1, Len(k)) = k
  BY <1>1, <1>3, SeqEqual
<1> QED BY <1>2, <1>4 DEF Parent, o

\* A directory in a directory: db in the root, or what a listing tells of.
LEMMA ChildDir ==
  ASSUME NEW dir \in Seq(PathNames), NEW n \in PathNames,
         is_dir(resolve(dir)), is_dir(resolve(Append(dir, n)))
  PROVE  \/ resolve(Append(dir, n)).obj = <<>>
         \/ /\ resolve(dir).kind \in {"DbNamespace", "ListTables"}
            /\ resolve(dir).obj \in {<<>>, <<dir[2]>>}
            /\ resolve(Append(dir, n)).obj = Append(resolve(dir).obj, n)
            /\ Len(resolve(Append(dir, n)).obj) < 3
            /\ resolve(Append(dir, n)).kind \notin {"Root", "DbNamespace"}
            /\ Parent(resolve(Append(dir, n)).obj) = resolve(dir).obj
            /\ resolve(Append(dir, n)).obj[Len(resolve(Append(dir, n)).obj)] = n
<1> DEFINE path == Append(dir, n)
<1>1. /\ path \in Seq(PathNames) /\ Len(path) = Len(dir) + 1 /\ Len(dir) \in Nat
      /\ \A i \in 1..Len(dir) : path[i] = dir[i]
      /\ path[Len(dir) + 1] = n
  BY AppendProperties, LenProperties
<1> HIDE DEF path
<1>2. /\ Parent(<<n>>) = <<>> /\ Append(<<>>, n) = <<n>>
      /\ Parent(<<dir[2], n>>) = <<dir[2]>> /\ Append(<<dir[2]>>, n) = <<dir[2], n>>
      /\ Len(<<n>>) = 1 /\ Len(<<dir[2], n>>) = 2 /\ <<n>>[1] = n /\ <<dir[2], n>>[2] = n
  <2> DEFINE a == dir[2]
             S == {a, n}
  <2>1. <<>> \in Seq(S) /\ <<a>> \in Seq(S) /\ <<n>> \in Seq(S) /\ <<a, n>> \in Seq(S)
    OBVIOUS
  <2>2. Append(<<>>, n) = <<n>>
    BY <2>1, AppendProperties, SeqEqual
  <2>3. Append(<<a>>, n) = <<a, n>>
    <3>1. Append(<<a>>, n) \in Seq(S) /\ Len(Append(<<a>>, n)) = 2
          /\ Append(<<a>>, n)[1] = a /\ Append(<<a>>, n)[2] = n
      BY <2>1, AppendProperties
    <3>2. Len(<<a, n>>) = 2 /\ <<a, n>>[1] = a /\ <<a, n>>[2] = n /\ 1..2 = {1, 2}
      OBVIOUS
    <3>3. \A i \in 1..2 : Append(<<a>>, n)[i] = <<a, n>>[i]
      BY <3>1, <3>2
    <3> QED BY <2>1, <3>1, <3>2, <3>3, SeqEqual
  <2>4. \A b : Len(<<n>>) = 1 /\ Len(<<b, n>>) = 2 /\ <<n>>[1] = n /\ <<b, n>>[2] = n
    OBVIOUS
  <2> HIDE DEF a, S
  <2>5. Parent(<<n>>) = <<>> /\ Parent(<<a, n>>) = <<a>>
    <3>1. n \in S
      BY DEF S
    <3>2. Parent(Append(<<>>, n)) = <<>> /\ Parent(Append(<<a>>, n)) = <<a>>
      BY <2>1, <3>1, ParentOfChild
    <3> QED BY <2>2, <2>3, <3>2
  <2> QED BY <2>2, <2>3, <2>4, <2>5 DEF a
<1>3. \/ resolve(path) = [kind |-> "Root", obj |-> <<>>]
      \/ resolve(path) = [kind |-> "DbNamespace", obj |-> <<>>]
      \/ Len(path) = 2 /\ resolve(path) = [kind |-> "ListTables", obj |-> <<path[2]>>]
      \/ Len(path) = 3 /\ resolve(path) = [kind |-> "ListPartitions", obj |-> <<path[2], path[3]>>]
  <2>1. is_dir(resolve(path))
    BY DEF path
  <2> QED BY <1>1, <2>1, DirPlans
<1>4. \/ Len(dir) = 0
      \/ Len(dir) = 1 /\ resolve(dir) = [kind |-> "DbNamespace", obj |-> <<>>]
      \/ Len(dir) = 2 /\ resolve(dir) = [kind |-> "ListTables", obj |-> <<dir[2]>>]
      \/ Len(dir) = 3
  BY DirPlans
<1>5. CASE Len(path) = 2 /\ resolve(path) = [kind |-> "ListTables", obj |-> <<path[2]>>]
  <2>1. Len(dir) = 1
    BY <1>1, <1>5
  <2>2. Len(dir) + 1 = 2
    BY <2>1
  <2>3. path[2] = n
    BY <1>1, <2>2
  <2> QED BY <1>2, <1>4, <1>5, <2>1, <2>3 DEF path
<1>6. CASE Len(path) = 3 /\ resolve(path) = [kind |-> "ListPartitions", obj |-> <<path[2], path[3]>>]
  <2>1. Len(dir) = 2
    <3>1. \A l \in Nat : l + 1 = 3 => l = 2
      OBVIOUS
    <3> QED BY <1>1, <1>6, <3>1
  <2>2. Len(dir) + 1 = 3 /\ 2 \in 1..Len(dir)
    BY <2>1
  <2>3. path[2] = dir[2] /\ path[3] = n
    BY <1>1, <2>2
  <2>4. resolve(path).obj = <<dir[2], n>> /\ resolve(path).kind = "ListPartitions"
    BY <1>6, <2>3
  <2>5. resolve(dir).obj = <<dir[2]>> /\ resolve(dir).kind = "ListTables"
    BY <1>4, <2>1
  <2> QED BY <1>2, <2>4, <2>5 DEF path
<1> QED BY <1>3, <1>5, <1>6 DEF path

\* What a directory that can be listed is asked for, and what readdir makes of it.
LEMMA DirKeys == ASSUME NEW dir \in Seq(PathNames), is_dir(resolve(dir)) PROVE
    resolve(dir).kind = "ListPartitions" => Len(resolve(dir).obj) = 2
<1>1. \A a, b : Len(<<a, b>>) = 2
  OBVIOUS
<1> QED BY <1>1, DirPlans

\* Names that are true of an unchanging directory are its names.
LEMMA QuietNames ==
  ASSUME NInv, Quiet, ls.state # "none", ls.quiet, resolve(ls.dir).kind # "Root",
         NEW k \in Keys, k = resolve(ls.dir).obj,
         NEW names \in SUBSET Told(k), TrueWithin(k, names, CacheTtl + QueryMax)
  PROVE  names = Now(k)
<1>1. ASSUME NEW n \in Told(k) PROVE n \in names <=> Append(k, n) \in catalog
  <2> DEFINE o == Append(k, n)
  <2>1. o \in Objects
    BY DEF Told
  <2>2. Parent(o) = k
    <3>1. k = <<>> \/ k \in Objects
      BY DEF Keys
    <3>2. k \in Seq(Names) /\ n \in Names
      BY <3>1, ObjectIsChild, EmptySeq DEF Told
    <3> QED BY <3>2, ParentOfChild
  <2>3. o \in Children(ls.dir)
    BY <2>1, <2>2 DEF Children
  <2>4. IF o \in catalog THEN sinceOut[o] = Horizon ELSE sinceIn[o] = Horizon
    BY <2>3 DEF Quiet
  <2>5. IF n \in names THEN sinceIn[o] <= CacheTtl + QueryMax ELSE sinceOut[o] <= CacheTtl + QueryMax
    BY DEF TrueWithin
  <2>6. ~(Horizon <= CacheTtl + QueryMax)
    BY Bounds
  <2> QED BY <2>4, <2>5, <2>6
<1> QED BY <1>1 DEF Now

\* A listing that stays what it was, with the names it had.
LEMMA WholeEnumerates ==
  ASSUME NEW dir \in Seq(PathNames)
  PROVE  Enumerates(Whole(dir), Held(resolve(dir), Now(resolve(dir).obj)))
<1>1. Now(resolve(dir).obj) \in SUBSET Names
  BY DEF Now, Told
<1>2. resolve(dir).kind = "ListPartitions" => All \notin Now(resolve(dir).obj)
  BY DirKeys DEF is_dir, Now, Told
<1> QED BY <1>1, <1>2, EntriesEnumerate DEF Whole

\* A mount starts with the root's inode and nobody listing it.
LEMMA LInit == Init => LInv
<1> SUFFICES ASSUME Init PROVE LInv
  OBVIOUS
<1>1. NInv
  BY NInit
<1>2. NamesKnown
  BY DEF Init, NamesKnown, NoEntry
<1>3. DirsKnown
  <2>1. resolve(<<>>) = [kind |-> "Root", obj |-> <<>>]
    BY DEF resolve
  <2>2. <<>> \in Seq(PathNames)
    OBVIOUS
  <2> QED BY <2>1, <2>2 DEF Init, DirsKnown, Keys
<1>4. Asked /\ Quiet /\ ListedSoFar
  BY DEF Init, Asked, Quiet, ListedSoFar, NoLs
<1> QED BY <1>1, <1>2, <1>3, <1>4 DEF LInv

\* The next page of the listing: the process has then got that much more of it.
LEMMA NextPage ==
  ASSUME NEW S, NEW entries \in Seq(S), NEW off \in Nat, NEW page, page = Page(entries, off, BufCap)
  PROVE  /\ page \in Seq(S) /\ off + Len(page) \in Nat
         /\ off <= Len(entries) =>
              /\ off + Len(page) <= Len(entries)
              /\ SubSeq(entries, 1, off) \o page = SubSeq(entries, 1, off + Len(page))
              /\ page = <<>> => off = Len(entries)
<1> DEFINE last == IF off + BufCap < Len(entries) THEN off + BufCap ELSE Len(entries)
<1>1. BufCap \in Nat \ {0} /\ Len(entries) \in Nat
  BY NamespaceAssumption
<1>2. last \in Nat /\ last <= Len(entries) /\ (off <= Len(entries) => off <= last)
      /\ (off < Len(entries) => off < last)
  BY <1>1
<1>3. page = SubSeq(entries, off + 1, last)
  BY DEF Page
<1> HIDE DEF last
<1>4. \A i \in (off + 1)..last : entries[i] \in S
  BY <1>1, <1>2, ElementOfSeq
<1>5. page \in Seq(S) /\ Len(page) = IF off + 1 <= last THEN last - (off + 1) + 1 ELSE 0
  BY <1>2, <1>3, <1>4, SubSeqProperties
<1>6. Len(page) \in Nat
  BY <1>5
<1>7. ASSUME off <= Len(entries)
      PROVE  /\ off + Len(page) <= Len(entries)
             /\ SubSeq(entries, 1, off) \o page = SubSeq(entries, 1, off + Len(page))
             /\ page = <<>> => off = Len(entries)
  <2>1. off + Len(page) = last
    BY <1>2, <1>5, <1>7
  <2>2. SubSeq(entries, 1, off) \o page = SubSeq(entries, 1, last)
    <3>1. 1 \in 1..(Len(entries) + 1) /\ off \in (1 - 1)..Len(entries) /\ last \in off..Len(entries)
      BY <1>1, <1>2, <1>7
    <3> QED BY <1>3, <3>1, ConcatAdjacentSubSeq
  <2>3. page = <<>> => off = Len(entries)
    <3>1. page = <<>> => Len(page) = 0
      OBVIOUS
    <3> QED BY <1>1, <1>2, <1>5, <1>7, <3>1
  <2> QED BY <1>2, <2>1, <2>2, <2>3
<1> QED BY <1>5, <1>6, <1>7

\* Everything a page of a directory names is one of its entries.
LEMMA PageOfEntries ==
  ASSUME NEW S, NEW entries \in Seq(S), NEW off \in Nat, NEW cap \in Nat,
         NEW i \in 1..Len(Page(entries, off, cap))
  PROVE  Page(entries, off, cap)[i] \in S
<1> DEFINE last == IF off + cap < Len(entries) THEN off + cap ELSE Len(entries)
<1>1. last \in Nat /\ last <= Len(entries) /\ Page(entries, off, cap) = SubSeq(entries, off + 1, last)
  BY DEF Page
<1> HIDE DEF last
<1>2. \A j \in (off + 1)..last : entries[j] \in S
  BY <1>1, ElementOfSeq
<1>3. SubSeq(entries, off + 1, last) \in Seq(S)
  BY <1>1, <1>2, SubSeqProperties
<1> QED BY <1>1, <1>3, ElementOfSeq

\* A name that a lookup finds or readdir lists gets an inode; if it names a directory,
\* that directory is one whose listing can be asked for.
LEMMA NewInode ==
  ASSUME LInv, NEW dir \in inodes, is_dir(resolve(dir)), NEW n \in PathNames,
         resolve(dir).kind \in {"DbNamespace", "ListTables"}
           /\ is_dir(resolve(Append(dir, n)))
           /\ resolve(Append(dir, n)).kind \notin {"Root", "DbNamespace"}
           => n \in Told(resolve(dir).obj)
  PROVE  /\ Append(dir, n) \in Seq(PathNames)
         /\ is_dir(resolve(Append(dir, n))) => resolve(Append(dir, n)).obj \in Keys
<1>1. dir \in Seq(PathNames)
  BY DEF LInv, DirsKnown
<1>2. Append(dir, n) \in Seq(PathNames)
  BY <1>1, AppendProperties
<1>3. ASSUME is_dir(resolve(Append(dir, n))), resolve(Append(dir, n)).obj # <<>>
      PROVE  resolve(Append(dir, n)).obj \in Keys
  <2>1. /\ resolve(dir).kind \in {"DbNamespace", "ListTables"}
        /\ resolve(Append(dir, n)).obj = Append(resolve(dir).obj, n)
        /\ Len(resolve(Append(dir, n)).obj) < 3
        /\ resolve(Append(dir, n)).kind \notin {"Root", "DbNamespace"}
    BY <1>1, <1>3, ChildDir
  <2>2. Append(resolve(dir).obj, n) \in Objects
    BY <1>3, <2>1 DEF Told
  <2> QED BY <2>1, <2>2 DEF Keys
<1> QED BY <1>2, <1>3 DEF Keys

-----------------------------------------------------------------------------
(* The steps of a listing.                                                  *)

\* The request that is being served, if its names are those of objects.
LEMMA LookupServed ==
  ASSUME LInv, pc # "idle", NEW names, ServeLookup(names),
         key \in Keys => names \subseteq Told(key)
  PROVE  /\ DirsKnown' /\ inodes \subseteq inodes'
         /\ ls' = ls \/ ls' = [ls EXCEPT !.state = "none"]
<1>1. cur.op = "lookup"
  BY DEF ServeLookup
<1>2. ls' = ls \/ ls' = [ls EXCEPT !.state = "none"]
  BY DEF ServeLookup, Error
<1>3. inodes' = inodes \/ (inodes' = inodes \cup {cur.path}
                           /\ ~(NeedsQuery("lookup", plan) /\ plan.obj[Len(plan.obj)] \notin names))
  BY DEF ServeLookup, Error
<1>4. CASE inodes' = inodes
  BY <1>2, <1>4 DEF LInv, DirsKnown
<1>5. CASE inodes' = inodes \cup {cur.path}
           /\ ~(NeedsQuery("lookup", plan) /\ plan.obj[Len(plan.obj)] \notin names)
  <2>1. PICK dir \in inodes, n \in LookupNames : is_dir(resolve(dir)) /\ cur.path = Append(dir, n)
    BY <1>1 DEF LInv, Asked
  <2>2. plan = resolve(Append(dir, n)) /\ key = Parent(plan.obj) /\ n \in PathNames
    BY <1>1, <2>1 DEF plan, key, Key, PathNames
  <2>3. dir \in Seq(PathNames) /\ resolve(dir).obj \in Keys
    BY <2>1 DEF LInv, DirsKnown
  <2>4. ASSUME is_dir(plan), plan.kind \notin {"Root", "DbNamespace"},
               resolve(dir).kind \in {"DbNamespace", "ListTables"}
        PROVE  n \in Told(resolve(dir).obj)
    <3>1. NeedsQuery("lookup", plan)
      BY <2>4 DEF NeedsQuery
    <3>2. CASE plan.obj = <<>>
      <4>1. \A a, b : <<>> # <<a>> /\ <<>> # <<a, b>>
        OBVIOUS
      <4>2. resolve(dir).kind # "ListPartitions" /\ Append(dir, n) \in Seq(PathNames)
        BY <2>2, <2>3, <2>4, AppendProperties
      <4>3. \E a, b : plan.obj = <<a>> \/ plan.obj = <<a, b>>
        <5> DEFINE path == Append(dir, n)
        <5>1. path \in Seq(PathNames) /\ is_dir(resolve(path)) /\ plan = resolve(path)
          BY <2>2, <2>4, <4>2
        <5> HIDE DEF path
        <5>2. \/ plan = [kind |-> "Root", obj |-> <<>>]
              \/ plan = [kind |-> "DbNamespace", obj |-> <<>>]
              \/ plan = [kind |-> "ListTables", obj |-> <<path[2]>>]
              \/ plan = [kind |-> "ListPartitions", obj |-> <<path[2], path[3]>>]
          BY <5>1, DirPlans
        <5> QED BY <2>4, <5>2
      <4> QED BY <3>2, <4>1, <4>3
    <3>3. CASE plan.obj # <<>>
      <4>1. Parent(plan.obj) = resolve(dir).obj /\ plan.obj[Len(plan.obj)] = n
        BY <2>1, <2>2, <2>3, <2>4, <3>3, ChildDir
      <4> QED BY <1>5, <2>2, <2>3, <3>1, <4>1
    <3> QED BY <3>2, <3>3
  <2>5. /\ Append(dir, n) \in Seq(PathNames)
        /\ is_dir(resolve(Append(dir, n))) => resolve(Append(dir, n)).obj \in Keys
    BY <2>1, <2>2, <2>4, NewInode
  <2> QED BY <1>2, <1>5, <2>1, <2>5 DEF LInv, DirsKnown
<1> QED BY <1>3, <1>4, <1>5

\* So is a page of a directory; its entries are those the listing has all the time, if
\* nothing changes and the query did not fail.
LEMMA ReaddirServed ==
  ASSUME LInv, pc # "idle", is_dir(plan), NEW names, NEW failed \in BOOLEAN,
         ServeReaddir(names, failed), UNCHANGED catalog,
         names \subseteq Told(plan.obj),
         ls.quiet /\ ~failed => Entries(plan, names) = Whole(ls.dir)
  PROVE  /\ DirsKnown' /\ inodes \subseteq inodes' /\ ls'.dir = ls.dir /\ ls'.off \in Nat
         /\ ls'.quiet => ls.quiet /\ ls.state # "none"
         /\ ls.dir \in inodes
         /\ ListedSoFar'
<1> DEFINE entries == Entries(plan, names)
           page    == Page(entries, cur.off, BufCap)
           touched == Page(entries, cur.off, BufCap + 1)
           held    == Held(plan, names)
<1>1. /\ cur.op = "readdir" /\ ls.state = "run" /\ cur.path = ls.dir /\ cur.off = ls.off
      /\ ls.dir \in inodes /\ ls.off \in Nat
  BY DEF LInv, Asked, ServeReaddir
<1>2. /\ inodes' = inodes \cup {Append(cur.path, n) :
                      n \in {touched[i] : i \in 1..Len(touched)} \ {Dot, DotDot}}
      /\ ls' = [ls EXCEPT !.listed = @ \o page, !.off = @ + Len(page),
                          !.quiet = @ /\ ~failed,
                          !.state = IF page = <<>> THEN "done" ELSE "run"]
  BY DEF ServeReaddir
<1>3. plan = resolve(ls.dir) /\ ls.dir \in Seq(PathNames) /\ plan.obj \in Keys
  BY <1>1 DEF plan, LInv, DirsKnown
<1>4. names \in SUBSET Names /\ (plan.kind = "ListPartitions" => All \notin names)
  BY <1>3, DirKeys DEF Told
<1>5. entries \in Seq(held)
  BY <1>4, EntriesEnumerate DEF Enumerates
<1> HIDE DEF entries, held
<1>6. DirsKnown'
  <2>1. ASSUME NEW n \in {touched[i] : i \in 1..Len(touched)} \ {Dot, DotDot}
        PROVE  /\ Append(ls.dir, n) \in Seq(PathNames)
               /\ is_dir(resolve(Append(ls.dir, n))) => resolve(Append(ls.dir, n)).obj \in Keys
    <3>1. BufCap + 1 \in Nat
      BY NamespaceAssumption
    <3>2. n \in held
      BY <1>1, <1>5, <3>1, PageOfEntries
    <3>3. n \in PathNames
      BY <1>4, <3>2 DEF held, Held, PathNames, AllTsv
    <3>4. plan.kind \in {"DbNamespace", "ListTables"} => n \in names
      BY <3>2 DEF held, Held
    <3> QED BY <1>1, <1>3, <3>3, <3>4, NewInode
  <2> HIDE DEF touched
  <2> QED BY <1>1, <1>2, <2>1 DEF LInv, DirsKnown
<1>7. /\ page \in Seq(held) /\ ls.off + Len(page) \in Nat
      /\ ls.off <= Len(entries) =>
           /\ ls.off + Len(page) <= Len(entries)
           /\ SubSeq(entries, 1, ls.off) \o page = SubSeq(entries, 1, ls.off + Len(page))
           /\ page = <<>> => ls.off = Len(entries)
  BY <1>1, <1>5, NextPage
<1> HIDE DEF page
<1>8. /\ ls'.dir = ls.dir /\ ls'.off = ls.off + Len(page) /\ ls'.listed = ls.listed \o page
      /\ ls'.state = IF page = <<>> THEN "done" ELSE "run"
      /\ ls'.quiet = (ls.quiet /\ ~failed)
  BY <1>2 DEF LInv, NInv, Types, LsType
<1>9. ASSUME ls'.quiet PROVE ls.quiet /\ ~failed
  BY <1>8, <1>9, Zenon
<1>10. ASSUME ls'.quiet
       PROVE  /\ ls'.off <= Len(entries) /\ ls'.listed = SubSeq(entries, 1, ls'.off)
              /\ ls'.state = "done" => ls'.off = Len(entries)
  <2>1. ls.off <= Len(entries) /\ ls.listed = SubSeq(entries, 1, ls.off)
    BY <1>1, <1>3, <1>9, <1>10 DEF LInv, ListedSoFar, entries
  <2>2. page = <<>> => Len(page) = 0
    OBVIOUS
  <2> QED BY <1>1, <1>7, <1>8, <2>1, <2>2
<1>11. ASSUME ls'.quiet PROVE entries = Whole(ls.dir)'
  <2>1. entries = Whole(ls.dir)
    BY <1>9, <1>11 DEF entries
  <2> QED BY <1>8, <2>1 DEF Whole, Now, Told
<1>12. ListedSoFar'
  BY <1>3, <1>8, <1>10, <1>11 DEF ListedSoFar, Whole
<1> QED BY <1>1, <1>2, <1>6, <1>7, <1>8, <1>9, <1>12

\* The catalog keeps still while a handler replies, so what was quiet stays quiet.
LEMMA QuietStays ==
  ASSUME LInv, UNCHANGED server, ls'.quiet => ls.quiet /\ ls.state # "none", ls'.dir = ls.dir
  PROVE  Quiet'
BY DEF LInv, Quiet, Children

\* A listing process, when its request is not the one that is answered or fails.
LEMMA ListingStays ==
  ASSUME LInv, UNCHANGED server, DirsKnown', inodes \subseteq inodes', pc' = "idle",
         ls' = ls \/ ls' = [ls EXCEPT !.state = "none"]
  PROVE  Asked' /\ Quiet' /\ ListedSoFar'
<1>1. CASE ls' = ls
  BY <1>1 DEF LInv, Asked, Quiet, ListedSoFar, Children, Whole, Now, Told
<1>2. CASE ls' = [ls EXCEPT !.state = "none"]
  <2>1. ls'.state = "none"
    BY <1>2 DEF LInv, NInv, Types, LsType
  <2> QED BY <2>1 DEF Asked, Quiet, ListedSoFar
<1> QED BY <1>1, <1>2

\* A handler that knows its names answers: with what the directory holds, if it was
\* quiet long enough for that listing to be true of it.
LEMMA ServedKeeps ==
  ASSUME LInv, NInv', NamesKnown', UNCHANGED server, pc # "idle", pc' = "idle",
         NEW names, NEW failed \in BOOLEAN,
         ServeLookup(names) \/ (ServeReaddir(names, failed) /\ is_dir(plan)),
         key \in Keys => names \subseteq Told(key),
         key \in Keys /\ NeedsQuery(cur.op, plan) /\ ~failed
           => TrueWithin(key, names, CacheTtl + QueryMax)
  PROVE  LInv'
<1>1. CASE ServeLookup(names)
  <2>1. /\ DirsKnown' /\ inodes \subseteq inodes'
        /\ ls' = ls \/ ls' = [ls EXCEPT !.state = "none"]
    BY <1>1, LookupServed
  <2> QED BY <2>1, ListingStays DEF LInv
<1>2. CASE ServeReaddir(names, failed) /\ is_dir(plan)
  <2>1. /\ cur.op = "readdir" /\ ls.state = "run" /\ cur.path = ls.dir /\ ls.dir \in inodes
        /\ plan = resolve(ls.dir) /\ key = plan.obj /\ key \in Keys
    BY <1>2 DEF LInv, Asked, DirsKnown, ServeReaddir, plan, key, Key
  <2>2. ASSUME ls.quiet, ~failed PROVE Entries(plan, names) = Whole(ls.dir)
    <3>1. CASE plan.kind = "Root"
      BY <2>1, <3>1 DEF Whole, Entries
    <3>2. CASE plan.kind # "Root"
      <4>1. NeedsQuery(cur.op, plan)
        BY <2>1, <3>2 DEF NeedsQuery
      <4>2. names = Now(key)
        BY <2>1, <2>2, <3>2, <4>1, QuietNames DEF LInv
      <4> QED BY <2>1, <4>2 DEF Whole
    <3> QED BY <3>1, <3>2
  <2>3. /\ DirsKnown' /\ inodes \subseteq inodes' /\ ls'.dir = ls.dir /\ ls'.off \in Nat
        /\ ls'.quiet => ls.quiet /\ ls.state # "none"
        /\ ls.dir \in inodes /\ ListedSoFar'
    BY <1>2, <2>1, <2>2, ReaddirServed
  <2>4. Quiet' /\ Asked'
    BY <2>3, QuietStays DEF Asked
  <2> QED BY <2>3, <2>4 DEF LInv
<1> QED BY <1>1, <1>2

\* The root of the catalog is asked for, so is whatever the listing process lists.
LEMMA LHandle == ASSUME LInv, NInv', ResolveError \/ NotADir \/ NoQuery \/ Hit PROVE LInv'
<1>1. pc = "handle" /\ UNCHANGED <<server, cache>>
  BY DEF ResolveError, NotADir, NoQuery, Hit, Handled
<1>2. CASE ResolveError \/ NotADir
  <2>1. PICK r \in {"enoent", "notdir"} : Error(r)
    BY <1>2 DEF ResolveError, NotADir
  <2>2. /\ pc' = "idle" /\ inodes' = inodes
        /\ ls' = ls \/ ls' = [ls EXCEPT !.state = "none"]
    BY <2>1 DEF Error, Done
  <2>3. NamesKnown' /\ DirsKnown'
    BY <1>1, <2>2 DEF LInv, NamesKnown, DirsKnown, Told
  <2> QED BY <1>1, <2>2, <2>3, ListingStays DEF LInv
<1>3. CASE NoQuery
  <2> DEFINE names == {}
  <2>1. Serve(names) /\ ~NeedsQuery(cur.op, plan) /\ (cur.op = "lookup" \/ is_dir(plan))
    BY <1>3 DEF NoQuery, Handled
  <2>2. pc' = "idle"
    BY <2>1 DEF Serve, ServeLookup, ServeReaddir, Error, Done
  <2>3. NamesKnown'
    BY <1>1, <2>2 DEF LInv, NamesKnown, Told
  <2>4. ServeLookup(names) \/ (ServeReaddir(names, FALSE) /\ is_dir(plan))
    BY <2>1 DEF Serve, ServeReaddir
  <2>5. names \subseteq Told(key) /\ pc # "idle" /\ UNCHANGED server
    BY <1>1
  <2> HIDE DEF names
  <2> QED BY <2>1, <2>2, <2>3, <2>4, <2>5, ServedKeeps
<1>4. CASE Hit
  <2> DEFINE names == cache[key].names
  <2>1. Serve(names) /\ get(key) /\ (cur.op = "lookup" \/ is_dir(plan))
    BY <1>4 DEF Hit, Handled
  <2>2. key \in Keys => TrueWithin(key, names, CacheTtl + QueryMax) /\ names \subseteq Told(key)
    BY <2>1, HitIsFresh DEF LInv, NamesKnown
  <2> HIDE DEF names
  <2>3. pc' = "idle"
    BY <2>1 DEF Serve, ServeLookup, ServeReaddir, Error, Done
  <2>4. NamesKnown'
    BY <1>1, <2>3 DEF LInv, NamesKnown, Told
  <2>5. ServeLookup(names) \/ (ServeReaddir(names, FALSE) /\ is_dir(plan))
    BY <2>1 DEF Serve, ServeReaddir
  <2> QED BY <1>1, <2>2, <2>3, <2>4, <2>5, ServedKeeps
<1> QED BY <1>2, <1>3, <1>4

\* A query on its way, and its answer or failure.
LEMMA LQuery == ASSUME LInv, NInv', Miss \/ Evaluate \/ Deliver \/ DeliverError PROVE LInv'
<1>1. UNCHANGED server /\ pc # "idle"
  BY DEF Miss, Handled, Evaluate, Deliver, DeliverError
<1>2. CASE Miss
  <2>1. /\ cache' = [cache EXCEPT ![key] = NoEntry] /\ pc' = "query" /\ pc = "handle"
        /\ UNCHANGED <<inodes, cur, ls>> /\ Handled
    BY <1>2 DEF Miss, remove, Handled
  <2>2. NamesKnown'
    <3>1. \A k \in Keys : cache'[k] = cache[k] \/ cache'[k].names = {}
      BY <2>1 DEF LInv, NInv, Types, NoEntry
    <3> QED BY <2>1, <3>1 DEF LInv, NamesKnown, Told
  <2>3. DirsKnown' /\ Asked'
    BY <2>1 DEF LInv, DirsKnown, Asked, plan, Handled
  <2>4. Quiet' /\ ListedSoFar'
    BY <1>1, <2>1 DEF LInv, Quiet, ListedSoFar, Children, Whole, Now, Told
  <2> QED BY <2>2, <2>3, <2>4 DEF LInv
<1>3. CASE Evaluate
  <2>1. /\ pc' = "answered" /\ pc = "query" /\ UNCHANGED <<cache, inodes, cur, ls>>
        /\ answer' = [ok |-> TRUE, names |-> Listing(key)] \/ answer' = NoAnswer
    BY <1>3 DEF Evaluate
  <2>2. NamesKnown'
    <3>1. catalog \subseteq Objects
      BY DEF LInv, NInv, Types, Objects
    <3>2. \A n \in answer'.names : Append(key, n) \in Objects
      BY <2>1, <3>1 DEF Listing, NoAnswer
    <3> QED BY <2>1, <3>2 DEF LInv, NamesKnown, Told, key, plan
  <2>3. DirsKnown' /\ Asked'
    BY <2>1 DEF LInv, DirsKnown, Asked, plan
  <2>4. Quiet' /\ ListedSoFar'
    BY <1>1, <2>1 DEF LInv, Quiet, ListedSoFar, Children, Whole, Now, Told
  <2> QED BY <2>2, <2>3, <2>4 DEF LInv
<1>4. CASE Deliver
  <2> DEFINE names == Fetched(key, answer.names)
  <2>1. pc = "answered" /\ answer.ok /\ insert(key, names) /\ Serve(names)
    BY <1>4 DEF Deliver
  <2>2. names \subseteq Told(key)
    BY <2>1 DEF LInv, NamesKnown, Told, Fetched, NInv, Types
  <2>3. TrueWithin(key, names, CacheTtl + QueryMax)
    BY <2>1, AnswerIsFresh DEF LInv
  <2> HIDE DEF names
  <2>4. pc' = "idle"
    BY <2>1 DEF Serve, ServeLookup, ServeReaddir, Error, Done
  <2>5. NamesKnown'
    <3>1. \A k \in Keys : cache'[k] = cache[k] \/ (k = key /\ cache'[k].names = names)
      BY <2>1 DEF LInv, NInv, Types, insert
    <3> QED BY <2>2, <2>4, <3>1 DEF LInv, NamesKnown, Told
  <2>6. ServeLookup(names) \/ (ServeReaddir(names, FALSE) /\ is_dir(plan))
    BY <2>1 DEF Serve, ServeReaddir, LInv, Asked
  <2> QED BY <1>1, <2>2, <2>3, <2>4, <2>5, <2>6, ServedKeeps
<1>5. CASE DeliverError
  <2> DEFINE names == {}
  <2>1. UNCHANGED cache /\ (Error("error") \/ (ServeReaddir(names, TRUE) /\ is_dir(plan)))
    BY <1>5 DEF DeliverError, is_dir
  <2>2. pc' = "idle"
    BY <2>1 DEF ServeReaddir, Error, Done
  <2>3. NamesKnown'
    BY <2>1, <2>2 DEF LInv, NamesKnown, Told
  <2>4. CASE Error("error")
    <3>1. inodes' = inodes /\ (ls' = ls \/ ls' = [ls EXCEPT !.state = "none"])
      BY <2>4 DEF Error
    <3>2. DirsKnown'
      BY <3>1 DEF LInv, DirsKnown
    <3> QED BY <1>1, <2>2, <2>3, <3>1, <3>2, ListingStays DEF LInv
  <2>5. CASE ServeReaddir(names, TRUE) /\ is_dir(plan)
    <3>1. names \subseteq Told(key)
      OBVIOUS
    <3> HIDE DEF names
    <3> QED BY <1>1, <2>2, <2>3, <2>5, <3>1, ServedKeeps
  <2> QED BY <2>1, <2>4, <2>5
<1> QED BY <1>2, <1>3, <1>4, <1>5

\* A request arrives, or a process starts to list a directory.
LEMMA LRequest ==
  ASSUME LInv, NInv', \/ \E dir \in inodes, n \in LookupNames : Lookup(dir, n)
                      \/ \E dir \in LsDirs : LsStart(dir)
                      \/ LsNext
  PROVE  LInv'
<1>1. /\ UNCHANGED <<server, cache, inodes>> /\ pc = "idle" /\ pc' \in {"idle", "handle"}
  BY DEF Lookup, LsNext, LsStart, Request
<1>2. NamesKnown' /\ DirsKnown'
  BY <1>1 DEF LInv, NamesKnown, DirsKnown, Told
<1>3. CASE \E dir \in inodes, n \in LookupNames : Lookup(dir, n)
  <2>1. PICK dir \in inodes, n \in LookupNames : Lookup(dir, n)
    BY <1>3
  <2>2. /\ is_dir(resolve(dir)) /\ ls' = ls
        /\ cur' = [op |-> "lookup", path |-> Append(dir, n), off |-> 0]
    BY <2>1 DEF Lookup, Request
  <2>3. Asked'
    BY <1>1, <2>2 DEF LInv, Asked
  <2> QED BY <1>1, <1>2, <2>2, <2>3 DEF LInv, Quiet, ListedSoFar, Children, Whole, Now, Told
<1>4. CASE LsNext
  <2>1. /\ ls.state = "run" /\ ls' = ls
        /\ cur' = [op |-> "readdir", path |-> ls.dir, off |-> ls.off]
    BY <1>4 DEF LsNext, Request
  <2>2. Asked'
    BY <1>1, <2>1 DEF LInv, Asked
  <2> QED BY <1>1, <1>2, <2>1, <2>2 DEF LInv, Quiet, ListedSoFar, Children, Whole, Now, Told
<1>5. CASE \E dir \in LsDirs : LsStart(dir)
  <2>1. PICK dir : LsStart(dir)
    BY <1>5
  <2> DEFINE quiet  == \A o \in Children(dir) : Horizon \in {sinceIn[o], sinceOut[o]}
             steady == {o \in Children(dir) : sinceOut[o] = Horizon}
  <2>2. /\ dir \in inodes /\ pc' = "idle"
        /\ ls' = [state |-> "run", dir |-> dir, off |-> 0, listed |-> <<>>,
                  quiet |-> quiet, steady |-> steady]
    BY <2>1 DEF LsStart
  <2>3. quiet => \A o \in Children(dir) :
                   IF o \in catalog THEN sinceOut[o] = Horizon ELSE sinceIn[o] = Horizon
    <3>1. Horizon # 0
      BY Bounds
    <3> QED BY <3>1 DEF LInv, NInv, Ages, Children
  <2> HIDE DEF quiet, steady
  <2>4. ls'.state = "run" /\ ls'.dir = dir /\ ls'.off = 0 /\ ls'.listed = <<>> /\ ls'.quiet = quiet
    BY <2>2
  <2>5. ls'.quiet => quiet
    BY <2>4, Zenon
  <2>6. Quiet'
    BY <1>1, <2>3, <2>4, <2>5 DEF Quiet, Children
  <2>7. Asked'
    BY <1>1, <2>2, <2>4 DEF Asked
  <2>8. ListedSoFar'
    <3>1. SubSeq(Whole(dir)', 1, 0) = <<>>
      BY SubSeqEmpty
    <3>2. 0 <= Len(Whole(dir)')
      BY <1>1, <2>2, WholeEnumerates, LenProperties DEF LInv, DirsKnown, Enumerates, Whole, Now, Told
    <3> QED BY <2>4, <3>1, <3>2 DEF ListedSoFar
  <2> QED BY <1>2, <2>6, <2>7, <2>8 DEF LInv
<1> QED BY <1>3, <1>4, <1>5

\* The directory's names are those of the objects below it.
LEMMA NowOfChildren ==
  ASSUME NEW dir, resolve(dir).obj \in Keys, resolve(dir).kind # "Root",
         Children(dir) \cap catalog' = Children(dir) \cap catalog
  PROVE  Now(resolve(dir).obj)' = Now(resolve(dir).obj)
<1> DEFINE k == resolve(dir).obj
<1>1. k \in Seq(Names)
  BY ObjectIsChild, EmptySeq DEF Keys
<1>2. ASSUME NEW n \in Told(k) PROVE Append(k, n) \in Children(dir)
  <2>1. n \in Names /\ Append(k, n) \in Objects
    BY DEF Told
  <2>2. Parent(Append(k, n)) = k
    BY <1>1, <2>1, ParentOfChild
  <2> QED BY <2>1, <2>2 DEF Children
<1>3. \A n \in Told(k) : Append(k, n) \in catalog' <=> Append(k, n) \in catalog
  BY <1>2
<1> QED BY <1>3 DEF Now, Told

\* Other clients change the catalog: a quiet listing is of a directory they leave alone.
LEMMA LChange == ASSUME LInv, NInv', Change PROVE LInv'
<1>1. PICK c \in Catalogs :
        /\ catalog' = c
        /\ sinceIn'  = [o \in Objects |-> IF o \in c THEN 0 ELSE sinceIn[o]]
        /\ sinceOut' = [o \in Objects |-> IF o \in c THEN sinceOut[o] ELSE 0]
        /\ ls' = [ls EXCEPT !.steady = @ \cap c,
                  !.quiet = @ /\ Children(ls.dir) \cap c = Children(ls.dir) \cap catalog]
  BY DEF Change
<1>2. UNCHANGED <<cache, inodes, pc, cur, answer>>
  BY DEF Change
<1> DEFINE same == Children(ls.dir) \cap c = Children(ls.dir) \cap catalog
<1>3. /\ ls'.dir = ls.dir /\ ls'.off = ls.off /\ ls'.listed = ls.listed /\ ls'.state = ls.state
      /\ ls'.quiet = (ls.quiet /\ same)
  <2>1. ls' = [ls EXCEPT !.steady = @ \cap c, !.quiet = @ /\ same]
    BY <1>1
  <2> HIDE DEF same
  <2> QED BY <2>1 DEF LInv, NInv, Types, LsType
<1>4. ASSUME ls'.quiet PROVE ls.quiet /\ same
  <2> HIDE DEF same
  <2> QED BY <1>3, <1>4, Zenon
<1>5. NamesKnown' /\ DirsKnown' /\ Asked'
  BY <1>2, <1>3 DEF LInv, NamesKnown, DirsKnown, Asked, Told, key, plan
<1>6. Quiet'
  <2> SUFFICES ASSUME ls.state # "none", ls'.quiet, NEW o \in Children(ls.dir)
               PROVE  IF o \in c THEN sinceOut'[o] = Horizon ELSE sinceIn'[o] = Horizon
    BY <1>1, <1>3 DEF Quiet, Children
  <2>1. (o \in c <=> o \in catalog) /\ o \in Objects
    BY <1>4 DEF Children
  <2>2. IF o \in catalog THEN sinceOut[o] = Horizon ELSE sinceIn[o] = Horizon
    BY <1>4 DEF LInv, Quiet
  <2> QED BY <1>1, <2>1, <2>2
<1>7. ListedSoFar'
  <2> SUFFICES ASSUME ls.state # "none", ls'.quiet
               PROVE  /\ is_dir(resolve(ls.dir)) =>
                           /\ ls.off <= Len(Whole(ls.dir)')
                           /\ ls.listed = SubSeq(Whole(ls.dir)', 1, ls.off)
                      /\ ls.state = "done" => /\ is_dir(resolve(ls.dir))
                                              /\ ls.off = Len(Whole(ls.dir)')
    BY <1>3 DEF ListedSoFar, Whole, Now, Told
  <2>1. ASSUME is_dir(resolve(ls.dir)) PROVE Whole(ls.dir)' = Whole(ls.dir)
    <3>1. CASE resolve(ls.dir).kind = "Root"
      BY <1>3, <3>1 DEF Whole, Entries
    <3>2. CASE resolve(ls.dir).kind # "Root"
      <4>1. resolve(ls.dir).obj \in Keys
        BY <2>1 DEF LInv, Asked, DirsKnown
      <4>2. Now(resolve(ls.dir).obj)' = Now(resolve(ls.dir).obj)
        BY <1>1, <1>3, <1>4, <3>2, <4>1, NowOfChildren
      <4> QED BY <1>3, <4>2 DEF Whole
    <3> QED BY <3>1, <3>2
  <2> QED BY <1>4, <2>1 DEF LInv, ListedSoFar
<1> QED BY <1>5, <1>6, <1>7 DEF LInv

\* Time passes: what has been quiet for long enough stays so.
LEMMA LTick == ASSUME LInv, NInv', Tick PROVE LInv'
<1>1. /\ cache' = [k \in Keys |-> [cache[k] EXCEPT !.age = Older(@, CacheTtl + 1)]]
      /\ sinceIn'  = [o \in Objects |-> IF o \in catalog THEN 0 ELSE Older(sinceIn[o], Horizon)]
      /\ sinceOut' = [o \in Objects |-> IF o \in catalog THEN Older(sinceOut[o], Horizon) ELSE 0]
      /\ UNCHANGED <<catalog, inodes, pc, cur, answer, ls>>
  BY DEF Tick
<1>2. \A k \in Keys : cache'[k].names = cache[k].names
  BY <1>1 DEF LInv, NInv, Types, Listings
<1>3. NamesKnown' /\ DirsKnown' /\ Asked' /\ ListedSoFar'
  BY <1>1, <1>2 DEF LInv, NamesKnown, DirsKnown, Asked, ListedSoFar, Whole, Now, Told, key, plan
<1>4. Quiet'
  BY <1>1 DEF LInv, Quiet, Children, Older
<1> QED BY <1>3, <1>4 DEF LInv

\* Every step keeps what is known of the names, the requests and a quiet listing.
LEMMA LStep == LInv /\ [Next]_vars => LInv'
<1> SUFFICES ASSUME LInv, [Next]_vars PROVE LInv'
  OBVIOUS
<1>1. NInv'
  BY NStep DEF LInv
<1>2. CASE UNCHANGED vars
  BY <1>1, <1>2 DEF vars, LInv, NamesKnown, DirsKnown, Asked, Quiet, ListedSoFar, Children,
                    Whole, Now, Told, key, plan
<1> QED BY <1>1, <1>2, LRequest, LChange, LTick, LHandle, LQuery DEF Next

\* A listing taken while the directory is quiet and no query fails is complete: each of
\* the directory's entries is in it, and none of them twice, for any catalog, any reply
\* buffer and any order of expiry and refill between one readdir and the next.
THEOREM ListingsAreComplete == Spec => []QuietListing
<1>1. LInv => QuietListing
  <2> SUFFICES ASSUME LInv, ls.state = "done", ls.quiet
               PROVE  /\ {ls.listed[i] : i \in 1..Len(ls.listed)} = Contents(ls.dir)
                      /\ \A i, j \in 1..Len(ls.listed) : ls.listed[i] = ls.listed[j] => i = j
    BY DEF QuietListing
  <2> DEFINE dir   == ls.dir
             k     == resolve(dir).obj
             whole == Whole(dir)
             held  == Held(resolve(dir), Now(k))
  <2>1. /\ dir \in Seq(PathNames) /\ is_dir(resolve(dir)) /\ k \in Keys
        /\ ls.listed = SubSeq(whole, 1, Len(whole))
    BY DEF LInv, Asked, DirsKnown, ListedSoFar
  <2>2. Enumerates(whole, held)
    BY <2>1, WholeEnumerates
  <2> HIDE DEF whole, held
  <2>3. ls.listed = whole
    BY <2>1, <2>2, SubSeqFull DEF Enumerates
  <2>4. {whole[i] : i \in 1..Len(whole)} = held
    BY <2>2, ElementOfSeq DEF Enumerates
  <2>5. held = Contents(dir)
    <3> DEFINE names == {o[Len(o)] : o \in Children(dir) \cap catalog}
    <3>1. CASE resolve(dir).kind = "Root"
      BY <3>1 DEF held, Held, Contents
    <3>2. CASE resolve(dir).kind # "Root"
      <4>1. Now(k) = IF Len(k) = 2 THEN names \ {All} ELSE names
        <5>1. ASSUME NEW n \in Now(k) PROVE n \in names
          <6>1. n \in Names /\ Append(k, n) \in Objects \cap catalog
            BY DEF Now, Told
          <6>2. k \in Seq(Names)
            BY <2>1, ObjectIsChild, EmptySeq DEF Keys
          <6>3. Parent(Append(k, n)) = k /\ Append(k, n)[Len(Append(k, n))] = n
            BY <6>1, <6>2, ParentOfChild, AppendProperties
          <6>4. Append(k, n) \in Children(dir)
            BY <3>2, <6>1, <6>3 DEF Children
          <6> QED BY <6>1, <6>3, <6>4
        <5>2. ASSUME NEW n \in names, ~(Len(k) = 2 /\ n = All) PROVE n \in Now(k)
          <6>1. PICK o \in Children(dir) \cap catalog : n = o[Len(o)]
            OBVIOUS
          <6>2. o \in Objects /\ Parent(o) = k
            BY <6>1 DEF Children
          <6> QED BY <5>2, <6>1, <6>2, ObjectIsChild DEF Now, Told
        <5> HIDE DEF names
        <5> QED BY <5>1, <5>2 DEF Now, Told
      <4> HIDE DEF names
      <4>2. CASE resolve(dir).kind = "ListPartitions"
        <5>1. Len(k) = 2
          BY <2>1, <4>2, DirKeys
        <5>2. {AllTsv} \cup {tsv(p) : p \in names \ {All}} = {AllTsv} \cup {tsv(p) : p \in names}
          BY DEF AllTsv
        <5> QED BY <4>1, <4>2, <5>1, <5>2 DEF held, Held, Contents, names
      <4>3. CASE resolve(dir).kind # "ListPartitions"
        <5>1. Len(k) # 2
          <6>1. Len(<<>>) = 0 /\ \A a : Len(<<a>>) = 1
            OBVIOUS
          <6>2. k = <<>> \/ \E a : k = <<a>>
            BY <2>1, <4>3, DirPlans
          <6> QED BY <6>1, <6>2
        <5> QED BY <3>2, <4>1, <4>3, <5>1 DEF held, Held, Contents, names
      <4> QED BY <4>2, <4>3
    <3> QED BY <3>1, <3>2
  <2>6. \A i, j \in 1..Len(whole) : whole[i] = whole[j] => i = j
    BY <2>2 DEF Enumerates
  <2> HIDE DEF dir
  <2>7. /\ {ls.listed[i] : i \in 1..Len(ls.listed)} = Contents(dir)
        /\ \A i, j \in 1..Len(ls.listed) : ls.listed[i] = ls.listed[j] => i = j
    BY <2>3, <2>4, <2>5, <2>6
  <2> QED BY <2>7 DEF dir
<1> QED BY <1>1, LInit, LStep, PTL DEF Spec
=============================================================================
