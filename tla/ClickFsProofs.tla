--------------------------- MODULE ClickFsProofs ----------------------------
(***************************************************************************)
(* Proofs about the open files of a mount: which errno a failed query      *)
(* becomes, what stands in README.md when some of its sub-queries fail,    *)
(* that handles, texts and streams stay with the process that opened them, *)
(* and that the open files are those of module OpenFiles, for any number   *)
(* of processes, opens and alterations of the table.                       *)
(***************************************************************************)
EXTENDS ClickFs, SequenceTheorems, FiniteSetTheorems, TLAPS

USE DEF locals

-----------------------------------------------------------------------------
(* The errno of a failed query (HttpClient).                                *)

\* The exception code is found wherever the response carries it.
LEMMA CodeIsFound == ASSUME NEW n \in Codes, NEW other PROVE
    /\ parse_clickhouse_error(n, other) = n
    /\ parse_clickhouse_error(NoCode, n) = n /\ parse_clickhouse_error(Garbage, n) = n
    /\ n # NoCode
<1>1. n > 0 /\ n \in Nat
  BY HttpAssumption
<1> QED BY <1>1 DEF parse_clickhouse_error, NoCode, Garbage

\* A response without a code is told by its status.
LEMMA NoCodeIsFound ==
  \A h, b \in {NoCode, Garbage} : parse_clickhouse_error(h, b) = NoCode
BY DEF parse_clickhouse_error, NoCode, Garbage

\* What stands for a cause, response by response.
LEMMA ResponseOf == ASSUME NEW cause \in Causes, NEW resp \in Responses(cause) PROVE
    \/ /\ cause.kind = "exception" /\ cause.n \in Codes
       /\ resp.status \in Statuses
       /\ \/ /\ resp.net = "ok" /\ Remnant(resp) = Whole
             /\ parse_clickhouse_error(resp.header, resp.body) = cause.n
          \/ /\ resp.net = "body" /\ Remnant(resp) = Nothing
             /\ parse_clickhouse_error(resp.header, NoCode) = cause.n
          \/ /\ resp.net = "body" /\ Remnant(resp) = resp.status
             /\ parse_clickhouse_error(resp.header, NoCode) = NoCode
    \/ /\ cause.kind = "proxy" /\ cause.n \in Statuses /\ resp.status = cause.n
       /\ parse_clickhouse_error(resp.header, resp.body) = NoCode
       /\ parse_clickhouse_error(resp.header, NoCode) = NoCode
       /\ \/ resp.net = "ok" /\ Remnant(resp) = Whole
          \/ resp.net = "body" /\ Remnant(resp) = resp.status
    \/ /\ cause.kind = "network"
       /\ \/ resp.net = "send" /\ Remnant(resp) = Nothing
          \/ resp.net = "body" /\ resp.status = 200 /\ Remnant(resp) = 200
<1> USE DEF Response, Remnant
<1>1. CASE \E c \in Codes : cause = Cause("exception", c)
  <2>1. cause.kind = "exception" /\ cause.n \in Codes /\ cause.n \in Nat /\ cause.n > 0
    BY <1>1, HttpAssumption DEF Cause
  <2>2. CASE \E s \in Statuses, b \in Codes \cup {NoCode, Garbage} : resp = Response("ok", s, cause.n, b)
    BY <2>1, <2>2, CodeIsFound
  <2>3. CASE \E s \in Statuses, h \in {NoCode, Garbage} : resp = Response("ok", s, h, cause.n)
    BY <2>1, <2>3, CodeIsFound
  <2>4. CASE \E s \in Statuses : resp = Response("body", s, cause.n, NoCode)
    <3>1. PICK s \in Statuses : resp = Response("body", s, cause.n, NoCode)
      BY <2>4
    <3>2. ~(resp.header <= 0) /\ resp.net = "body" /\ resp.header = cause.n /\ resp.status \in Statuses
      BY <2>1, <3>1
    <3> QED BY <2>1, <3>2, CodeIsFound
  <2>5. CASE \E s \in Statuses, h \in {NoCode, Garbage} : resp = Response("body", s, h, NoCode)
    BY <2>1, <2>5, NoCodeIsFound DEF NoCode, Garbage
  <2> QED BY <2>1, <2>2, <2>3, <2>4, <2>5 DEF Responses
<1>2. CASE \E s \in Statuses : cause = Cause("proxy", s)
  <2>1. cause.kind = "proxy" /\ cause.n \in Statuses
    BY <1>2 DEF Cause
  <2>2. CASE \E h, b \in {NoCode, Garbage} : resp = Response("ok", cause.n, h, b)
    BY <2>1, <2>2, NoCodeIsFound
  <2>3. CASE resp = Response("body", cause.n, NoCode, NoCode)
    BY <2>1, <2>3, NoCodeIsFound DEF NoCode
  <2> QED BY <2>1, <2>2, <2>3 DEF Responses
<1>3. CASE cause = Cause("network", 0)
  BY <1>3 DEF Cause, Responses, NoCode
<1> QED BY <1>1, <1>2, <1>3 DEF Causes

\* What is left of a response is a status, or one of the two signs.
LEMMA RemnantType ==
  ASSUME NEW cause \in Causes, NEW resp \in Responses(cause)
  PROVE  /\ Remnant(resp) \in {Whole, Nothing, 200} \cup Statuses
         /\ Remnant(resp) = Whole <=> resp.net = "ok"
BY ResponseOf, HttpAssumption DEF Whole, Nothing

\* Codes, refusals and lost connections keep their errno on the way.
LEMMA ClassifiedErrno == ASSUME NEW status \in Statuses, NEW header, NEW body PROVE
    LET code == parse_clickhouse_error(header, body)
    IN  /\ code # NoCode => to_errno(classify_error(status, header, body)) = clickhouse_code_to_errno(code)
        /\ code = NoCode => to_errno(classify_error(status, header, body)) = ErrnoOf(Cause("proxy", status))
        /\ ~is_success(status)
<1>1. ~is_success(status)
  BY HttpAssumption DEF is_success
<1> QED BY <1>1 DEF classify_error, to_errno, ErrnoOf, Cause

\* An errno of the list.
LEMMA ErrnoType == \A e : to_errno(e) \in Errnos
BY DEF to_errno, clickhouse_code_to_errno, Errnos

\* The errno of a failed request for a text.
LEMMA TextErrno ==
  ASSUME NEW cause \in Causes, NEW resp \in Responses(cause)
  PROVE  \/ to_errno(query_text(resp)) = ErrnoOf(cause)
         \/ Remnant(resp) # Whole /\ to_errno(query_text(resp)) = "EIO"
<1>1. CASE resp.net # "ok"
  BY <1>1, RemnantType DEF query_text, Transport, to_errno
<1>2. CASE resp.net = "ok"
  BY <1>2, ResponseOf, ClassifiedErrno, CodeIsFound DEF query_text, ErrnoOf, Cause
<1> QED BY <1>1, <1>2

\* The same for a failed stream: a body that is lost leaves the header, or the status.
LEMMA StreamErrno ==
  ASSUME NEW cause \in Causes, NEW resp \in Responses(cause), query_stream_with_id(resp) # Ok
  PROVE  \/ to_errno(query_stream_with_id(resp)) = ErrnoOf(cause)
         \/ Remnant(resp) # Whole /\ to_errno(query_stream_with_id(resp)) = "EIO"
         \/ /\ Remnant(resp) \in Statuses
            /\ to_errno(query_stream_with_id(resp)) = ErrnoOf(Cause("proxy", Remnant(resp)))
<1>1. CASE resp.net = "send"
  BY <1>1, RemnantType DEF query_stream_with_id, Transport, to_errno
<1>2. CASE cause.kind = "network" /\ resp.net # "send"
  BY <1>2, ResponseOf DEF query_stream_with_id, is_success
<1>3. CASE cause.kind # "network" /\ resp.net # "send"
  BY <1>3, ResponseOf, ClassifiedErrno, CodeIsFound DEF query_stream_with_id, ErrnoOf, Cause
<1> QED BY <1>1, <1>2, <1>3

\* A query that fails leaves a failure that tells its cause.
LEMMA FailureTells ==
  /\ OpenFailed => ErrnoTellsCause'
  /\ StreamFails => ErrnoTellsCause'
<1>1. ASSUME NEW cause \in Causes, NEW resp \in Responses(cause), NEW e,
             e \in {query_text(resp), query_stream_with_id(resp)}, Fails(e, cause, resp)
      PROVE  ErrnoTellsCause'
  <2>1. failure'.errno = to_errno(e) /\ failure'.cause = cause /\ failure'.left = Remnant(resp)
    BY <1>1 DEF Fails
  <2>2. e # Ok
    BY <1>1 DEF Fails
  <2>3. \/ to_errno(e) = ErrnoOf(cause)
        \/ Remnant(resp) # Whole /\ to_errno(e) = "EIO"
        \/ Remnant(resp) \in Statuses /\ to_errno(e) = ErrnoOf(Cause("proxy", Remnant(resp)))
    BY <1>1, <2>2, TextErrno, StreamErrno
  <2> QED BY <2>1, <2>3 DEF ErrnoTellsCause
<1>2. CASE failure' = [errno |-> to_errno(Stream), cause |-> Cause("network", 0), left |-> Nothing]
  BY <1>2 DEF ErrnoTellsCause, to_errno, Stream, Whole, Nothing
<1> QED BY <1>1, <1>2 DEF OpenFailed, StreamFails

\* The errno a process gets for a failed query is the one of the reason it failed
\* for, for every exception code and HTTP status. A response that is lost reads as
\* EIO, or as the refusal its status stands for when the header has no code either.
THEOREM ErrnoIsTold == Spec => []ErrnoTellsCause
<1>1. Init => ErrnoTellsCause
  BY DEF Init, ErrnoTellsCause
<1>2. ErrnoTellsCause /\ [Next]_vars => ErrnoTellsCause'
  <2> SUFFICES ASSUME ErrnoTellsCause, [Next]_vars PROVE ErrnoTellsCause'
    OBVIOUS
  <2>1. CASE UNCHANGED failure
    BY <2>1 DEF ErrnoTellsCause
  <2>2. CASE failure' = NoFailure
    BY <2>2 DEF ErrnoTellsCause
  <2>3. CASE OpenFailed \/ StreamFails
    BY <2>3, FailureTells
  <2>4. Dispatcher => UNCHANGED failure \/ failure' = NoFailure \/ OpenFailed \/ StreamFails
    <3>1. Take \/ (\E h \in releases : TakeRelease(h)) => failure' = NoFailure
      BY DEF Take, TakeRelease
    <3>2. OpenStart \/ (\E q \in SubQueries : SubQuery(q)) \/ Render \/ OrderExpr \/ Insert => UNCHANGED failure
      BY DEF OpenStart, SubQuery, Render, OrderExpr, Insert, Opened
    <3>3. Describe => UNCHANGED failure \/ OpenFailed
      BY DEF Describe
    <3>4. ReadSpecial \/ Release => UNCHANGED failure
      BY DEF ReadSpecial, Release
    <3>5. ReadStream => UNCHANGED failure \/ StreamFails
      BY DEF ReadStream
    <3> QED BY <3>1, <3>2, <3>3, <3>4, <3>5 DEF Dispatcher
  <2>5. Alter \/ (\E p \in Procs, f \in Files : SysOpen(p, f))
          \/ (\E p \in Procs, off \in Offsets, size \in Sizes : SysRead(p, off, size))
          \/ (\E p \in Procs : SysClose(p)) \/ Done \/ UNCHANGED vars => UNCHANGED failure
    BY DEF Alter, SysOpen, SysRead, SysClose, Done, vars
  <2> QED BY <2>1, <2>2, <2>3, <2>4, <2>5 DEF Next
<1> QED BY <1>1, <1>2, PTL DEF Spec

-----------------------------------------------------------------------------
(* The text of README.md (Readme).                                          *)

LineOf == [of : SubQueries, ver : Versions \cup {Unavailable, None}]

\* The answer of q is not in the text: it failed, or the count its section needs.
LostIn(a, q) == a[q] = Failed \/ (q = "stats" /\ a["count"] = Failed)

\* Answers that the sub-queries give.
Complete(a) ==
  \A q \in SubQueries : /\ a[q] \in Versions \cup {Failed, Empty, Malformed}
                        /\ a[q] = Empty => q \in {"stats", "columns", "sample"}
                        /\ a[q] = Malformed => q \in {"stats", "columns"}

\* A line shows v for q. A failed count shows in the line of the stats.
Shows(s, q, v) == \E i \in 1..Len(s) : s[i].of = q /\ s[i].ver = v
Place(q) == IF q = "count" THEN "stats" ELSE q

\* What the lines s owe to the answer to q.
Owed(a, s, q) == /\ a[q] = Failed => Shows(s, Place(q), Unavailable)
                 /\ a[q] \in Versions /\ ~LostIn(a, q) => Shows(s, q, a[q])

\* The lines s, at most n, tell the truth of the answers a, and all of those to Q.
Tells(a, s, Q, n) ==
  /\ s \in Seq(LineOf) /\ Len(s) <= n
  /\ \A i \in 1..Len(s) : /\ s[i].ver \in Versions => s[i].ver = a[s[i].of]
                          /\ s[i].ver = Unavailable => LostIn(a, s[i].of)
  /\ \A q \in Q \cap SubQueries : Owed(a, s, q)

\* Sections one after the other tell what each tells.
LEMMA TellsConcat ==
  ASSUME NEW a, NEW s, NEW t, NEW Q, NEW R, NEW m \in Nat, NEW n \in Nat,
         Tells(a, s, Q, m), Tells(a, t, R, n)
  PROVE  Tells(a, s \o t, Q \cup R, m + n)
<1> DEFINE u == s \o t
<1>1. s \in Seq(LineOf) /\ t \in Seq(LineOf)
  BY DEF Tells
<1>2. /\ u \in Seq(LineOf) /\ Len(u) = Len(s) + Len(t)
      /\ \A i \in 1..Len(s) + Len(t) : u[i] = IF i <= Len(s) THEN s[i] ELSE t[i - Len(s)]
      /\ Len(s) \in Nat /\ Len(t) \in Nat
  BY <1>1, ConcatProperties, LenProperties
<1> HIDE DEF u
<1>3. Len(u) <= m + n
  BY <1>2 DEF Tells
<1>4. ASSUME NEW i \in 1..Len(u)
      PROVE  \/ \E j \in 1..Len(s) : u[i] = s[j]
             \/ \E j \in 1..Len(t) : u[i] = t[j]
  <2>1. CASE i <= Len(s)
    BY <1>2, <2>1
  <2>2. CASE i > Len(s)
    <3>1. i - Len(s) \in 1..Len(t)
      BY <1>2, <2>2
    <3> QED BY <1>2, <2>2, <3>1
  <2> QED BY <1>2, <2>1, <2>2
<1>5. ASSUME NEW j \in 1..Len(s) PROVE \E i \in 1..Len(u) : u[i] = s[j]
  BY <1>2
<1>6. ASSUME NEW j \in 1..Len(t) PROVE \E i \in 1..Len(u) : u[i] = t[j]
  <2>1. j + Len(s) \in 1..Len(u) /\ ~(j + Len(s) <= Len(s)) /\ j + Len(s) - Len(s) = j
    BY <1>2
  <2>2. u[j + Len(s)] = t[j]
    BY <1>2, <2>1
  <2> QED BY <2>1, <2>2
<1>7. \A i \in 1..Len(u) : /\ u[i].ver \in Versions => u[i].ver = a[u[i].of]
                           /\ u[i].ver = Unavailable => LostIn(a, u[i].of)
  <2> DEFINE Told(v) == /\ v.ver \in Versions => v.ver = a[v.of]
                        /\ v.ver = Unavailable => LostIn(a, v.of)
  <2>1. (\A j \in 1..Len(s) : Told(s[j])) /\ (\A j \in 1..Len(t) : Told(t[j]))
    BY DEF Tells
  <2> HIDE DEF Told
  <2>2. \A i \in 1..Len(u) : Told(u[i])
    BY <1>4, <2>1
  <2> QED BY <2>2 DEF Told
<1>8. \A q \in (Q \cup R) \cap SubQueries : Owed(a, u, q)
  <2>1. \A q, v : Shows(s, q, v) \/ Shows(t, q, v) => Shows(u, q, v)
    <3>1. ASSUME NEW q, NEW v, Shows(s, q, v) PROVE Shows(u, q, v)
      BY <1>5, <3>1 DEF Shows
    <3>2. ASSUME NEW q, NEW v, Shows(t, q, v) PROVE Shows(u, q, v)
      BY <1>6, <3>2 DEF Shows
    <3> QED BY <3>1, <3>2
  <2> QED BY <2>1 DEF Tells, Owed
<1>9. Tells(a, u, Q \cup R, m + n)
  BY <1>2, <1>3, <1>7, <1>8 DEF Tells
<1> QED BY <1>9 DEF u

\* A section of one line.
LEMMA OneLine ==
  ASSUME NEW a, NEW q \in SubQueries, NEW v \in Versions \cup {Unavailable, None},
         v \in Versions => v = a[q],
         v = Unavailable => LostIn(a, q),
         a[q] = Failed => v = Unavailable /\ q # "count",
         a[q] \in Versions /\ ~LostIn(a, q) => v = a[q]
  PROVE  Tells(a, <<Line(q, v)>>, {q}, 1)
<1>1. Line(q, v) \in LineOf /\ Line(q, v).of = q /\ Line(q, v).ver = v
  BY DEF Line, LineOf
<1> DEFINE l == Line(q, v)
<1> HIDE DEF l
<1>2. <<l>> \in Seq(LineOf) /\ Len(<<l>>) = 1 /\ <<l>>[1] = l
  BY <1>1 DEF l
<1>3. Shows(<<l>>, q, v)
  BY <1>1, <1>2 DEF Shows, l
<1> QED BY <1>1, <1>2, <1>3 DEF Tells, Owed, Place, l

\* A section that has nothing to tell.
LEMMA NoLine == ASSUME NEW a, NEW Q, NEW n \in Nat,
                       \A q \in Q \cap SubQueries : a[q] \notin Versions \cup {Failed}
                PROVE  Tells(a, <<>>, Q, n)
<1>1. <<>> \in Seq(LineOf) /\ Len(<<>>) = 0
  OBVIOUS
<1> QED BY <1>1 DEF Tells, Owed

\* render tells every answer that can be told, and nothing else, in five lines.
LEMMA RenderTells ==
  ASSUME NEW a, Complete(a) PROVE Tells(a, render(a), SubQueries, 5)
<1> USE DEF Pending, Failed, Empty, Malformed, Unavailable, None
<1>1. \A v \in Versions : v \in Nat
  BY ClickFsAssumption DEF Versions
<1>2. "stats" \in SubQueries /\ "count" \in SubQueries
  BY ReadmeAssumption
<1>3. Tells(a, StatsSection(a), {"stats", "count"}, 2)
  <2>1. a["count"] \in Versions \cup {Failed} /\ a["stats"] \in Versions \cup {Failed, Empty, Malformed}
    BY <1>2 DEF Complete
  <2>2. CASE a["count"] = Failed
    <3>1. Tells(a, <<Line("stats", Unavailable)>>, {"stats"}, 1)
      BY <1>1, <1>2, <2>2, OneLine DEF LostIn
    <3> DEFINE l == Line("stats", Unavailable)
    <3>2. l.of = "stats" /\ l.ver = Unavailable /\ StatsSection(a) = <<l>>
      BY <2>2 DEF Line, StatsSection
    <3> HIDE DEF l
    <3>3. Shows(<<l>>, "stats", Unavailable)
      BY <3>2 DEF Shows
    <3>4. \A q \in {"stats", "count"} : Owed(a, <<l>>, q)
      BY <2>2, <3>3, <1>1 DEF Owed, Place, LostIn
    <3>5. Tells(a, <<l>>, {"stats"}, 1)
      BY <3>1 DEF l
    <3> QED BY <3>2, <3>4, <3>5 DEF Tells
  <2>3. CASE a["count"] # Failed
    <3>1. a["count"] \in Versions
      BY <2>1, <2>3
    <3>2. Tells(a, <<Line("count", a["count"])>>, {"count"}, 1)
      BY <1>1, <1>2, <3>1, OneLine
    <3>3. CASE a["stats"] \in {Failed} \cup {Empty} \cup Versions
      <4> DEFINE w == IF a["stats"] = Failed THEN Unavailable ELSE IF a["stats"] = Empty THEN None ELSE a["stats"]
      <4>1. StatsSection(a) = <<Line("count", a["count"])>> \o <<Line("stats", w)>>
        <5>1. <<Line("count", a["count"]), Line("stats", w)>> = <<Line("count", a["count"])>> \o <<Line("stats", w)>>
          OBVIOUS
        <5> QED BY <5>1, <2>3, <3>3, <1>1 DEF StatsSection, render_stats
      <4>2. w \in Versions \cup {Unavailable, None} /\ (w \in Versions => w = a["stats"])
        BY <3>3, <1>1
      <4>3. /\ w = Unavailable => LostIn(a, "stats")
            /\ a["stats"] = Failed => w = Unavailable
            /\ a["stats"] \in Versions => w = a["stats"]
        BY <3>3, <1>1 DEF LostIn
      <4> HIDE DEF w
      <4>4. Tells(a, <<Line("stats", w)>>, {"stats"}, 1)
        BY <1>2, <4>2, <4>3, OneLine
      <4>5. Tells(a, StatsSection(a), {"count"} \cup {"stats"}, 1 + 1)
        BY <3>2, <4>1, <4>4, TellsConcat
      <4>6. {"count"} \cup {"stats"} = {"stats", "count"} /\ 1 + 1 = 2
        OBVIOUS
      <4> QED BY <4>5, <4>6
    <3>4. CASE a["stats"] = Malformed
      <4>1. StatsSection(a) = <<Line("count", a["count"])>> \o <<>>
        BY <2>3, <3>4 DEF StatsSection, render_stats
      <4>2. Tells(a, <<>>, {"stats"}, 1)
        <5>1. \A q \in {"stats"} \cap SubQueries : a[q] \notin Versions \cup {Failed}
          BY <3>4, <1>1
        <5> QED BY <5>1, NoLine
      <4>3. Tells(a, StatsSection(a), {"count"} \cup {"stats"}, 1 + 1)
        <5> DEFINE none == <<>>
        <5>1. StatsSection(a) = <<Line("count", a["count"])>> \o none /\ Tells(a, none, {"stats"}, 1)
          BY <4>1, <4>2
        <5> HIDE DEF none
        <5> QED BY <3>2, <5>1, TellsConcat
      <4>4. {"count"} \cup {"stats"} = {"stats", "count"} /\ 1 + 1 = 2
        OBVIOUS
      <4> QED BY <4>3, <4>4
    <3> QED BY <2>1, <3>3, <3>4
  <2> QED BY <2>2, <2>3
<1>4. ASSUME NEW q \in {"schema", "columns", "sample"}
      PROVE  Tells(a, SectionOf(q, a), {q}, 1)
  <2>1. CASE q \notin SubQueries
    <3>1. SectionOf(q, a) = <<>>
      BY <2>1 DEF SectionOf
    <3> QED BY <2>1, <3>1, NoLine
  <2>2. CASE q \in SubQueries
    <3> DEFINE w == IF a[q] = Failed THEN Unavailable ELSE IF a[q] \in {Empty, Malformed} THEN None ELSE a[q]
    <3>1. SectionOf(q, a) = <<Line(q, w)>>
      BY <2>2 DEF SectionOf, Section
    <3>2. a[q] \in Versions \cup {Failed, Empty, Malformed}
      BY <2>2 DEF Complete
    <3>3. w \in Versions \cup {Unavailable, None} /\ (w \in Versions => w = a[q])
      BY <3>2, <1>1
    <3>4. /\ w = Unavailable => LostIn(a, q)
          /\ a[q] = Failed => w = Unavailable /\ q # "count"
          /\ a[q] \in Versions => w = a[q]
      BY <3>2, <1>1 DEF LostIn
    <3> HIDE DEF w
    <3> QED BY <2>2, <3>1, <3>3, <3>4, OneLine
  <2> QED BY <2>1, <2>2
<1> DEFINE s1 == StatsSection(a) \o SectionOf("schema", a)
           s2 == s1 \o SectionOf("columns", a)
           s3 == s2 \o SectionOf("sample", a)
<1>5. Tells(a, s1, {"stats", "count"} \cup {"schema"}, 2 + 1)
  BY <1>3, <1>4, TellsConcat
<1>6. Tells(a, s2, ({"stats", "count"} \cup {"schema"}) \cup {"columns"}, (2 + 1) + 1)
  <2> HIDE DEF s1
  <2>1. 2 + 1 \in Nat /\ 1 \in Nat
    OBVIOUS
  <2> QED BY <1>4, <1>5, <2>1, TellsConcat
<1>7. Tells(a, s3, (({"stats", "count"} \cup {"schema"}) \cup {"columns"}) \cup {"sample"}, ((2 + 1) + 1) + 1)
  <2> HIDE DEF s2
  <2>1. (2 + 1) + 1 \in Nat /\ 1 \in Nat
    OBVIOUS
  <2> QED BY <1>4, <1>6, <2>1, TellsConcat
<1>8. s3 = render(a)
  BY DEF render
<1> HIDE DEF s3
<1>9. Tells(a, s3, SubQueries, 5)
  <2>1. SubQueries \subseteq (({"stats", "count"} \cup {"schema"}) \cup {"columns"}) \cup {"sample"}
    BY ReadmeAssumption
  <2>2. ((2 + 1) + 1) + 1 = 5
    OBVIOUS
  <2> QED BY <1>7, <2>1, <2>2 DEF Tells
<1> QED BY <1>8, <1>9

-----------------------------------------------------------------------------
(* The inductive invariant.                                                 *)

\* What t tells is the file f from offset off on; .schema in one version, and
\* nothing older than since.
Reads(t, f, off, since) ==
  \A i \in 1..Len(t) :
    /\ t[i].file = f /\ t[i].at = off + i
    /\ f = SchemaFile => t[i].ver = t[1].ver
    /\ f # StreamFile /\ t[i].ver \in Versions => t[i].ver >= since

Texts    == {t \in Seq(Byte) : IsText(t)}
Process  == [st : {"closed", "waiting", "open"}, file : Files, fh : 0..MaxFh, direct : {TRUE},
             since : Versions, off : Nat, res : Errnos \cup {"none", "data"}, bytes : Texts]
Request  == [op : {"open", "read"}, proc : Procs, fh : 0..MaxFh, off : Nat, size : Nat]
Handle   == [kind : {"none", "special", "stream"}, file : Files, bytes : Texts, pos : 0..MaxPos]
Answered == Versions \cup {Pending, Failed, Empty, Malformed}
Failures == [errno : Errnos \cup {"none"}, cause : Causes \cup {NoCause},
             left : {Whole, Nothing, 200} \cup Statuses]

Types ==
  /\ version \in Versions
  /\ proc \in [Procs -> Process]
  /\ queue \in Seq(Request)
  /\ releases \in SUBSET (1..MaxFh) /\ streams \in SUBSET (1..MaxFh)
  /\ pc \in {"idle", "open", "describe", "render", "order", "insert", "read", "release"}
  /\ fh_id \in 0..MaxFh /\ fh_counter \in Nat \ {0}
  /\ handles \in [1..MaxFh -> Handle]
  /\ text \in Texts /\ parts \in [SubQueries -> Answered]
  /\ failure \in Failures

\* No handle is given out past the bound.
Waiting(q) == {i \in 1..Len(q) : q[i].op = "open"}
Bound == Opens <= MaxFh

\* A request in flight is the one its process waits for.
Asked(q) ==
  /\ proc[q.proc].st = "waiting" /\ proc[q.proc].res = "none" /\ proc[q.proc].bytes = <<>>
  /\ q.op = "open" => proc[q.proc].fh = NoFh
  /\ q.op = "read" => /\ q.fh # NoFh /\ proc[q.proc].fh = q.fh
                      /\ proc[q.proc].off = q.off /\ q.size > 0

Allocated == {"describe", "render", "order", "insert"}  \* open has taken its handle
Serving   == Allocated \cup {"open", "read"}

Requests ==
  /\ \A i \in 1..Len(queue) : Asked(queue[i])
  /\ \A i, j \in 1..Len(queue) : queue[i].proc = queue[j].proc => i = j
  /\ pc \in Serving =>
       /\ cur \in Request /\ Asked(cur)
       /\ cur.op = "read" <=> pc = "read"
       /\ \A i \in 1..Len(queue) : queue[i].proc # cur.proc

\* A handle that a process has is its own, and is neither being released nor
\* allocated; the entry is the one its open made.
Holds(p) ==
  LET h == proc[p].fh
  IN  /\ h \in 1..MaxFh /\ h < fh_counter /\ h \notin releases
      /\ proc[p].st # "closed"
      /\ pc = "release" => h # cur.fh
      /\ pc \in Allocated => h # fh_id
      /\ handles[h].file = proc[p].file
      /\ handles[h].kind = (IF proc[p].file = StreamFile THEN "stream" ELSE "special")
      /\ Reads(handles[h].bytes, proc[p].file, 0, proc[p].since)

Held ==
  /\ \A p \in Procs : proc[p].st = "open" => proc[p].fh # NoFh
  /\ \A p \in Procs : proc[p].fh # NoFh => Holds(p)
  /\ \A p, r \in Procs : proc[p].fh = proc[r].fh /\ proc[p].fh # NoFh => p = r
  /\ \A h \in releases : h < fh_counter /\ (pc \in Allocated => h # fh_id)
  /\ pc = "release" => cur.fh \in 1..MaxFh
  /\ pc \in Allocated => fh_id \in 1..MaxFh /\ fh_id < fh_counter

\* What open has put together so far.
Opening ==
  /\ pc = "describe" => file = SchemaFile
  /\ pc = "render" => file = ReadmeFile
  /\ pc = "order" => file = StreamFile
  /\ pc # "insert" => text = <<>>
  /\ pc = "insert" => Reads(text, file, 0, proc[cur.proc].since)
  /\ pc \notin {"render", "insert"} => parts = NoParts
  /\ pc = "render" => \A q \in SubQueries :
       /\ parts[q] \in Versions => parts[q] >= proc[cur.proc].since
       /\ parts[q] = Empty => q \in {"stats", "columns", "sample"}
       /\ parts[q] = Malformed => q \in {"stats", "columns"}

\* What processes have read.
Got == \A p \in Procs :
  /\ proc[p].since <= version
  /\ Reads(proc[p].bytes, proc[p].file, proc[p].off, proc[p].since)

Inv ==
  /\ Types /\ Bound /\ Requests /\ Held /\ Opening /\ Got
  /\ FailuresStayLocal /\ NoOrphanStreams

-----------------------------------------------------------------------------
(* Texts.                                                                   *)

\* The empty text tells nothing wrong.
LEMMA EmptyText == <<>> \in Texts /\ \A f, off, since : Reads(<<>>, f, off, since)
<1>1. <<>> \in Seq(Byte) /\ Len(<<>>) = 0
  OBVIOUS
<1>2. MaxLen \in Nat
  BY ClickFsAssumption DEF MaxLen, SchemaLen
<1> QED BY <1>1, <1>2 DEF Texts, IsText, Reads

\* A text put together byte by byte.
LEMMA TextOf ==
  ASSUME NEW t, NEW n \in Nat, n <= MaxLen, t \in [1..n -> Byte],
         \A i \in 1..n : t[i].file = SchemaFile => t[i].at <= SchemaLen(t[i].ver)
  PROVE  t \in Texts /\ Len(t) = n
<1>1. t \in Seq(Byte) /\ Len(t) = n
  BY IsASeq
<1> QED BY <1>1 DEF Texts, IsText

\* A byte and its fields.
LEMMA ByteOf ==
  ASSUME NEW f \in Files, NEW of \in SubQueries \cup {"schema", "rows"},
         NEW v \in Versions \cup {Unavailable, None}, NEW i \in 1..MaxLen
  PROVE  LET b == [file |-> f, of |-> of, ver |-> v, at |-> i]
         IN  b \in Byte /\ b.file = f /\ b.of = of /\ b.ver = v /\ b.at = i
BY DEF Byte

\* What a slice of a text tells, and when it is empty.
LEMMA SliceTells ==
  ASSUME NEW t \in Texts, NEW off \in Nat, NEW size \in Nat, size > 0,
         NEW f, NEW since, Reads(t, f, 0, since)
  PROVE  /\ Slice(t, off, size) \in Texts
         /\ Reads(Slice(t, off, size), f, off, since)
         /\ Slice(t, off, size) = <<>> => off >= Len(t)
<1>1. t \in Seq(Byte) /\ Len(t) \in Nat /\ Len(t) <= MaxLen
  BY LenProperties DEF Texts, IsText
<1>2. CASE off >= Len(t)
  BY <1>2, EmptyText DEF Slice
<1>3. CASE ~(off >= Len(t))
  <2> DEFINE end == IF off + size < Len(t) THEN off + size ELSE Len(t)
             s == SubSeq(t, off + 1, end)
  <2>1. end \in off + 1..Len(t) /\ off + 1 \in Int /\ end \in Int
    BY <1>1, <1>3
  <2>2. s = Slice(t, off, size)
    BY <1>3 DEF Slice
  <2> HIDE DEF end
  <2>3. \A i \in off + 1..end : i \in 1..Len(t) /\ t[i] \in Byte
    <3>1. \A i \in 1..Len(t) : t[i] \in Byte
      BY <1>1, ElementOfSeq
    <3> QED BY <1>1, <2>1, <3>1
  <2>4. /\ s \in Seq(Byte)
        /\ Len(s) = IF off + 1 <= end THEN end - (off + 1) + 1 ELSE 0
        /\ \A i \in 1..end - (off + 1) + 1 : s[i] = t[(off + 1) + i - 1]
    BY <2>1, <2>3, SubSeqProperties
  <2> HIDE DEF s
  <2>5. Len(s) = end - off /\ Len(s) > 0 /\ Len(s) <= Len(t) /\ Len(s) \in Nat
    BY <1>1, <2>1, <2>4
  <2>6. \A i \in 1..Len(s) : i + off \in 1..Len(t) /\ s[i] = t[i + off]
    <3>1. \A i \in 1..Len(s) : /\ i + off \in 1..Len(t) /\ i \in 1..end - (off + 1) + 1
                               /\ (off + 1) + i - 1 = i + off
      BY <1>1, <2>1, <2>5
    <3> QED BY <2>4, <3>1
  <2>7. IsText(s)
    <3>1. Len(s) <= MaxLen
      <4>1. MaxLen \in Nat
        BY ClickFsAssumption DEF MaxLen, SchemaLen
      <4> QED BY <1>1, <2>5, <4>1
    <3>2. \A i \in 1..Len(t) : t[i] \in Byte /\ (t[i].file = SchemaFile => t[i].at <= SchemaLen(t[i].ver))
      BY DEF Texts, IsText
    <3> QED BY <2>6, <3>1, <3>2 DEF IsText
  <2>8. Reads(s, f, off, since)
    <3>1. 1 \in 1..Len(s)
      BY <2>5
    <3>2. ASSUME NEW i \in 1..Len(s)
          PROVE  /\ s[i].file = f /\ s[i].at = off + i
                 /\ f = SchemaFile => s[i].ver = t[1].ver
                 /\ f # StreamFile /\ s[i].ver \in Versions => s[i].ver >= since
      <4>1. 0 + (i + off) = off + i
        BY <2>5
      <4> QED BY <2>6, <4>1 DEF Reads
    <3> QED BY <3>1, <3>2 DEF Reads
  <2>9. s # <<>>
    BY <2>5
  <2> QED BY <2>2, <2>4, <2>7, <2>8, <2>9 DEF Texts
<1> QED BY <1>2, <1>3

\* The text of DESCRIBE tells the table as it was when it was asked for.
LEMMA SchemaTells ==
  ASSUME NEW v \in Versions, NEW since \in Versions, since <= v
  PROVE  SchemaText(v) \in Texts /\ Reads(SchemaText(v), SchemaFile, 0, since)
<1> DEFINE n == SchemaLen(v)
           t == [i \in 1..n |-> [file |-> SchemaFile, of |-> "schema", ver |-> v, at |-> i]]
<1>1. n \in Nat /\ n <= MaxLen
  BY ClickFsAssumption DEF SchemaLen, MaxLen, Versions
<1>2. t = SchemaText(v)
  BY DEF SchemaText
<1> HIDE DEF n
<1>3. \A i \in 1..n : i \in 1..MaxLen
  BY <1>1, ClickFsAssumption DEF MaxLen, SchemaLen
<1>4. \A i \in 1..n : t[i] \in Byte /\ t[i].file = SchemaFile /\ t[i].ver = v /\ t[i].at = i
  <2>1. SchemaFile \in Files
    BY DEF Files
  <2> QED BY <1>3, <2>1, ByteOf
<1>5. \A i \in 1..n : t[i].at <= SchemaLen(t[i].ver)
  BY <1>1, <1>4 DEF n
<1>6. t \in [1..n -> Byte]
  BY <1>4
<1> HIDE DEF t
<1>7. t \in Texts /\ Len(t) = n
  BY <1>1, <1>5, <1>6, TextOf
<1>8. Reads(t, SchemaFile, 0, since)
  <2>1. \A i \in 1..n : 0 + i = i /\ 1 \in 1..n /\ v >= since
    BY <1>1, ClickFsAssumption DEF Versions
  <2> QED BY <1>4, <1>7, <2>1 DEF Reads
<1> QED BY <1>2, <1>7, <1>8

\* The bytes of a stream are those at its cursor.
LEMMA StreamTells ==
  ASSUME NEW off \in Nat, NEW n \in Nat, off + n <= MaxPos, NEW since
  PROVE  StreamBytes(off, n) \in Texts /\ Reads(StreamBytes(off, n), StreamFile, off, since)
<1> DEFINE t == [i \in 1..n |-> [file |-> StreamFile, of |-> "rows", ver |-> 0, at |-> off + i]]
<1>1. t = StreamBytes(off, n)
  BY DEF StreamBytes, StreamByte
<1>2. n <= MaxLen /\ \A i \in 1..n : off + i \in 1..MaxLen
  BY ClickFsAssumption DEF MaxLen, SchemaLen
<1>3. \A i \in 1..n : t[i] \in Byte /\ t[i].file = StreamFile /\ t[i].at = off + i
  <2>1. StreamFile \in Files /\ 0 \in Versions
    BY ClickFsAssumption DEF Files, Versions
  <2> QED BY <1>2, <2>1, ByteOf
<1>4. t \in [1..n -> Byte]
  BY <1>3
<1> HIDE DEF t
<1>5. StreamFile # SchemaFile
  BY ClickFsAssumption
<1>6. t \in Texts /\ Len(t) = n
  BY <1>2, <1>3, <1>4, <1>5, TextOf
<1>7. Reads(t, StreamFile, off, since)
  BY <1>3, <1>5, <1>6 DEF Reads
<1> QED BY <1>1, <1>6, <1>7

\* That text is README.md, no older than its answers, and shows each of them.
LEMMA ReadmeTells ==
  ASSUME NEW a, Complete(a),
         NEW since \in Versions, \A q \in SubQueries : a[q] \in Versions => a[q] >= since
  PROVE  /\ ReadmeText(a) \in Texts /\ Reads(ReadmeText(a), ReadmeFile, 0, since)
         /\ \A q \in SubQueries : Owed(a, ReadmeText(a), q)
         /\ \A i \in 1..Len(ReadmeText(a)) :
              ReadmeText(a)[i].ver = Unavailable => LostIn(a, ReadmeText(a)[i].of)
<1> DEFINE lines == render(a)
           n == Len(lines)
           t == [i \in 1..n |-> [file |-> ReadmeFile, of |-> lines[i].of, ver |-> lines[i].ver, at |-> i]]
<1>1. t = ReadmeText(a)
  BY DEF ReadmeText
<1>2. Tells(a, lines, SubQueries, 5)
  BY RenderTells
<1> HIDE DEF lines
<1>3. lines \in Seq(LineOf) /\ n \in Nat /\ n <= 5
  BY <1>2, LenProperties DEF Tells
<1>4. \A i \in 1..n : lines[i] \in LineOf
  BY <1>3, ElementOfSeq
<1>5. \A i \in 1..n : lines[i].of \in SubQueries /\ lines[i].ver \in Versions \cup {Unavailable, None}
  BY <1>4 DEF LineOf
<1>6. n <= MaxLen /\ \A i \in 1..n : i \in 1..MaxLen
  BY <1>3, ClickFsAssumption DEF MaxLen, SchemaLen
<1>7. \A i \in 1..n : /\ t[i] \in Byte /\ t[i].file = ReadmeFile /\ t[i].at = i
                      /\ t[i].of = lines[i].of /\ t[i].ver = lines[i].ver
  <2>1. ReadmeFile \in Files
    BY DEF Files
  <2> HIDE DEF n
  <2> QED BY <1>5, <1>6, <2>1, ByteOf
<1>8. t \in [1..n -> Byte]
  BY <1>7
<1> HIDE DEF t
<1>9. ReadmeFile # SchemaFile
  BY ClickFsAssumption
<1>10. t \in Texts /\ Len(t) = n
  BY <1>3, <1>6, <1>7, <1>8, <1>9, TextOf
<1>11. Reads(t, ReadmeFile, 0, since)
  <2>1. \A i \in 1..n : lines[i].ver \in Versions => lines[i].ver >= since
    BY <1>2, <1>5 DEF Tells
  <2>2. \A i \in 1..n : 0 + i = i
    BY <1>3
  <2> QED BY <1>7, <1>9, <1>10, <2>1, <2>2 DEF Reads
<1>12. \A q \in SubQueries : Owed(a, t, q)
  <2>1. \A q \in SubQueries : Owed(a, lines, q)
    BY <1>2 DEF Tells
  <2>2. \A q, v : Shows(lines, q, v) => Shows(t, q, v)
    BY <1>7, <1>10 DEF Shows
  <2> QED BY <2>1, <2>2 DEF Owed
<1>13. \A i \in 1..Len(t) : t[i].ver = Unavailable => LostIn(a, t[i].of)
  BY <1>2, <1>7, <1>10 DEF Tells
<1> QED BY <1>1, <1>10, <1>11, <1>12, <1>13

-----------------------------------------------------------------------------
(* Opens that wait in the queue.                                            *)

\* The opens in a queue can be counted.
LEMMA WaitingIsFinite ==
  ASSUME NEW q \in Seq(Request)
  PROVE  IsFiniteSet(Waiting(q)) /\ Cardinality(Waiting(q)) \in Nat
<1>1. Len(q) \in Nat
  BY LenProperties
<1>2. IsFiniteSet(1..Len(q)) /\ Waiting(q) \subseteq 1..Len(q)
  BY <1>1, FS_Interval DEF Waiting
<1>3. IsFiniteSet(Waiting(q))
  BY <1>2, FS_Subset
<1> QED BY <1>3, FS_CardinalityType

\* A request that is queued counts if it is an open.
LEMMA WaitingAppend ==
  ASSUME NEW q \in Seq(Request), NEW r \in Request
  PROVE  Cardinality(Waiting(Append(q, r))) =
           Cardinality(Waiting(q)) + (IF r.op = "open" THEN 1 ELSE 0)
<1> DEFINE a == Append(q, r)
           n == Len(q)
<1>1. /\ n \in Nat /\ Len(a) = n + 1 /\ a[n + 1] = r
      /\ \A i \in 1..n : a[i] = q[i]
  BY AppendProperties, LenProperties
<1> HIDE DEF a
<1>2. CASE r.op = "open"
  <2>1. Waiting(a) = Waiting(q) \cup {n + 1}
    BY <1>1, <1>2 DEF Waiting
  <2>2. n + 1 \notin Waiting(q)
    BY <1>1 DEF Waiting
  <2>3. Cardinality(Waiting(a)) = Cardinality(Waiting(q)) + 1
    BY <2>1, <2>2, WaitingIsFinite, FS_AddElement
  <2> QED BY <1>2, <2>3 DEF a
<1>3. CASE r.op # "open"
  <2>1. Waiting(a) = Waiting(q)
    BY <1>1, <1>3 DEF Waiting
  <2> QED BY <1>3, <2>1, WaitingIsFinite DEF a
<1> QED BY <1>2, <1>3

\* A request that is taken no longer counts.
LEMMA WaitingTail ==
  ASSUME NEW q \in Seq(Request), q # <<>>
  PROVE  Cardinality(Waiting(q)) =
           Cardinality(Waiting(Tail(q))) + (IF Head(q).op = "open" THEN 1 ELSE 0)
<1> DEFINE t == Tail(q)
           n == Len(q)
<1>1. /\ n \in Nat /\ n > 0 /\ Head(q) = q[1]
      /\ t \in Seq(Request) /\ Len(t) = n - 1
      /\ \A i \in 1..Len(t) : t[i] = q[i + 1]
  BY HeadTailProperties, EmptySeq
<1> HIDE DEF t
<1> DEFINE f == [i \in Waiting(t) |-> i + 1]
           R == Waiting(q) \ {1}
<1>2. \A i \in Waiting(t) : i \in Nat /\ i + 1 \in R
  BY <1>1 DEF Waiting
<1>3. \A j \in R : j \in Int /\ j - 1 \in Waiting(t) /\ (j - 1) + 1 = j
  <2>1. \A j \in R : j \in 1..n /\ j # 1 /\ q[j].op = "open"
    BY DEF Waiting
  <2>2. \A j \in R : j \in Int /\ j - 1 \in 1..Len(t) /\ (j - 1) + 1 = j
    BY <1>1, <2>1
  <2>3. \A j \in R : t[j - 1] = q[j]
    BY <1>1, <2>2
  <2> QED BY <2>1, <2>2, <2>3 DEF Waiting
<1>4. f \in Bijection(Waiting(t), R)
  <2>1. f \in [Waiting(t) -> R]
    BY <1>2
  <2>2. \A i, j \in Waiting(t) : f[i] = f[j] => i = j
    BY <1>2
  <2>3. \A j \in R : \E i \in Waiting(t) : f[i] = j
    BY <1>3
  <2> QED BY <2>1, <2>2, <2>3 DEF Bijection, Injection, Surjection, IsInjective
<1>5. Cardinality(R) = Cardinality(Waiting(t)) /\ IsFiniteSet(R)
  BY <1>1, <1>4, WaitingIsFinite, FS_Bijection DEF ExistsBijection
<1>6. 1 \in Waiting(q) <=> Head(q).op = "open"
  BY <1>1 DEF Waiting
<1>7. Cardinality(R) = IF 1 \in Waiting(q) THEN Cardinality(Waiting(q)) - 1 ELSE Cardinality(Waiting(q))
  BY WaitingIsFinite, FS_RemoveElement
<1> HIDE DEF R, f
<1> QED BY <1>1, <1>5, <1>6, <1>7, WaitingIsFinite DEF t

\* Opens counts the handles given out and the opens under way.
LEMMA OpensOf == Opens = fh_counter - 1 + Cardinality(Waiting(queue)) + (IF pc = "open" THEN 1 ELSE 0)
BY DEF Opens, Waiting

-----------------------------------------------------------------------------
(* The steps.                                                               *)

\* The invariant holds of a mount that was just made.
LEMMA InitInv == Init => Inv
<1> SUFFICES ASSUME Init PROVE Inv
  OBVIOUS
<1> USE ClickFsAssumption DEF Init
<1>1. 0 \in Versions /\ SchemaFile \in Files
  BY DEF Versions, Files
<1>2. NoProc \in Process
  BY <1>1, EmptyText DEF NoProc, Process, NoFh
<1>3. NoHandle \in Handle
  BY <1>1, EmptyText DEF NoHandle, Handle
<1>4. queue \in Seq(Request) /\ Len(queue) = 0
  OBVIOUS
<1>5. NoFailure \in Failures
  BY DEF NoFailure, Failures
<1>6. Types
  BY <1>1, <1>2, <1>3, <1>4, <1>5, EmptyText DEF Types, NoFh, NoParts, Answered
<1>7. Bound
  <2>1. Waiting(queue) = {}
    BY <1>4 DEF Waiting
  <2>2. Cardinality(Waiting(queue)) = 0
    BY <2>1, FS_EmptySet
  <2> QED BY <2>2, OpensOf DEF Bound
<1>8. Requests
  BY <1>4 DEF Requests, Serving, Allocated
<1>9. Held
  BY DEF Held, Allocated, NoProc, NoFh
<1>10. Opening
  BY DEF Opening
<1>11. Got
  BY EmptyText DEF Got, NoProc
<1>12. FailuresStayLocal /\ NoOrphanStreams
  BY DEF FailuresStayLocal, NoOrphanStreams, NoProc
<1> QED BY <1>6, <1>7, <1>8, <1>9, <1>10, <1>11, <1>12 DEF Inv

\* Fields of well-formed records.
LEMMA ProcessFields == ASSUME NEW r \in Process PROVE
    /\ r.st \in {"closed", "waiting", "open"} /\ r.file \in Files /\ r.fh \in 0..MaxFh /\ r.direct = TRUE
    /\ r.since \in Versions /\ r.since \in Nat /\ r.off \in Nat
    /\ r.res \in Errnos \cup {"none", "data"} /\ r.bytes \in Texts
<1>1. /\ r.st \in {"closed", "waiting", "open"} /\ r.file \in Files /\ r.fh \in 0..MaxFh /\ r.direct = TRUE
      /\ r.since \in Versions /\ r.off \in Nat
  BY Zenon DEF Process
<1>2. r.res \in Errnos \cup {"none", "data"} /\ r.bytes \in Texts
  BY DEF Process
<1>3. \A v \in Versions : v \in Nat
  BY ClickFsAssumption DEF Versions
<1> QED BY <1>1, <1>2, <1>3

\* A process put together from its fields.
LEMMA ProcessOf ==
  ASSUME NEW st \in {"closed", "waiting", "open"}, NEW f \in Files, NEW fh \in 0..MaxFh,
         NEW since \in Versions, NEW off \in Nat, NEW res \in Errnos \cup {"none", "data"}, NEW bytes \in Texts
  PROVE  [st |-> st, file |-> f, fh |-> fh, direct |-> TRUE,
          since |-> since, off |-> off, res |-> res, bytes |-> bytes] \in Process
BY DEF Process

\* No handle is numbered 0.
LEMMA NoFhIs == NoFh \in 0..MaxFh /\ NoFh = 0 /\ NoFh \notin 1..MaxFh
BY ClickFsAssumption DEF NoFh

\* Fields of a request.
LEMMA RequestFields == ASSUME NEW r \in Request PROVE
    /\ r.op \in {"open", "read"} /\ r.proc \in Procs /\ r.fh \in 0..MaxFh /\ r.off \in Nat /\ r.size \in Nat
BY DEF Request

\* Fields of an entry of the table of handles.
LEMMA HandleFields == ASSUME NEW r \in Handle PROVE
    /\ r.kind \in {"none", "special", "stream"} /\ r.file \in Files
    /\ r.bytes \in Texts /\ r.pos \in 0..MaxPos
BY DEF Handle

\* Processes and entries are well formed.
LEMMA ProcHandle == Inv =>
  (\A p \in Procs : proc[p] \in Process) /\ (\A h \in 1..MaxFh : handles[h] \in Handle)
BY DEF Inv, Types

\* A closed process is well formed.
LEMMA NoProcIs == NoProc \in Process
<1>1. 0 \in Versions /\ SchemaFile \in Files
  BY ClickFsAssumption DEF Versions, Files
<1> QED BY <1>1, EmptyText, NoFhIs, ProcessOf DEF NoProc

\* What open(2) makes of a process and asks for.
LEMMA OpenRecords == ASSUME NEW f \in Files, NEW v \in Versions, NEW p \in Procs PROVE
    /\ [NoProc EXCEPT !.st = "waiting", !.file = f, !.since = v] \in Process
    /\ [NoRequest EXCEPT !.op = "open", !.proc = p] \in Request
<1>1. [NoProc EXCEPT !.st = "waiting", !.file = f, !.since = v] \in Process
  BY NoProcIs DEF Process
<1>2. [NoRequest EXCEPT !.op = "open", !.proc = p] \in Request
  <2>1. NoRequest \in [op : {"none"}, proc : Procs, fh : 0..MaxFh, off : Nat, size : Nat]
    BY NoFhIs DEF NoRequest
  <2> QED BY <2>1 DEF Request
<1> QED BY <1>1, <1>2

\* A process without a request in flight is none that anything is done for.
LEMMA NotInFlight ==
  ASSUME Inv, NEW p \in Procs, proc[p].st # "waiting"
  PROVE  /\ \A i \in 1..Len(queue) : queue[i].proc # p
         /\ pc \in Serving => cur.proc # p /\ cur.proc \in Procs /\ cur \in Request
BY RequestFields DEF Inv, Requests, Asked

\* Another client alters the table: texts that exist stay as they are.
LEMMA AlterInv == Inv /\ Alter => Inv'
<1> SUFFICES ASSUME Inv, Alter PROVE Inv'
  OBVIOUS
<1> USE DEF Alter
<1>1. version \in Nat /\ version' = version + 1 /\ version' \in Versions
  BY ClickFsAssumption DEF Inv, Types, Versions
<1>2. Types'
  BY <1>1 DEF Inv, Types
<1>3. Bound'
  BY DEF Inv, Bound, Opens
<1>4. Requests'
  BY DEF Inv, Requests, Asked
<1>5. Held'
  BY DEF Inv, Held, Holds
<1>6. Opening'
  BY DEF Inv, Opening, file
<1>7. Got'
  <2>1. \A p \in Procs : proc[p].since \in Int
    <3>1. \A p \in Procs : proc[p] \in Process
      BY ProcHandle
    <3>2. \A p \in Procs : proc[p].since \in Nat
      BY <3>1, ProcessFields
    <3> QED BY <3>2
  <2> QED BY <1>1, <2>1 DEF Inv, Got
<1>8. (FailuresStayLocal /\ NoOrphanStreams)'
  BY DEF Inv, FailuresStayLocal, NoOrphanStreams, file
<1> QED BY <1>2, <1>3, <1>4, <1>5, <1>6, <1>7, <1>8 DEF Inv

\* A process that waits for nothing asks for something.
LEMMA RequestAppended ==
  ASSUME Inv, NEW p \in Procs, proc[p].st # "waiting",
         NEW req \in Request, req.proc = p, queue' = Append(queue, req),
         UNCHANGED <<pc, cur>>, \A r \in Procs : r # p => proc'[r] = proc[r],
         proc'[p].st = "waiting", proc'[p].res = "none", proc'[p].bytes = <<>>,
         req.op = "open" => proc'[p].fh = NoFh,
         req.op = "read" => /\ req.fh # NoFh /\ proc'[p].fh = req.fh
                            /\ proc'[p].off = req.off /\ req.size > 0
  PROVE  /\ queue' \in Seq(Request) /\ Requests'
         /\ fh_counter' = fh_counter => Opens' = Opens + (IF req.op = "open" THEN 1 ELSE 0)
         /\ Opens \in Int
<1>1. PICK n \in Nat : /\ n = Len(queue) /\ Len(queue') = n + 1
                       /\ queue \in Seq(Request) /\ queue' \in Seq(Request)
                       /\ \A i \in 1..n : queue'[i] = queue[i]
                       /\ queue'[n + 1] = req
  BY AppendProperties, LenProperties DEF Inv, Types
<1>2. /\ \A i \in 1..n : queue[i].proc # p
      /\ pc \in Serving => cur.proc # p /\ cur.proc \in Procs
  BY <1>1, NotInFlight
<1>3. \A i \in 1..n : queue[i].proc \in Procs
  BY <1>1, ElementOfSeq, RequestFields
<1>4. \A i \in 1..n + 1 : i \in 1..n \/ i = n + 1
  BY <1>1
<1>5. (\A i \in 1..Len(queue) : Asked(queue[i]))'
  <2>1. \A i \in 1..n : Asked(queue[i])'
    BY <1>1, <1>2, <1>3 DEF Inv, Requests, Asked
  <2>2. Asked(queue[n + 1])'
    BY <1>1 DEF Asked
  <2> QED BY <1>1, <1>4, <2>1, <2>2
<1>6. \A i, j \in 1..Len(queue') : queue'[i].proc = queue'[j].proc => i = j
  <2>1. \A i, j \in 1..n : queue[i].proc = queue[j].proc => i = j
    BY <1>1 DEF Inv, Requests
  <2> QED BY <1>1, <1>2, <1>4, <2>1
<1>7. pc \in Serving => Asked(cur)'
  BY <1>2 DEF Inv, Requests, Asked
<1>8. pc \in Serving => \A i \in 1..Len(queue') : queue'[i].proc # cur.proc
  BY <1>1, <1>2, <1>4 DEF Inv, Requests
<1>9. Requests'
  BY <1>5, <1>6, <1>7, <1>8 DEF Inv, Requests
<1>10. ASSUME fh_counter' = fh_counter PROVE Opens' = Opens + (IF req.op = "open" THEN 1 ELSE 0)
  <2>1. Cardinality(Waiting(queue')) = Cardinality(Waiting(queue)) + (IF req.op = "open" THEN 1 ELSE 0)
    BY <1>1, WaitingAppend
  <2>2. Opens' = fh_counter - 1 + Cardinality(Waiting(queue')) + (IF pc = "open" THEN 1 ELSE 0)
    BY <1>10 DEF Opens, Waiting
  <2> QED BY <2>1, <2>2, <1>1, OpensOf, WaitingIsFinite DEF Inv, Types
<1>11. Opens \in Int
  BY <1>1, OpensOf, WaitingIsFinite DEF Inv, Types
<1> QED BY <1>1, <1>9, <1>10, <1>11

\* open(2): a closed process asks for a file.
LEMMA SysOpenInv == ASSUME Inv, NEW p \in Procs, NEW f \in Files, SysOpen(p, f) PROVE Inv'
<1> DEFINE new == [NoProc EXCEPT !.st = "waiting", !.file = f, !.since = version]
           req == [NoRequest EXCEPT !.op = "open", !.proc = p]
<1>1. /\ proc[p].st = "closed" /\ Opens < MaxFh
      /\ proc' = [proc EXCEPT ![p] = new] /\ queue' = Append(queue, req)
      /\ UNCHANGED <<version, releases, pc, cur, locals, fh_counter, handles, streams, failure>>
  BY DEF SysOpen
<1>2. /\ new.st = "waiting" /\ new.file = f /\ new.since = version /\ new.fh = NoFh
      /\ new.res = "none" /\ new.bytes = <<>> /\ new.off = 0 /\ new.direct = TRUE
  BY DEF NoProc
<1>3. new \in Process
  BY OpenRecords DEF Inv, Types
<1>4. req \in Request /\ req.op = "open" /\ req.proc = p
  <2>1. req.op = "open" /\ req.proc = p
    BY DEF NoRequest
  <2> QED BY <2>1, OpenRecords DEF Inv, Types
<1> HIDE DEF new, req
<1>5. /\ proc \in [Procs -> Process] /\ proc' \in [Procs -> Process] /\ proc'[p] = new
      /\ \A r \in Procs : r # p => proc'[r] = proc[r]
  BY <1>1, <1>3 DEF Inv, Types
<1>6. pc \in Serving => cur.proc # p /\ cur.proc \in Procs
  BY <1>1, NotInFlight
<1>7. queue' \in Seq(Request) /\ Requests' /\ Opens' = Opens + 1 /\ Opens \in Int
  BY <1>1, <1>2, <1>4, <1>5, RequestAppended
<1>8. Types'
  BY <1>1, <1>5, <1>7 DEF Inv, Types
<1>9. Bound'
  BY <1>1, <1>7, ClickFsAssumption DEF Bound
<1>10. Held'
  BY <1>1, <1>2, <1>5 DEF Inv, Held, Holds
<1>11. Opening'
  BY <1>1, <1>5, <1>6 DEF Inv, Opening, file, Serving, Allocated
<1>12. Got'
  <2>1. new.since <= version /\ Reads(new.bytes, new.file, new.off, new.since)
    BY <1>2, EmptyText, ClickFsAssumption DEF Inv, Types, Versions
  <2> QED BY <1>1, <1>5, <2>1 DEF Inv, Got
<1>13. FailuresStayLocal'
  BY <1>1, <1>5, <1>6 DEF Inv, FailuresStayLocal, file, Serving, Allocated
<1>14. NoOrphanStreams'
  BY <1>1, <1>5 DEF Inv, NoOrphanStreams
<1> QED BY <1>7, <1>8, <1>9, <1>10, <1>11, <1>12, <1>13, <1>14 DEF Inv

\* read(2): a process with an open file asks for bytes of it.
LEMMA SysReadInv ==
  ASSUME Inv, NEW p \in Procs, NEW off \in Offsets, NEW size \in Sizes, SysRead(p, off, size)
  PROVE  Inv'
<1> DEFINE new == [proc[p] EXCEPT !.st = "waiting", !.off = off, !.res = "none", !.bytes = <<>>]
<1>1. off \in Nat /\ size \in Nat /\ size > 0
  BY ClickFsAssumption
<1>2. proc[p] \in Process /\ proc[p].direct = TRUE /\ proc[p].since \in Nat
  BY ProcHandle, ProcessFields
<1>3. PICK req : /\ req = [op |-> "read", proc |-> p, fh |-> proc[p].fh, off |-> off, size |-> size]
                 /\ queue' = Append(queue, req)
  BY <1>1, <1>2 DEF SysRead
<1>4. /\ proc[p].st = "open"
      /\ proc' = [proc EXCEPT ![p] = new]
      /\ UNCHANGED <<version, releases, pc, cur, locals, fh_counter, handles, streams, failure>>
  BY <1>1, <1>2 DEF SysRead
<1>5. req \in Request /\ req.op = "read" /\ req.proc = p /\ req.fh = proc[p].fh /\ req.off = off /\ req.size = size
  BY <1>1, <1>2, <1>3, ProcessFields DEF Request
<1>6. /\ new.st = "waiting" /\ new.off = off /\ new.res = "none" /\ new.bytes = <<>>
      /\ new.file = proc[p].file /\ new.fh = proc[p].fh /\ new.since = proc[p].since
      /\ new \in Process
  BY <1>1, <1>2, EmptyText DEF Process
<1> HIDE DEF new
<1>7. /\ proc \in [Procs -> Process] /\ proc' \in [Procs -> Process] /\ proc'[p] = new
      /\ \A r \in Procs : r # p => proc'[r] = proc[r]
  BY <1>4, <1>6 DEF Inv, Types
<1>8. pc \in Serving => cur.proc # p /\ cur.proc \in Procs
  BY <1>4, NotInFlight
<1>9. proc[p].fh # NoFh
  BY <1>4 DEF Inv, Held
<1>10. queue' \in Seq(Request) /\ Requests' /\ Opens' = Opens
  BY <1>1, <1>3, <1>4, <1>5, <1>6, <1>7, <1>9, RequestAppended
<1>11. Types'
  BY <1>4, <1>7, <1>10 DEF Inv, Types
<1>12. Bound'
  BY <1>10 DEF Inv, Bound
<1>13. Held'
  <2>1. \A r \in Procs : proc'[r].fh = proc[r].fh /\ proc'[r].file = proc[r].file /\ proc'[r].since = proc[r].since
    BY <1>6, <1>7
  <2>2. proc'[p].st = "waiting"
    BY <1>6, <1>7
  <2> QED BY <1>4, <1>7, <1>9, <2>1, <2>2 DEF Inv, Held, Holds
<1>14. Opening'
  BY <1>4, <1>7, <1>8 DEF Inv, Opening, file, Serving, Allocated
<1>15. Got'
  <2>1. new.since <= version /\ Reads(new.bytes, new.file, new.off, new.since)
    BY <1>6, EmptyText DEF Inv, Got
  <2> QED BY <1>4, <1>7, <2>1 DEF Inv, Got
<1>16. FailuresStayLocal'
  BY <1>4, <1>7, <1>8 DEF Inv, FailuresStayLocal, file, Serving, Allocated
<1>17. NoOrphanStreams'
  BY <1>4, <1>6, <1>7 DEF Inv, NoOrphanStreams
<1> QED BY <1>10, <1>11, <1>12, <1>13, <1>14, <1>15, <1>16, <1>17 DEF Inv

\* close(2): the handle goes from its process to the queued RELEASEs.
LEMMA SysCloseInv == ASSUME Inv, NEW p \in Procs, SysClose(p) PROVE Inv'
<1> DEFINE h == proc[p].fh
<1>1. /\ proc[p].st = "open" /\ proc' = [proc EXCEPT ![p] = NoProc]
      /\ releases' = releases \cup {h}
      /\ UNCHANGED <<version, queue, pc, cur, locals, fh_counter, handles, streams, failure>>
  BY DEF SysClose
<1>2. NoProc \in Process /\ NoProc.st = "closed" /\ NoProc.fh = NoFh /\ NoProc.bytes = <<>> /\ NoProc.since = 0
  BY NoProcIs DEF NoProc
<1>3. /\ proc \in [Procs -> Process] /\ proc' \in [Procs -> Process] /\ proc'[p] = NoProc
      /\ \A r \in Procs : r # p => proc'[r] = proc[r]
  BY <1>1, <1>2 DEF Inv, Types
<1>4. /\ \A i \in 1..Len(queue) : queue[i].proc # p
      /\ pc \in Serving => cur.proc # p /\ cur.proc \in Procs
  BY <1>1, NotInFlight
<1>5. h # NoFh /\ Holds(p)
  BY <1>1 DEF Inv, Held
<1>6. Types'
  BY <1>1, <1>3, <1>5 DEF Inv, Types, Holds
<1>7. Bound'
  BY <1>1 DEF Inv, Bound, Opens
<1>8. Requests'
  <2>1. \A i \in 1..Len(queue) : queue[i].proc \in Procs
    BY ElementOfSeq, RequestFields DEF Inv, Types
  <2> QED BY <1>1, <1>3, <1>4, <2>1 DEF Inv, Requests, Asked
<1>9. Held'
  <2>1. ASSUME NEW r \in Procs, proc'[r].fh # NoFh PROVE r # p /\ Holds(r)'
    <3>1. r # p /\ proc'[r] = proc[r]
      BY <1>2, <1>3, <2>1
    <3>2. Holds(r) /\ proc[r].fh # h
      BY <1>5, <2>1, <3>1 DEF Inv, Held
    <3> QED BY <1>1, <3>1, <3>2 DEF Holds
  <2>2. \A g \in releases' : g < fh_counter /\ (pc \in Allocated => g # fh_id)
    BY <1>1, <1>5 DEF Inv, Held, Holds
  <2> QED BY <1>1, <1>2, <1>3, <2>1, <2>2 DEF Inv, Held
<1>10. Opening'
  BY <1>1, <1>3, <1>4 DEF Inv, Opening, file, Serving, Allocated
<1>11. Got'
  <2>1. NoProc.since <= version /\ Reads(NoProc.bytes, NoProc.file, NoProc.off, NoProc.since)
    BY <1>2, EmptyText, ClickFsAssumption DEF Inv, Types, Versions
  <2> QED BY <1>1, <1>3, <2>1 DEF Inv, Got
<1>12. FailuresStayLocal'
  BY <1>1, <1>3, <1>4 DEF Inv, FailuresStayLocal, file, Serving, Allocated
<1>13. NoOrphanStreams'
  <2>1. UNCHANGED <<streams, pc, cur>>
    BY <1>1
  <2>2. \A r \in Procs : proc[r].st # "closed" => proc'[r] = proc[r] \/ proc[r].fh = h
    BY <1>3
  <2>3. h \in releases' /\ releases \subseteq releases'
    BY <1>1
  <2> QED BY <2>1, <2>2, <2>3 DEF Inv, NoOrphanStreams
<1> QED BY <1>6, <1>7, <1>8, <1>9, <1>10, <1>11, <1>12, <1>13 DEF Inv

\* The dispatcher takes the request at the head of the queue.
LEMMA TakeInv == Inv /\ Take => Inv'
<1> SUFFICES ASSUME Inv, Take PROVE Inv'
  OBVIOUS
<1>1. /\ pc = "idle" /\ queue # <<>> /\ cur' = Head(queue) /\ pc' = Head(queue).op
      /\ queue' = Tail(queue) /\ failure' = NoFailure
      /\ UNCHANGED <<version, proc, releases, locals, fh_counter, handles, streams>>
  BY DEF Take
<1>2. PICK n \in Nat : /\ n = Len(queue) /\ n > 0 /\ Len(queue') = n - 1
                       /\ queue \in Seq(Request) /\ queue' \in Seq(Request)
                       /\ \A i \in 1..n - 1 : queue'[i] = queue[i + 1]
                       /\ cur' = queue[1]
  <2>1. queue \in Seq(Request) /\ queue # <<>>
    BY <1>1 DEF Inv, Types
  <2> QED BY <1>1, <2>1, HeadTailProperties, EmptySeq
<1>3. cur' \in Request /\ pc' \in {"open", "read"} /\ (cur'.op = "read" <=> pc' = "read")
  <2>1. cur' \in Request
    BY <1>2, ElementOfSeq
  <2> QED BY <1>1, <2>1, RequestFields
<1>4. \A i \in 1..n - 1 : i + 1 \in 1..n /\ i + 1 # 1
  BY <1>2
<1>5. Types'
  BY <1>1, <1>2, <1>3 DEF Inv, Types, NoFailure, Failures
<1>6. Bound'
  <2>1. Cardinality(Waiting(queue)) = Cardinality(Waiting(queue')) + (IF cur'.op = "open" THEN 1 ELSE 0)
    BY <1>1, <1>2, WaitingTail
  <2>2. Cardinality(Waiting(queue')) \in Nat
    BY <1>2, WaitingIsFinite
  <2>3. Opens' = fh_counter - 1 + Cardinality(Waiting(queue')) + (IF pc' = "open" THEN 1 ELSE 0)
    BY <1>1 DEF Opens, Waiting
  <2>4. Opens = fh_counter - 1 + Cardinality(Waiting(queue))
    BY <1>1, <1>2, OpensOf, WaitingIsFinite DEF Inv, Types
  <2>5. fh_counter \in Nat /\ (pc' = "open" <=> cur'.op = "open")
    BY <1>1 DEF Inv, Types
  <2>6. Opens' = Opens
    BY <2>1, <2>2, <2>3, <2>4, <2>5
  <2> QED BY <2>6 DEF Inv, Bound
<1>7. Requests'
  <2>1. (\A i \in 1..Len(queue) : Asked(queue[i]))'
    BY <1>1, <1>2, <1>4 DEF Inv, Requests, Asked
  <2>2. \A i, j \in 1..Len(queue') : queue'[i].proc = queue'[j].proc => i = j
    <3> SUFFICES ASSUME NEW i \in 1..n - 1, NEW j \in 1..n - 1, queue'[i].proc = queue'[j].proc PROVE i = j
      BY <1>2
    <3>1. \A x, y \in 1..Len(queue) : queue[x].proc = queue[y].proc => x = y
      BY DEF Inv, Requests
    <3>2. i + 1 \in 1..Len(queue) /\ j + 1 \in 1..Len(queue)
      BY <1>2, <1>4
    <3>3. queue[i + 1].proc = queue[j + 1].proc
      BY <1>2
    <3>4. i + 1 = j + 1
      BY <3>1, <3>2, <3>3
    <3> QED BY <3>4
  <2>3. 1 \in 1..n
    BY <1>2
  <2>4. Asked(cur)'
    BY <1>1, <1>2, <2>3 DEF Inv, Requests, Asked
  <2>5. \A i \in 1..Len(queue') : queue'[i].proc # cur'.proc
    BY <1>2, <1>4, <2>3 DEF Inv, Requests
  <2> QED BY <1>3, <2>1, <2>2, <2>4, <2>5 DEF Requests
<1>8. Held'
  BY <1>1, <1>3 DEF Inv, Held, Holds, Allocated
<1>9. Opening'
  BY <1>1, <1>3 DEF Inv, Opening, NoParts
<1>10. Got'
  BY <1>1 DEF Inv, Got
<1>11. FailuresStayLocal'
  BY <1>3 DEF FailuresStayLocal
<1>12. NoOrphanStreams'
  BY <1>1 DEF Inv, NoOrphanStreams
<1> QED BY <1>5, <1>6, <1>7, <1>8, <1>9, <1>10, <1>11, <1>12 DEF Inv

\* The dispatcher takes a RELEASE: the handle is no process's any more.
LEMMA TakeReleaseInv == ASSUME Inv, NEW h \in releases, TakeRelease(h) PROVE Inv'
<1>1. /\ pc = "idle" /\ pc' = "release" /\ releases' = releases \ {h} /\ failure' = NoFailure
      /\ cur' = [NoRequest EXCEPT !.op = "release", !.fh = h]
      /\ UNCHANGED <<version, proc, queue, locals, fh_counter, handles, streams>>
  BY DEF TakeRelease
<1>2. cur'.fh = h
  BY <1>1 DEF NoRequest
<1>3. h \in 1..MaxFh
  BY DEF Inv, Types
<1>4. Types'
  BY <1>1 DEF Inv, Types, NoFailure, Failures
<1>5. Bound'
  BY <1>1 DEF Inv, Bound, Opens
<1>6. Requests'
  BY <1>1 DEF Inv, Requests, Asked, Serving, Allocated
<1>7. Held'
  <2>1. \A p \in Procs : proc[p].fh # NoFh => Holds(p)'
    BY <1>1, <1>2 DEF Inv, Held, Holds, Allocated
  <2>2. pc' \notin Allocated
    BY <1>1 DEF Allocated
  <2> QED BY <1>1, <1>2, <1>3, <2>1, <2>2 DEF Inv, Held
<1>8. Opening'
  BY <1>1 DEF Inv, Opening, NoParts
<1>9. Got'
  BY <1>1 DEF Inv, Got
<1>10. FailuresStayLocal'
  BY <1>1 DEF FailuresStayLocal
<1>11. NoOrphanStreams'
  <2>1. releases \subseteq releases' \cup {h} /\ pc # "release"
    BY <1>1
  <2>2. pc' = "release" /\ UNCHANGED <<streams, proc>>
    BY <1>1
  <2> QED BY <1>2, <2>1, <2>2 DEF Inv, NoOrphanStreams
<1> QED BY <1>4, <1>5, <1>6, <1>7, <1>8, <1>9, <1>10, <1>11 DEF Inv

\* The process whose request is served.
LEMMA Served ==
  ASSUME Inv, pc \in Serving
  PROVE  /\ cur \in Request /\ Asked(cur) /\ cur.proc \in Procs
         /\ proc[cur.proc] \in Process /\ proc[cur.proc].st = "waiting"
         /\ proc[cur.proc].since \in Versions
BY RequestFields, ProcHandle, ProcessFields DEF Inv, Requests, Asked

\* open goes on: what does not change then.
LEMMA GoesOn ==
  ASSUME Inv, pc \in Serving \ {"read"}, pc' \in Allocated,
         UNCHANGED <<version, proc, queue, releases, cur, handles, streams>>
  PROVE  Requests' /\ Got' /\ NoOrphanStreams'
<1>1. Requests'
  BY DEF Inv, Requests, Asked, Serving, Allocated
<1>2. Got'
  BY DEF Inv, Got
<1>3. NoOrphanStreams'
  BY DEF Inv, NoOrphanStreams, Serving, Allocated
<1> QED BY <1>1, <1>2, <1>3

\* open takes a handle number that nobody has.
LEMMA OpenStartInv == Inv /\ OpenStart => Inv'
<1> SUFFICES ASSUME Inv, OpenStart PROVE Inv'
  OBVIOUS
<1>1. /\ pc = "open" /\ fh_id' = fh_counter /\ fh_counter' = fh_counter + 1
      /\ UNCHANGED <<version, proc, queue, releases, cur, text, parts, handles, streams, failure>>
  BY DEF OpenStart
<1>2. pc \in Serving \ {"read"}
  BY <1>1 DEF Serving
<1>3. proc[cur.proc].file \in Files
  BY <1>2, Served, ProcessFields
<1>4. /\ pc' \in Allocated
      /\ pc' = "describe" => file = SchemaFile
      /\ pc' = "render" => file = ReadmeFile
      /\ pc' = "order" => file = StreamFile
      /\ pc' = "insert" => file = StreamFile
  BY <1>3, ClickFsAssumption DEF OpenStart, Files, file, Allocated
<1>5. fh_counter \in 1..MaxFh /\ Opens' = Opens
  <2>1. fh_counter \in Nat \ {0} /\ Cardinality(Waiting(queue)) \in Nat
    BY WaitingIsFinite DEF Inv, Types
  <2>2. Opens = fh_counter - 1 + Cardinality(Waiting(queue)) + 1
    BY <1>1, OpensOf
  <2>3. Opens' = (fh_counter + 1) - 1 + Cardinality(Waiting(queue)) + 0
    BY <1>1, <1>4 DEF Opens, Waiting, Allocated
  <2> QED BY <2>1, <2>2, <2>3, ClickFsAssumption DEF Inv, Bound
<1>6. Types'
  BY <1>1, <1>4, <1>5 DEF Inv, Types, Allocated
<1>7. Bound'
  BY <1>5 DEF Inv, Bound
<1>8. Requests' /\ Got' /\ NoOrphanStreams'
  BY <1>1, <1>2, <1>4, GoesOn
<1>9. Held'
  <2>1. \A p \in Procs : proc[p].fh # NoFh => Holds(p)'
    <3>1. pc' # "release"
      BY <1>4 DEF Allocated
    <3> QED BY <1>1, <1>5, <3>1 DEF Inv, Held, Holds
  <2>2. \A h \in releases : h < fh_counter' /\ h # fh_id'
    <3>1. \A h \in releases : h < fh_counter /\ h \in 1..MaxFh
      BY DEF Inv, Held, Types
    <3> QED BY <1>1, <1>5, <3>1
  <2>3. fh_id' \in 1..MaxFh /\ fh_id' < fh_counter' /\ pc' # "release"
    BY <1>1, <1>4, <1>5 DEF Allocated
  <2> QED BY <1>1, <2>1, <2>2, <2>3 DEF Inv, Held
<1>10. Opening'
  <2>1. text' = <<>> /\ parts' = NoParts
    BY <1>1 DEF Inv, Opening
  <2>2. pc' = "render" => \A q \in SubQueries : parts'[q] = Pending
    BY <2>1 DEF NoParts
  <2>3. Pending \notin Versions /\ Pending # Empty /\ Pending # Malformed
    BY ClickFsAssumption DEF Versions, Pending, Empty, Malformed
  <2>4. Reads(text, file, 0, proc[cur.proc].since)'
    BY <2>1, EmptyText
  <2>5. file' = file
    BY <1>1 DEF file
  <2> QED BY <1>4, <2>1, <2>2, <2>3, <2>4, <2>5 DEF Opening, NoParts
<1>11. FailuresStayLocal'
  BY <1>1, <1>4, ClickFsAssumption DEF FailuresStayLocal, file
<1> QED BY <1>6, <1>7, <1>8, <1>9, <1>10, <1>11 DEF Inv

\* open goes on with the handle it has allocated.
LEMMA Advances ==
  ASSUME Inv, pc \in Allocated, pc' \in Allocated,
         UNCHANGED <<version, proc, queue, releases, cur, fh_id, fh_counter, handles, streams>>
  PROVE  Requests' /\ Got' /\ NoOrphanStreams' /\ Bound' /\ Held'
<1>1. pc \in Serving \ {"read"}
  BY DEF Serving, Allocated
<1>2. Bound'
  BY DEF Inv, Bound, Opens, Allocated
<1>3. Held'
  <2>1. pc # "release" /\ pc' # "release"
    BY DEF Allocated
  <2> QED BY <2>1 DEF Inv, Held, Holds
<1> QED BY <1>1, <1>2, <1>3, GoesOn

\* A handler is done: nothing is left of it but what its process got.
LEMMA Finished ==
  ASSUME Inv, pc \in Serving \ {"open"}, Idle, UNCHANGED <<version, queue, fh_counter>>,
         \A r \in Procs : r # cur.proc => proc'[r] = proc[r]
  PROVE  Bound' /\ Requests' /\ Opening' /\ FailuresStayLocal' /\ pc' = "idle" /\ fh_id' = NoFh
<1>1. pc' = "idle" /\ text' = <<>> /\ parts' = NoParts /\ fh_id' = NoFh
  BY DEF Idle
<1>2. Bound'
  BY <1>1 DEF Inv, Bound, Opens
<1>3. Requests'
  <2>1. \A i \in 1..Len(queue) : queue[i].proc # cur.proc /\ queue[i].proc \in Procs
    BY ElementOfSeq, RequestFields DEF Inv, Types, Requests
  <2> QED BY <1>1, <2>1 DEF Inv, Requests, Asked, Serving, Allocated
<1>4. Opening' /\ FailuresStayLocal'
  BY <1>1 DEF Opening, FailuresStayLocal, NoParts
<1> QED BY <1>1, <1>2, <1>3, <1>4

\* What a failed query leaves behind.
LEMMA FailsType ==
  ASSUME NEW cause \in Causes, NEW resp \in Responses(cause), NEW e, Fails(e, cause, resp)
  PROVE  failure' \in Failures /\ failure'.errno \in Errnos
<1>1. failure' = [errno |-> to_errno(e), cause |-> cause, left |-> Remnant(resp)]
  BY DEF Fails
<1>2. to_errno(e) \in Errnos /\ Remnant(resp) \in {Whole, Nothing, 200} \cup Statuses
  BY ErrnoType, RemnantType
<1>3. \A x \in Errnos, l \in {Whole, Nothing, 200} \cup Statuses :
        /\ [errno |-> x, cause |-> cause, left |-> l] \in Failures
        /\ [errno |-> x, cause |-> cause, left |-> l].errno = x
  BY DEF Failures
<1> QED BY <1>1, <1>2, <1>3

\* reply.error to an open: its process is closed again and has no handle.
LEMMA OpenFailedInv ==
  ASSUME Inv, pc = "describe", OpenFailed, UNCHANGED <<version, queue, releases, fh_counter, handles, streams>>
  PROVE  Inv'
<1> DEFINE p == cur.proc
<1>1. proc' = [proc EXCEPT ![cur.proc] = NoProc] /\ Idle
  BY DEF OpenFailed
<1>2. pc \in Serving \ {"open"}
  BY DEF Serving, Allocated
<1>3. p \in Procs /\ proc[p].st = "waiting" /\ proc[p].fh = NoFh
  <2>1. cur.op = "open"
    BY <1>2, Served, RequestFields DEF Inv, Requests
  <2> QED BY <1>2, <2>1, Served DEF Asked
<1>4. NoProc \in Process /\ NoProc.st = "closed" /\ NoProc.fh = NoFh /\ NoProc.bytes = <<>> /\ NoProc.since = 0
  BY NoProcIs DEF NoProc
<1>5. /\ proc' \in [Procs -> Process] /\ proc'[p] = NoProc
      /\ \A r \in Procs : r # p => proc'[r] = proc[r]
  BY <1>1, <1>3, <1>4 DEF Inv, Types
<1>6. Bound' /\ Requests' /\ Opening' /\ FailuresStayLocal' /\ pc' = "idle" /\ fh_id' = NoFh
  BY <1>1, <1>2, <1>5, Finished
<1>7. failure' \in Failures
  BY FailsType DEF OpenFailed
<1>8. Types'
  BY <1>1, <1>5, <1>7, NoFhIs, EmptyText DEF Inv, Types, Idle, NoParts, Answered, Failures
<1>9. Held'
  <2>1. ASSUME NEW r \in Procs, proc'[r].fh # NoFh PROVE r # p /\ Holds(r)'
    <3>1. r # p /\ proc'[r] = proc[r]
      BY <1>4, <1>5, <2>1
    <3>2. Holds(r)
      BY <2>1, <3>1 DEF Inv, Held
    <3>3. pc' # "release" /\ pc' \notin Allocated
      BY <1>6 DEF Allocated
    <3> QED BY <3>1, <3>2, <3>3 DEF Holds
  <2>2. pc' # "release" /\ pc' \notin Allocated
    BY <1>6 DEF Allocated
  <2> QED BY <1>4, <1>5, <2>1, <2>2 DEF Inv, Held
<1>10. Got'
  <2>1. NoProc.since <= version /\ Reads(NoProc.bytes, NoProc.file, NoProc.off, NoProc.since)
    BY <1>4, EmptyText, ClickFsAssumption DEF Inv, Types, Versions
  <2> QED BY <1>5, <2>1 DEF Inv, Got
<1>11. NoOrphanStreams'
  <2>1. \A h \in streams : h # NoFh
    BY NoFhIs DEF Inv, Types
  <2>2. pc # "release"
    BY <1>2
  <2> QED BY <1>3, <1>5, <2>1, <2>2 DEF Inv, NoOrphanStreams
<1> QED BY <1>6, <1>8, <1>9, <1>10, <1>11 DEF Inv

\* fetch_describe answers or fails.
LEMMA DescribeInv == Inv /\ Describe => Inv'
<1> SUFFICES ASSUME Inv, Describe PROVE Inv'
  OBVIOUS
<1>1. pc = "describe" /\ UNCHANGED <<version, queue, releases, fh_counter, handles, streams>>
  BY DEF Describe
<1>2. CASE OpenFailed
  BY <1>1, <1>2, OpenFailedInv
<1>3. CASE pc' = "insert" /\ text' = Described /\ UNCHANGED <<proc, cur, fh_id, parts, failure>>
  <2>1. pc \in Allocated /\ pc' \in Allocated /\ pc \in Serving
    BY <1>1, <1>3 DEF Allocated, Serving
  <2>2. Requests' /\ Got' /\ NoOrphanStreams' /\ Bound' /\ Held'
    BY <1>1, <1>3, <2>1, Advances
  <2>3. file = SchemaFile /\ file' = file
    BY <1>1, <1>3 DEF Inv, Opening, file
  <2>4. text' \in Texts /\ Reads(text', SchemaFile, 0, proc[cur.proc].since)
    <3>1. proc[cur.proc].since \in Versions /\ proc[cur.proc].since <= version /\ version \in Versions
      BY <2>1, Served DEF Inv, Types, Got
    <3> QED BY <1>3, <3>1, SchemaTells DEF Described
  <2>5. Types'
    BY <1>1, <1>3, <2>4 DEF Inv, Types
  <2>6. Opening'
    BY <1>3, <2>3, <2>4 DEF Opening
  <2>7. FailuresStayLocal'
    BY <2>3, ClickFsAssumption DEF FailuresStayLocal
  <2> QED BY <2>2, <2>5, <2>6, <2>7 DEF Inv
<1> QED BY <1>2, <1>3 DEF Describe

\* A sub-query of README.md answers or fails.
LEMMA SubQueryInv == ASSUME Inv, NEW q \in SubQueries, SubQuery(q) PROVE Inv'
<1> USE DEF Pending, Failed, Empty, Malformed
<1>1. /\ pc = "render"
      /\ UNCHANGED <<version, proc, queue, releases, pc, cur, fh_id, text, fh_counter, handles, streams, failure>>
  BY DEF SubQuery
<1>2. PICK ans \in Answers(q, version) : parts' = [parts EXCEPT ![q] = ans]
  BY DEF SubQuery
<1>3. pc \in Allocated /\ pc' \in Allocated /\ pc \in Serving
  BY <1>1 DEF Allocated, Serving
<1>4. Requests' /\ Got' /\ NoOrphanStreams' /\ Bound' /\ Held'
  BY <1>1, <1>3, Advances
<1>5. version \in Versions /\ proc[cur.proc].since <= version /\ \A v \in Versions : v \in Nat
  BY <1>3, Served, ClickFsAssumption DEF Inv, Types, Got, Versions
<1>6. /\ ans \in Answered
      /\ ans \in Versions => ans >= proc[cur.proc].since
      /\ ans = Empty => q \in {"stats", "columns", "sample"}
      /\ ans = Malformed => q \in {"stats", "columns"}
  <2>1. CASE ans = version
    BY <1>5, <2>1 DEF Answered
  <2>2. CASE ans = Failed
    BY <1>5, <2>2 DEF Answered
  <2>3. CASE ans = Empty /\ q \in {"stats", "columns", "sample"}
    BY <1>5, <2>3 DEF Answered
  <2>4. CASE ans = Malformed /\ q \in {"stats", "columns"}
    BY <1>5, <2>4 DEF Answered
  <2> QED BY <2>1, <2>2, <2>3, <2>4 DEF Answers
<1>7. /\ parts' \in [SubQueries -> Answered] /\ parts'[q] = ans
      /\ \A r \in SubQueries : r # q => parts'[r] = parts[r]
  BY <1>2, <1>6 DEF Inv, Types
<1>8. Types'
  BY <1>1, <1>7 DEF Inv, Types
<1>9. Opening'
  BY <1>1, <1>6, <1>7 DEF Inv, Opening, file
<1>10. FailuresStayLocal'
  BY <1>1 DEF FailuresStayLocal
<1> QED BY <1>4, <1>8, <1>9, <1>10 DEF Inv

\* render puts README.md together.
LEMMA RenderInv == Inv /\ Render => Inv'
<1> SUFFICES ASSUME Inv, Render PROVE Inv'
  OBVIOUS
<1>1. /\ pc = "render" /\ pc' = "insert" /\ \A q \in SubQueries : parts[q] # Pending
      /\ UNCHANGED <<version, proc, queue, releases, cur, fh_id, parts, fh_counter, handles, streams, failure>>
  BY DEF Render
<1>2. text' = ReadmeText(parts)
  BY DEF Render, ReadmeText
<1>3. pc \in Allocated /\ pc' \in Allocated /\ pc \in Serving
  BY <1>1 DEF Allocated, Serving
<1>4. Requests' /\ Got' /\ NoOrphanStreams' /\ Bound' /\ Held'
  BY <1>1, <1>3, Advances
<1>5. file = ReadmeFile /\ file' = file
  BY <1>1 DEF Inv, Opening, file
<1>6. Complete(parts) /\ \A q \in SubQueries : parts[q] \in Versions => parts[q] >= proc[cur.proc].since
  BY <1>1 DEF Inv, Opening, Types, Complete, Answered
<1>7. proc[cur.proc].since \in Versions
  BY <1>3, Served
<1>8. /\ text' \in Texts /\ Reads(text', ReadmeFile, 0, proc[cur.proc].since)
      /\ \A q \in SubQueries : Owed(parts, text', q)
      /\ \A i \in 1..Len(text') : text'[i].ver = Unavailable => LostIn(parts, text'[i].of)
  BY <1>2, <1>6, <1>7, ReadmeTells
<1>9. Types'
  BY <1>1, <1>8 DEF Inv, Types
<1>10. Opening'
  BY <1>1, <1>5, <1>8 DEF Opening
<1>11. FailuresStayLocal'
  BY <1>1, <1>8 DEF FailuresStayLocal, LostIn, Owed, Shows, Place
<1> QED BY <1>4, <1>9, <1>10, <1>11 DEF Inv

\* fetch_tail_order_expr: open goes on whatever the answer is.
LEMMA OrderExprInv == Inv /\ OrderExpr => Inv'
<1> SUFFICES ASSUME Inv, OrderExpr PROVE Inv'
  OBVIOUS
<1>1. /\ pc = "order" /\ pc' = "insert"
      /\ UNCHANGED <<version, proc, queue, releases, cur, locals, fh_counter, handles, streams, failure>>
  BY DEF OrderExpr
<1>2. pc \in Allocated /\ pc' \in Allocated
  BY <1>1 DEF Allocated
<1>3. Requests' /\ Got' /\ NoOrphanStreams' /\ Bound' /\ Held'
  BY <1>1, <1>2, Advances
<1>4. file = StreamFile /\ file' = file /\ text' = <<>>
  BY <1>1 DEF Inv, Opening, file
<1>5. Types'
  BY <1>1 DEF Inv, Types
<1>6. Opening'
  <2>1. Reads(text, file, 0, proc[cur.proc].since)'
    BY <1>4, EmptyText
  <2> QED BY <1>1, <1>4, <2>1 DEF Opening
<1>7. FailuresStayLocal'
  BY <1>4, ClickFsAssumption DEF FailuresStayLocal
<1> QED BY <1>3, <1>5, <1>6, <1>7 DEF Inv

\* handles.insert and reply.opened: the new entry is that of the process that waits.
LEMMA InsertInv == Inv /\ Insert => Inv'
<1> SUFFICES ASSUME Inv, Insert PROVE Inv'
  OBVIOUS
<1> DEFINE p == cur.proc
           new == [proc[p] EXCEPT !.st = "open", !.fh = fh_id, !.direct = TRUE]
           entry == [kind |-> IF file = StreamFile THEN "stream" ELSE "special",
                     file |-> file, bytes |-> text, pos |-> 0]
<1>1. /\ pc = "insert" /\ handles' = [handles EXCEPT ![fh_id] = entry]
      /\ streams' = IF file = StreamFile THEN streams \cup {fh_id} ELSE streams
      /\ proc' = [proc EXCEPT ![p] = new] /\ Idle
      /\ UNCHANGED <<version, queue, releases, fh_counter, failure>>
  BY DEF Insert, Opened
<1>2. pc \in Serving \ {"open"} /\ pc \in Allocated
  BY <1>1 DEF Serving, Allocated
<1>3. p \in Procs /\ proc[p] \in Process /\ proc[p].st = "waiting" /\ proc[p].fh = NoFh /\ proc[p].res = "none"
  <2>1. cur.op = "open"
    BY <1>1, <1>2, Served, RequestFields DEF Inv, Requests
  <2> QED BY <1>2, <2>1, Served DEF Asked
<1>4. fh_id \in 1..MaxFh /\ fh_id < fh_counter
  BY <1>2 DEF Inv, Held
<1>5. /\ new \in Process
      /\ new.st = "open" /\ new.fh = fh_id /\ new.file = proc[p].file /\ new.since = proc[p].since
      /\ new.bytes = proc[p].bytes /\ new.off = proc[p].off /\ new.res = "none"
  <2>1. \A r \in Process, h \in 0..MaxFh : [r EXCEPT !.st = "open", !.fh = h, !.direct = TRUE] \in Process
    BY DEF Process
  <2>2. new \in Process
    BY <1>3, <2>1 DEF Inv, Types
  <2>3. /\ new.st = "open" /\ new.fh = fh_id /\ new.file = proc[p].file /\ new.since = proc[p].since
        /\ new.bytes = proc[p].bytes /\ new.off = proc[p].off /\ new.res = "none"
    BY <1>3 DEF Process
  <2> QED BY <2>2, <2>3
<1> HIDE DEF new
<1>6. /\ proc' \in [Procs -> Process] /\ proc'[p] = new
      /\ \A r \in Procs : r # p => proc'[r] = proc[r]
  BY <1>1, <1>3, <1>5 DEF Inv, Types
<1>7. text \in Texts /\ Reads(text, proc[p].file, 0, proc[p].since) /\ file = proc[p].file /\ file \in Files
  BY <1>1, <1>3, ProcessFields DEF Inv, Types, Opening, file
<1>8. /\ entry \in Handle
      /\ entry.kind = (IF proc[p].file = StreamFile THEN "stream" ELSE "special")
      /\ entry.file = proc[p].file /\ entry.bytes = text
  BY <1>7, ClickFsAssumption DEF Handle
<1> HIDE DEF entry
<1>9. /\ handles' \in [1..MaxFh -> Handle] /\ handles'[fh_id] = entry
      /\ \A h \in 1..MaxFh : h # fh_id => handles'[h] = handles[h]
  BY <1>1, <1>4, <1>8 DEF Inv, Types
<1>10. Bound' /\ Requests' /\ Opening' /\ FailuresStayLocal' /\ pc' = "idle" /\ fh_id' = NoFh
  BY <1>1, <1>2, <1>6, Finished
<1>11. Types'
  BY <1>1, <1>4, <1>6, <1>9, NoFhIs, EmptyText DEF Inv, Types, Idle, NoParts, Answered
<1>12. pc' # "release" /\ pc' \notin Allocated
  BY <1>10 DEF Allocated
<1>13. \A r \in Procs : r # p /\ proc[r].fh # NoFh => Holds(r) /\ proc[r].fh # fh_id
  BY <1>2 DEF Inv, Held, Holds
<1>14. Held'
  <2>1. ASSUME NEW r \in Procs, r # p, proc[r].fh # NoFh PROVE Holds(r)'
    <3>1. proc'[r] = proc[r] /\ Holds(r) /\ handles'[proc[r].fh] = handles[proc[r].fh]
      BY <1>6, <1>9, <1>13, <2>1 DEF Holds
    <3> QED BY <1>1, <1>12, <3>1 DEF Holds
  <2>2. ASSUME NEW r \in Procs, r = p PROVE Holds(r)'
    <3>1. fh_id \notin releases
      BY <1>2 DEF Inv, Held
    <3>2. proc'[r] = new /\ handles'[fh_id] = entry
      BY <1>6, <1>9, <2>2
    <3>3. /\ new.st # "closed" /\ entry.file = new.file
          /\ entry.kind = (IF new.file = StreamFile THEN "stream" ELSE "special")
          /\ Reads(entry.bytes, new.file, 0, new.since)
      BY <1>5, <1>7, <1>8
    <3> QED BY <1>1, <1>4, <1>5, <1>12, <3>1, <3>2, <3>3 DEF Holds
  <2>3. \A r, q \in Procs : proc'[r].fh = proc'[q].fh /\ proc'[r].fh # NoFh => r = q
    <3>1. \A r, q \in Procs : proc[r].fh = proc[q].fh /\ proc[r].fh # NoFh => r = q
      BY DEF Inv, Held
    <3> QED BY <1>5, <1>6, <1>13, <3>1
  <2>4. \A r \in Procs : proc'[r].st = "open" => proc'[r].fh # NoFh
    BY <1>4, <1>5, <1>6, NoFhIs DEF Inv, Held
  <2>5. \A r \in Procs : proc'[r].fh # NoFh => Holds(r)'
    BY <1>6, <2>1, <2>2
  <2> QED BY <1>1, <1>12, <2>3, <2>4, <2>5 DEF Inv, Held
<1>15. Got'
  <2>1. new.since <= version /\ Reads(new.bytes, new.file, new.off, new.since)
    BY <1>3, <1>5 DEF Inv, Got
  <2> QED BY <1>1, <1>6, <2>1 DEF Inv, Got
<1>16. NoOrphanStreams'
  <2>1. \A h \in streams' : h \in streams \/ h = fh_id
    BY <1>1
  <2>2. \A h \in streams : h # NoFh
    BY NoFhIs DEF Inv, Types
  <2>3. pc # "release" /\ releases' = releases
    BY <1>1
  <2> QED BY <1>3, <1>5, <1>6, <2>1, <2>2, <2>3 DEF Inv, NoOrphanStreams
<1> QED BY <1>10, <1>11, <1>14, <1>15, <1>16 DEF Inv

\* reply.data or reply.error to a read whose bytes are those it asked for.
LEMMA AnswerInv ==
  ASSUME Inv, pc = "read", NEW res \in Errnos \cup {"data"}, NEW bytes \in Texts, Answer(res, bytes),
         Reads(bytes, proc[cur.proc].file, cur.off, proc[cur.proc].since),
         handles' \in [1..MaxFh -> Handle],
         \A h \in 1..MaxFh : /\ handles'[h].kind = handles[h].kind /\ handles'[h].file = handles[h].file
                             /\ handles'[h].bytes = handles[h].bytes,
         failure' \in Failures
  PROVE  Inv'
<1> DEFINE p == cur.proc
           new == [proc[p] EXCEPT !.st = "open", !.res = res, !.bytes = bytes]
<1>1. /\ proc' = [proc EXCEPT ![p] = new] /\ Idle
      /\ UNCHANGED <<version, queue, releases, fh_counter, streams>>
  BY DEF Answer
<1>2. pc \in Serving \ {"open"}
  BY DEF Serving, Allocated
<1>3. /\ p \in Procs /\ proc[p] \in Process /\ proc[p].st = "waiting"
      /\ proc[p].fh = cur.fh /\ proc[p].fh # NoFh /\ proc[p].off = cur.off
  <2>1. cur.op = "read"
    BY <1>2 DEF Inv, Requests
  <2> QED BY <1>2, <2>1, Served DEF Asked
<1>4. /\ new \in Process
      /\ new.st = "open" /\ new.fh = proc[p].fh /\ new.file = proc[p].file /\ new.since = proc[p].since
      /\ new.bytes = bytes /\ new.off = cur.off /\ new.res = res
  BY <1>3 DEF Process
<1> HIDE DEF new
<1>5. /\ proc' \in [Procs -> Process] /\ proc'[p] = new
      /\ \A r \in Procs : r # p => proc'[r] = proc[r]
  BY <1>1, <1>3, <1>4 DEF Inv, Types
<1>6. Bound' /\ Requests' /\ Opening' /\ FailuresStayLocal' /\ pc' = "idle" /\ fh_id' = NoFh
  BY <1>1, <1>2, <1>5, Finished
<1>7. Types'
  BY <1>1, <1>5, NoFhIs, EmptyText DEF Inv, Types, Idle, NoParts, Answered, Failures
<1>8. pc' # "release" /\ pc' \notin Allocated
  BY <1>6 DEF Allocated
<1>9. \A r \in Procs : /\ proc'[r].fh = proc[r].fh /\ proc'[r].file = proc[r].file
                       /\ proc'[r].since = proc[r].since
                       /\ proc'[r].st # "closed" <=> proc[r].st # "closed"
                       /\ proc'[r].st = "open" => proc'[r].fh # NoFh
  BY <1>3, <1>4, <1>5 DEF Inv, Held
<1>10. Held'
  <2>1. ASSUME NEW r \in Procs, proc[r].fh # NoFh PROVE Holds(r)'
    <3>1. Holds(r)
      BY <2>1 DEF Inv, Held
    <3>2. LET h == proc[r].fh
          IN  /\ handles'[h].kind = handles[h].kind /\ handles'[h].file = handles[h].file
              /\ handles'[h].bytes = handles[h].bytes
      BY <3>1 DEF Holds
    <3> QED BY <1>1, <1>8, <1>9, <3>1, <3>2 DEF Holds
  <2> QED BY <1>1, <1>8, <1>9, <2>1 DEF Inv, Held
<1>11. Got'
  <2>1. new.since <= version /\ Reads(new.bytes, new.file, new.off, new.since)
    BY <1>3, <1>4 DEF Inv, Got
  <2> QED BY <1>1, <1>5, <2>1 DEF Inv, Got
<1>12. NoOrphanStreams'
  <2>1. pc # "release" /\ UNCHANGED <<streams, releases>>
    BY <1>1
  <2> QED BY <1>9, <2>1 DEF Inv, NoOrphanStreams
<1> QED BY <1>6, <1>7, <1>10, <1>11, <1>12 DEF Inv

\* What a read finds: the handle its process opened.
LEMMA ReadFinds ==
  ASSUME Inv, pc = "read"
  PROVE  LET pr == proc[cur.proc]
             h  == handles[cur.fh]
         IN  /\ cur.fh \in 1..MaxFh /\ cur.off \in Nat /\ cur.size \in Nat /\ cur.size > 0
             /\ h \in Handle /\ h.file = pr.file
             /\ h.kind = (IF pr.file = StreamFile THEN "stream" ELSE "special")
             /\ Reads(h.bytes, pr.file, 0, pr.since)
<1>1. cur.op = "read" /\ pc \in Serving
  BY DEF Inv, Requests, Serving
<1>2. cur.proc \in Procs /\ proc[cur.proc].fh = cur.fh /\ cur.fh # NoFh
  BY <1>1, Served DEF Asked
<1>3. Holds(cur.proc)
  BY <1>2 DEF Inv, Held
<1>4. cur.off \in Nat /\ cur.size \in Nat /\ cur.size > 0
  BY <1>1, Served, RequestFields DEF Asked
<1> QED BY <1>2, <1>3, <1>4, ProcHandle DEF Holds

\* read of .schema or README.md: a slice of the text.
LEMMA ReadSpecialInv == Inv /\ ReadSpecial => Inv'
<1> SUFFICES ASSUME Inv, ReadSpecial PROVE Inv'
  OBVIOUS
<1> DEFINE h == handles[cur.fh]
<1>1. pc = "read" /\ h.kind # "stream" /\ UNCHANGED <<handles, failure>>
  BY DEF ReadSpecial
<1>2. h.kind = "special" /\ h \in Handle /\ cur.off \in Nat /\ cur.size \in Nat /\ cur.size > 0
  BY <1>1, ReadFinds
<1>3. PICK bytes : bytes = Slice(h.bytes, cur.off, cur.size)
  OBVIOUS
<1>4. Answer("data", bytes)
  BY <1>2, <1>3 DEF ReadSpecial
<1>5. h.bytes \in Texts /\ Reads(h.bytes, proc[cur.proc].file, 0, proc[cur.proc].since)
  BY <1>1, <1>2, ReadFinds, HandleFields
<1>6. /\ bytes \in Texts
      /\ Reads(bytes, proc[cur.proc].file, cur.off, proc[cur.proc].since)
      /\ bytes = <<>> => cur.off >= Len(h.bytes)
  BY <1>2, <1>3, <1>5, SliceTells
<1>7. handles' \in [1..MaxFh -> Handle] /\ failure' \in Failures
  BY <1>1 DEF Inv, Types, Failures
<1> QED BY <1>1, <1>4, <1>6, <1>7, AnswerInv

\* read of a stream: bytes at the cursor, end of file or an error.
LEMMA ReadStreamInv == Inv /\ ReadStream => Inv'
<1> SUFFICES ASSUME Inv, ReadStream PROVE Inv'
  OBVIOUS
<1> DEFINE h == handles[cur.fh]
           p == cur.proc
<1>1. pc = "read" /\ h.kind = "stream"
  BY DEF ReadStream
<1>2. /\ proc[p].file = StreamFile /\ h.file = StreamFile
      /\ cur.fh \in 1..MaxFh /\ cur.off \in Nat /\ cur.size \in Nat
      /\ h \in Handle /\ h.pos \in 0..MaxPos
  BY <1>1, ReadFinds, HandleFields
<1>3. /\ handles \in [1..MaxFh -> Handle] /\ failure \in Failures
      /\ \A f, off, since : Reads(<<>>, f, off, since)
      /\ <<>> \in Texts
  BY EmptyText DEF Inv, Types, Failures
<1>4. CASE Answer("EIO", <<>>) /\ UNCHANGED <<handles, failure>>
  <2>1. "EIO" \in Errnos /\ "EIO" # "data"
    BY DEF Errnos
  <2> QED BY <1>1, <1>3, <1>4, <2>1, AnswerInv
<1>5. CASE \E n \in 0..cur.size :
             /\ cur.off + n <= MaxPos
             /\ Answer("data", StreamBytes(cur.off, n))
             /\ handles' = [handles EXCEPT ![cur.fh].pos = @ + n]
             /\ UNCHANGED failure
             /\ cur.off = h.pos
  <2>1. PICK n \in 0..cur.size : /\ cur.off + n <= MaxPos /\ cur.off = h.pos
                                 /\ Answer("data", StreamBytes(cur.off, n))
                                 /\ handles' = [handles EXCEPT ![cur.fh].pos = @ + n]
                                 /\ UNCHANGED failure
    BY <1>5
  <2>2. PICK bytes : bytes = StreamBytes(cur.off, n)
    OBVIOUS
  <2>3. n \in Nat
    BY <1>2
  <2>4. bytes \in Texts /\ Reads(bytes, StreamFile, cur.off, proc[p].since)
    BY <1>2, <2>1, <2>2, <2>3, StreamTells
  <2>5. h.pos + n \in 0..MaxPos
    BY <1>2, <2>1, <2>3, ClickFsAssumption
  <2>6. handles' \in [1..MaxFh -> Handle]
    BY <1>2, <1>3, <2>1, <2>5 DEF Handle
  <2>7. \A g \in 1..MaxFh : /\ handles'[g].kind = handles[g].kind /\ handles'[g].file = handles[g].file
                            /\ handles'[g].bytes = handles[g].bytes
    BY <1>2, <1>3, <2>1 DEF Handle
  <2> QED BY <1>1, <1>2, <1>3, <2>1, <2>2, <2>4, <2>6, <2>7, AnswerInv
<1>6. CASE StreamFails /\ Answer(failure'.errno, <<>>) /\ UNCHANGED handles
  <2>1. failure' \in Failures /\ failure'.errno \in Errnos
    <3>1. CASE failure' = [errno |-> to_errno(Stream), cause |-> Cause("network", 0), left |-> Nothing]
      <4>1. to_errno(Stream) \in Errnos /\ Cause("network", 0) \in Causes
        BY ErrnoType DEF Causes
      <4>2. \A x \in Errnos, c \in Causes : /\ [errno |-> x, cause |-> c, left |-> Nothing] \in Failures
                                            /\ [errno |-> x, cause |-> c, left |-> Nothing].errno = x
        BY DEF Failures
      <4> QED BY <3>1, <4>1, <4>2
    <3> QED BY <1>6, <3>1, FailsType DEF StreamFails
  <2>2. PICK res \in Errnos : res = failure'.errno
    BY <2>1
  <2>3. Answer(res, <<>>)
    BY <1>6, <2>2
  <2>4. res # "data"
    BY DEF Errnos
  <2> QED BY <1>1, <1>3, <1>6, <2>1, <2>3, <2>4, AnswerInv
<1> QED BY <1>4, <1>5, <1>6 DEF ReadStream

\* release removes an entry that no process has.
LEMMA ReleaseInv == Inv /\ Release => Inv'
<1> SUFFICES ASSUME Inv, Release PROVE Inv'
  OBVIOUS
<1>1. /\ pc = "release" /\ handles' = [handles EXCEPT ![cur.fh] = NoHandle]
      /\ streams' = streams \ {cur.fh} /\ Idle
      /\ UNCHANGED <<version, proc, queue, releases, fh_counter, failure>>
  BY DEF Release
<1>2. cur.fh \in 1..MaxFh
  BY <1>1 DEF Inv, Held
<1>3. NoHandle \in Handle
  <2>1. SchemaFile \in Files /\ 0 \in 0..MaxPos
    BY ClickFsAssumption DEF Files
  <2> QED BY <2>1, EmptyText DEF NoHandle, Handle
<1>4. /\ handles' \in [1..MaxFh -> Handle]
      /\ \A h \in 1..MaxFh : h # cur.fh => handles'[h] = handles[h]
  BY <1>1, <1>2, <1>3 DEF Inv, Types
<1>5. pc' = "idle" /\ text' = <<>> /\ parts' = NoParts /\ fh_id' = NoFh /\ pc' \notin Allocated
  BY <1>1 DEF Idle, Allocated
<1>6. Types'
  BY <1>1, <1>4, <1>5, NoFhIs, EmptyText DEF Inv, Types, NoParts, Answered
<1>7. Bound'
  BY <1>1, <1>5 DEF Inv, Bound, Opens
<1>8. Requests'
  BY <1>1, <1>5 DEF Inv, Requests, Asked, Serving
<1>9. \A p \in Procs : proc[p].fh # NoFh => Holds(p) /\ handles'[proc[p].fh] = handles[proc[p].fh]
  BY <1>1, <1>4 DEF Inv, Held, Holds
<1>10. Held'
  <2>1. ASSUME NEW p \in Procs, proc[p].fh # NoFh PROVE Holds(p)'
    BY <1>1, <1>5, <1>9, <2>1 DEF Holds
  <2> QED BY <1>1, <1>5, <2>1 DEF Inv, Held
<1>11. Opening' /\ FailuresStayLocal'
  BY <1>5 DEF Opening, FailuresStayLocal, NoParts
<1>12. Got'
  BY <1>1 DEF Inv, Got
<1>13. NoOrphanStreams'
  BY <1>1 DEF Inv, NoOrphanStreams
<1> QED BY <1>6, <1>7, <1>8, <1>10, <1>11, <1>12, <1>13 DEF Inv

-----------------------------------------------------------------------------
(* The theorems.                                                            *)

\* A step that changes nothing keeps the invariant.
LEMMA StutterInv == Inv /\ UNCHANGED vars => Inv'
<1> SUFFICES ASSUME Inv, UNCHANGED vars PROVE Inv'
  OBVIOUS
<1> USE DEF vars
<1>1. Types' /\ Bound'
  BY DEF Inv, Types, Bound, Opens
<1>2. Requests'
  BY DEF Inv, Requests, Asked
<1>3. Held'
  BY DEF Inv, Held, Holds
<1>4. Opening' /\ FailuresStayLocal'
  BY DEF Inv, Opening, FailuresStayLocal, file
<1>5. Got' /\ NoOrphanStreams'
  BY DEF Inv, Got, NoOrphanStreams
<1> QED BY <1>1, <1>2, <1>3, <1>4, <1>5 DEF Inv

\* Every reachable state satisfies the invariant.
THEOREM Invariant == Spec => []Inv
<1>1. Inv /\ [Next]_vars => Inv'
  <2>1. Inv /\ Dispatcher => Inv'
    BY TakeInv, TakeReleaseInv, OpenStartInv, DescribeInv, SubQueryInv, RenderInv, OrderExprInv,
       InsertInv, ReadSpecialInv, ReadStreamInv, ReleaseInv DEF Dispatcher
  <2>2. Inv /\ Done => Inv'
    BY StutterInv DEF Done
  <2> QED BY <2>1, <2>2, AlterInv, SysOpenInv, SysReadInv, SysCloseInv, StutterInv DEF Next
<1> QED BY <1>1, InitInv, PTL DEF Spec

\* Requests, handles and replies of open, read and release are well formed, and no
\* byte of a text lies past the end of the text it was cut from.
THEOREM TypeCorrect == Spec => []TypeOK
<1>1. Inv => TypeOK
  <2> SUFFICES ASSUME Inv PROVE TypeOK
    OBVIOUS
  <2>1. \A t \in Texts : IsText(t)
    BY DEF Texts
  <2>2. \A p \in Procs : /\ proc[p].st \in {"closed", "waiting", "open"} /\ proc[p].fh \in 0..MaxFh
                         /\ proc[p].res \in Errnos \cup {"none", "data", "EBADF"} /\ IsText(proc[p].bytes)
    <3>1. \A p \in Procs : proc[p] \in Process
      BY ProcHandle
    <3> QED BY <2>1, <3>1, ProcessFields
  <2>3. \A h \in 1..MaxFh : /\ handles[h].kind \in {"none", "special", "stream"}
                            /\ IsText(handles[h].bytes) /\ handles[h].pos \in 0..MaxPos
    <3>1. \A h \in 1..MaxFh : handles[h] \in Handle
      BY ProcHandle
    <3> QED BY <2>1, <3>1, HandleFields
  <2>4. fh_counter \in 1..(MaxFh + 1)
    <3>1. fh_counter \in Nat \ {0} /\ Cardinality(Waiting(queue)) \in Nat
      BY WaitingIsFinite DEF Inv, Types
    <3> QED BY <3>1, OpensOf, ClickFsAssumption DEF Inv, Bound
  <2> QED BY <2>2, <2>3, <2>4 DEF Inv, Types, TypeOK, Failures
<1> QED BY <1>1, Invariant, PTL

\* A process reads the file it opened, at the offset it asked for, and .schema in one
\* version: fh_counter and the table of handles never confuse two opens.
THEOREM HandlesAreNotConfused == Spec => []ReadsTheOpenedFile
<1>1. Inv => ReadsTheOpenedFile
  <2> SUFFICES ASSUME Inv, NEW p \in Procs, NEW i \in 1..Len(proc[p].bytes)
               PROVE  LET b == proc[p].bytes[i]
                      IN  /\ b.file = proc[p].file /\ b.at = proc[p].off + i
                          /\ b.file = SchemaFile => b.ver = proc[p].bytes[1].ver
    BY DEF ReadsTheOpenedFile
  <2> QED BY DEF Inv, Got, Reads
<1> QED BY <1>1, Invariant, PTL

\* read never answers EBADF: an entry is removed by the RELEASE of its handle only,
\* and that comes after the last read.
THEOREM HandlesAreKnown == Spec => []HeldIsKnown
<1>1. Inv => HeldIsKnown
  <2> SUFFICES ASSUME Inv, NEW p \in Procs PROVE proc[p].res # "EBADF"
    BY DEF HeldIsKnown
  <2>1. proc[p].res \in Errnos \cup {"none", "data"}
    BY ProcHandle, ProcessFields
  <2> QED BY <2>1 DEF Errnos
<1> QED BY <1>1, Invariant, PTL

\* What a process reads from .schema or README.md was true of the table after it had
\* called open: texts are made by the open and are nobody else's.
THEOREM TextsAreFresh == Spec => []FreshOnOpen
<1>1. Inv => FreshOnOpen
  <2> SUFFICES ASSUME Inv, NEW p \in Procs, NEW i \in 1..Len(proc[p].bytes)
               PROVE  LET b == proc[p].bytes[i]
                      IN  b.file # StreamFile /\ b.ver \in Versions => b.ver >= proc[p].since
    BY DEF FreshOnOpen
  <2> QED BY DEF Inv, Got, Reads
<1> QED BY <1>1, Invariant, PTL

\* render shows what every sub-query answered, makes unavailable what failed, and
\* nothing else but the stats, which need the count.
THEOREM FailuresAreLocal == Spec => []FailuresStayLocal
<1>1. Inv => FailuresStayLocal
  BY DEF Inv
<1> QED BY <1>1, Invariant, PTL

\* A StreamHandle that is alive belongs to a file some process has open, or its
\* RELEASE is on the way.
THEOREM StreamsAreOwned == Spec => []NoOrphanStreams
<1>1. Inv => NoOrphanStreams
  BY DEF Inv
<1> QED BY <1>1, Invariant, PTL

-----------------------------------------------------------------------------
(* Files of their own (OpenFiles).                                          *)

\* A process has one read under way, and that is the one it waits for.
LEMMA AsksOne ==
  ASSUME Inv, NEW p \in Procs, NEW r \in Asks(p)
  PROVE  /\ Asks(p) = {r}
         /\ r.op = "read" /\ r.proc = p
         /\ proc[p].st = "waiting" /\ proc[p].fh # NoFh /\ proc[p].off = r.off
<1>1. \A q \in Asks(p) : q.op = "read" /\ q.proc = p /\ Asked(q)
  BY DEF Asks, Inv, Requests, Serving
<1>2. \A q \in Asks(p) : q = r
  <2>1. \A i, j \in 1..Len(queue) : queue[i].proc = p /\ queue[j].proc = p => i = j
    BY DEF Inv, Requests
  <2>2. pc = "read" /\ cur.proc = p => \A i \in 1..Len(queue) : queue[i].proc # p
    BY DEF Inv, Requests, Serving
  <2> QED BY <2>1, <2>2 DEF Asks
<1> QED BY <1>1, <1>2 DEF Asked

\* The size a process waits for.
LEMMA SizeIs == \A p : /\ Asks(p) = {} => Size(p) = 0
                       /\ \A r : Asks(p) = {r} => Size(p) = r.size
BY DEF Size

\* A process that waits for no read asks for nothing.
LEMMA AsksNothing ==
  ASSUME Inv, NEW p \in Procs, proc[p].st # "waiting" \/ proc[p].fh = NoFh
  PROVE  Asks(p) = {} /\ Size(p) = 0
BY AsksOne, SizeIs

\* What a process sees, field by field.
View(st, f, ans, txt, pos, off, size, res, bytes) ==
  [st |-> st, file |-> f, parts |-> ans, text |-> txt, pos |-> pos,
   off |-> off, size |-> size, res |-> res, bytes |-> bytes]

IsView(v) == v = View(v.st, v.file, v.parts, v.text, v.pos, v.off, v.size, v.res, v.bytes)

\* A file that is closed becomes one that is opened.
LEMMA ViewOpening ==
  ASSUME NEW v, IsView(v), NEW st, NEW f
  PROVE  [v EXCEPT !.st = st, !.file = f] =
           View(st, f, v.parts, v.text, v.pos, v.off, v.size, v.res, v.bytes)
<1>1. PICK w : w = [v EXCEPT !.st = st]
  OBVIOUS
<1>2. w = View(st, v.file, v.parts, v.text, v.pos, v.off, v.size, v.res, v.bytes)
  BY <1>1 DEF IsView, View
<1>3. [v EXCEPT !.st = st, !.file = f] = [w EXCEPT !.file = f]
  BY <1>1
<1> QED BY <1>2, <1>3 DEF View

LEMMA Viewed == (\A p : IsView(Mine(p))) /\ IsView(Private!NoView)
BY DEF Mine, Private!NoView, IsView, View

\* What another process sees when one is served.
LEMMA Others ==
  ASSUME NEW r \in Procs, proc'[r] = proc[r], Asks(r)' = Asks(r),
         pc \in {"render", "insert"} => cur.proc # r,
         pc' \in {"render", "insert"} => cur'.proc # r,
         proc[r].fh # NoFh => /\ handles'[proc[r].fh].bytes = handles[proc[r].fh].bytes
                              /\ handles'[proc[r].fh].pos = handles[proc[r].fh].pos
  PROVE  Mine(r)' = Mine(r)
BY DEF Mine, Size

\* What other processes see of a system call.
LEMMA Aside ==
  ASSUME NEW p \in Procs, \A r \in Procs : r # p => proc'[r] = proc[r] /\ Asks(r)' = Asks(r),
         UNCHANGED <<pc, cur, text, parts, handles>>
  PROVE  \A r \in Procs : r # p => Mine(r)' = Mine(r)
<1> SUFFICES ASSUME NEW r \in Procs, r # p PROVE Mine(r)' = Mine(r)
  OBVIOUS
<1> QED BY DEF Mine, Size

\* A step that no process sees, and one that one process sees.
LEMMA Unseen ==
  ASSUME \A r \in Procs : Mine(r)' = Mine(r), UNCHANGED version
  PROVE  UNCHANGED Private!vars
BY DEF Private!vars

LEMMA Seen ==
  ASSUME NEW p \in Procs, NEW from, NEW new, Mine(p).st = from, Mine(p)' = new,
         \A r \in Procs : r # p => Mine(r)' = Mine(r), UNCHANGED version
  PROVE  Private!Becomes(p, from, new)
<1> DEFINE v == [r \in Procs |-> Mine(r)]
<1>1. v[p].st = from
  OBVIOUS
<1>2. v' = [v EXCEPT ![p] = new]
  OBVIOUS
<1> QED BY <1>1, <1>2 DEF Private!Becomes

\* The stages of a file, field by field.
LEMMA FetchSeen ==
  ASSUME NEW p \in Procs, NEW txt, Mine(p).st = "opening",
         Mine(p)' = View("fetched", Mine(p).file, NoParts, txt, Mine(p).pos, Mine(p).off,
                         Mine(p).size, Mine(p).res, Mine(p).bytes),
         Mine(p).file = ReadmeFile => \A q \in SubQueries : Mine(p).parts[q] # Pending,
         txt = CASE Mine(p).file = SchemaFile -> SchemaText(version)
                 [] Mine(p).file = ReadmeFile -> ReadmeText(Mine(p).parts)
                 [] Mine(p).file = StreamFile -> <<>>,
         \A r \in Procs : r # p => Mine(r)' = Mine(r), UNCHANGED version
  PROVE  Private!Fetch(p)
<1>1. PICK v : v = Mine(p)
  OBVIOUS
<1>2. PICK w : w = [v EXCEPT !.st = "fetched"]
  OBVIOUS
<1>3. w = View("fetched", v.file, v.parts, v.text, v.pos, v.off, v.size, v.res, v.bytes)
  BY <1>1, <1>2, Viewed DEF IsView, View
<1>4. PICK x : x = [w EXCEPT !.text = txt]
  OBVIOUS
<1>5. x = View("fetched", v.file, v.parts, txt, v.pos, v.off, v.size, v.res, v.bytes)
  BY <1>3, <1>4 DEF View
<1>6. [v EXCEPT !.st = "fetched", !.text = txt, !.parts = NoParts] = [x EXCEPT !.parts = NoParts]
  BY <1>2, <1>4
<1>7. Mine(p)' = [Mine(p) EXCEPT !.st = "fetched", !.text = txt, !.parts = NoParts]
  <2>1. [x EXCEPT !.parts = NoParts] =
          View("fetched", v.file, NoParts, txt, v.pos, v.off, v.size, v.res, v.bytes)
    BY ONLY <1>5 DEF View
  <2> QED BY <1>1, <1>6, <2>1
<1>8. Private!Becomes(p, "opening", [Mine(p) EXCEPT !.st = "fetched", !.text = txt, !.parts = NoParts])
  BY <1>7, Seen
<1> DEFINE vw == [r \in Procs |-> Mine(r)]
<1>9. vw[p] = Mine(p) /\ Private!NoParts = NoParts
  BY DEF Private!NoParts, NoParts
<1>10. txt = Private!Fetched(p)
  BY DEF Private!Fetched
<1> QED BY <1>8, <1>9, <1>10 DEF Private!Fetch

LEMMA ReadSeen ==
  ASSUME NEW p \in Procs, NEW off, NEW size, Mine(p).st = "open",
         Mine(p)' = View("reading", Mine(p).file, Mine(p).parts, Mine(p).text, Mine(p).pos,
                         off, size, "none", <<>>),
         \A r \in Procs : r # p => Mine(r)' = Mine(r), UNCHANGED version
  PROVE  Private!Read(p, off, size)
<1>1. PICK v : v = Mine(p)
  OBVIOUS
<1>2. PICK w : w = [v EXCEPT !.st = "reading"]
  OBVIOUS
<1>3. w = View("reading", v.file, v.parts, v.text, v.pos, v.off, v.size, v.res, v.bytes)
  BY <1>1, <1>2, Viewed DEF IsView, View
<1>4. PICK x : x = [w EXCEPT !.off = off]
  OBVIOUS
<1>5. x = View("reading", v.file, v.parts, v.text, v.pos, off, v.size, v.res, v.bytes)
  BY <1>3, <1>4 DEF View
<1>6. PICK y : y = [x EXCEPT !.size = size]
  OBVIOUS
<1>7. y = View("reading", v.file, v.parts, v.text, v.pos, off, size, v.res, v.bytes)
  BY <1>5, <1>6 DEF View
<1>8. PICK z : z = [y EXCEPT !.res = "none"]
  OBVIOUS
<1>9. z = View("reading", v.file, v.parts, v.text, v.pos, off, size, "none", v.bytes)
  BY <1>7, <1>8 DEF View
<1>10. [v EXCEPT !.st = "reading", !.off = off, !.size = size, !.res = "none", !.bytes = <<>>] =
         [z EXCEPT !.bytes = <<>>]
  BY <1>2, <1>4, <1>6, <1>8
<1>11. Mine(p)' = [Mine(p) EXCEPT !.st = "reading", !.off = off, !.size = size,
                                  !.res = "none", !.bytes = <<>>]
  BY <1>1, <1>9, <1>10 DEF View
<1>12. Private!Becomes(p, "open", [Mine(p) EXCEPT !.st = "reading", !.off = off, !.size = size,
                                                  !.res = "none", !.bytes = <<>>])
  BY <1>11, Seen
<1> QED BY <1>12 DEF Private!Read

LEMMA ReplySeen ==
  ASSUME NEW p \in Procs, NEW res, NEW bytes, NEW pos, Mine(p).st = "reading",
         Mine(p)' = View("open", Mine(p).file, Mine(p).parts, Mine(p).text, pos, Mine(p).off,
                         0, res, bytes),
         \A r \in Procs : r # p => Mine(r)' = Mine(r), UNCHANGED version
  PROVE  Private!Reply(p, res, bytes, pos)
<1>1. PICK v : v = Mine(p)
  OBVIOUS
<1>2. PICK w : w = [v EXCEPT !.st = "open"]
  OBVIOUS
<1>3. w = View("open", v.file, v.parts, v.text, v.pos, v.off, v.size, v.res, v.bytes)
  BY <1>1, <1>2, Viewed DEF IsView, View
<1>4. PICK x : x = [w EXCEPT !.size = 0]
  OBVIOUS
<1>5. x = View("open", v.file, v.parts, v.text, v.pos, v.off, 0, v.res, v.bytes)
  BY <1>3, <1>4 DEF View
<1>6. PICK y : y = [x EXCEPT !.res = res]
  OBVIOUS
<1>7. y = View("open", v.file, v.parts, v.text, v.pos, v.off, 0, res, v.bytes)
  BY <1>5, <1>6 DEF View
<1>8. PICK z : z = [y EXCEPT !.bytes = bytes]
  OBVIOUS
<1>9. z = View("open", v.file, v.parts, v.text, v.pos, v.off, 0, res, bytes)
  BY <1>7, <1>8 DEF View
<1>10. [v EXCEPT !.st = "open", !.size = 0, !.res = res, !.bytes = bytes, !.pos = pos] =
         [z EXCEPT !.pos = pos]
  BY <1>2, <1>4, <1>6, <1>8
<1>11. Mine(p)' = [Mine(p) EXCEPT !.st = "open", !.size = 0, !.res = res, !.bytes = bytes, !.pos = pos]
  BY <1>1, <1>9, <1>10 DEF View
<1>12. Private!Becomes(p, "reading",
         [Mine(p) EXCEPT !.st = "open", !.size = 0, !.res = res, !.bytes = bytes, !.pos = pos])
  BY <1>11, Seen
<1> QED BY <1>12 DEF Private!Reply

\* Requests in the queue.
Queued(q) == {q[i] : i \in 1..Len(q)}

LEMMA AsksIs == \A p : Asks(p) =
  {r \in Queued(queue) \cup (IF pc = "read" THEN {cur} ELSE {}) : r.op = "read" /\ r.proc = p}
BY DEF Asks, Queued

\* A process asks for something.
LEMMA AsksAppend ==
  ASSUME Inv, NEW p \in Procs, NEW req \in Request, req.proc = p,
         queue' = Append(queue, req), UNCHANGED <<pc, cur>>
  PROVE  /\ \A r \in Procs : r # p => Asks(r)' = Asks(r)
         /\ Asks(p)' = Asks(p) \cup (IF req.op = "read" THEN {req} ELSE {})
<1>1. PICK n \in Nat : /\ n = Len(queue) /\ Len(queue') = n + 1
                       /\ \A i \in 1..n : queue'[i] = queue[i]
                       /\ queue'[n + 1] = req
  BY AppendProperties, LenProperties DEF Inv, Types
<1>2. Queued(queue') = Queued(queue) \cup {req}
  <2>1. \A i \in 1..n + 1 : i \in 1..n \/ i = n + 1
    BY <1>1
  <2>2. \A i \in 1..n : i \in 1..n + 1
    BY <1>1
  <2>3. n + 1 \in 1..n + 1
    BY <1>1
  <2> QED BY <1>1, <2>1, <2>2, <2>3 DEF Queued
<1>3. \A r : Asks(r)' =
        {q \in Queued(queue') \cup (IF pc = "read" THEN {cur} ELSE {}) : q.op = "read" /\ q.proc = r}
  BY DEF Asks, Queued
<1> HIDE DEF Queued
<1>4. \A r \in Procs : r # p => Asks(r)' = Asks(r)
  BY <1>2, <1>3, AsksIs
<1>5. Asks(p)' = Asks(p) \cup (IF req.op = "read" THEN {req} ELSE {})
  BY <1>2, <1>3, AsksIs
<1> QED BY <1>4, <1>5

\* Another client alters the table.
LEMMA AlterSeen == Alter => Private!Alter
<1> SUFFICES ASSUME Alter PROVE Private!Alter
  OBVIOUS
<1>1. \A r \in Procs : Mine(r)' = Mine(r)
  BY DEF Alter, Mine, Size, Asks
<1> QED BY <1>1 DEF Alter, Private!Alter

\* open(2).
LEMMA SysOpenSeen ==
  ASSUME Inv, NEW p \in Procs, NEW f \in Files, SysOpen(p, f)
  PROVE  Private!Open(p, f)
<1> DEFINE new == [NoProc EXCEPT !.st = "waiting", !.file = f, !.since = version]
           req == [NoRequest EXCEPT !.op = "open", !.proc = p]
<1>1. /\ proc[p].st = "closed" /\ proc' = [proc EXCEPT ![p] = new] /\ queue' = Append(queue, req)
      /\ UNCHANGED <<version, pc, cur, locals, handles>>
  BY DEF SysOpen
<1>2. req \in Request /\ req.op = "open" /\ req.proc = p
  BY OpenRecords DEF Inv, Types, NoRequest
<1>3. /\ new.st = "waiting" /\ new.file = f /\ new.fh = NoFh
      /\ new.res = "none" /\ new.bytes = <<>> /\ new.off = 0
  BY DEF NoProc
<1> HIDE DEF new, req
<1>4. proc'[p] = new /\ \A r \in Procs : r # p => proc'[r] = proc[r]
  BY <1>1 DEF Inv, Types
<1>5. pc \in {"render", "insert"} => cur.proc # p
  BY <1>1, NotInFlight DEF Serving, Allocated
<1>6. Asks(p)' = {} /\ Size(p)' = 0 /\ \A r \in Procs : r # p => Asks(r)' = Asks(r)
  BY <1>1, <1>2, AsksNothing, AsksAppend DEF Size
<1>7. \A r \in Procs : r # p => Mine(r)' = Mine(r)
  BY <1>1, <1>4, <1>6, Aside
<1>8. Mine(p)' = [Private!NoView EXCEPT !.st = "opening", !.file = f]
  <2>1. Mine(p)' = View("opening", f, NoParts, <<>>, 0, 0, 0, "none", <<>>)
    BY <1>1, <1>3, <1>4, <1>5, <1>6 DEF Mine, View
  <2>2. PICK v : v = Private!NoView
    OBVIOUS
  <2>3. /\ IsView(v) /\ v.parts = NoParts /\ v.text = <<>> /\ v.pos = 0 /\ v.off = 0
        /\ v.size = 0 /\ v.res = "none" /\ v.bytes = <<>>
    BY <2>2, Viewed DEF Private!NoView, Private!NoParts, NoParts
  <2>4. [v EXCEPT !.st = "opening", !.file = f] =
          View("opening", f, v.parts, v.text, v.pos, v.off, v.size, v.res, v.bytes)
    BY ONLY <2>3, ViewOpening
  <2> QED BY <2>1, <2>2, <2>3, <2>4
<1>9. Mine(p).st = "closed"
  BY <1>1 DEF Mine
<1> QED BY <1>1, <1>7, <1>8, <1>9, Seen DEF Private!Open

\* read(2).
LEMMA SysReadSeen ==
  ASSUME Inv, NEW p \in Procs, NEW off \in Offsets, NEW size \in Sizes, SysRead(p, off, size)
  PROVE  Private!Read(p, off, size)
<1> DEFINE new == [proc[p] EXCEPT !.st = "waiting", !.off = off, !.res = "none", !.bytes = <<>>]
<1>1. off \in Nat /\ size \in Nat /\ size > 0
  BY ClickFsAssumption
<1>2. proc[p] \in Process /\ proc[p].direct = TRUE
  BY ProcHandle, ProcessFields
<1>3. PICK req : /\ req = [op |-> "read", proc |-> p, fh |-> proc[p].fh, off |-> off, size |-> size]
                 /\ queue' = Append(queue, req)
  BY <1>1, <1>2 DEF SysRead
<1>4. /\ proc[p].st = "open" /\ proc' = [proc EXCEPT ![p] = new]
      /\ UNCHANGED <<version, pc, cur, locals, handles>>
  BY <1>1, <1>2 DEF SysRead
<1>5. req \in Request /\ req.op = "read" /\ req.proc = p /\ req.size = size
  BY <1>1, <1>2, <1>3, ProcessFields DEF Request
<1>6. /\ new.st = "waiting" /\ new.off = off /\ new.res = "none" /\ new.bytes = <<>>
      /\ new.file = proc[p].file /\ new.fh = proc[p].fh
  BY <1>2 DEF Process
<1> HIDE DEF new
<1>7. proc'[p] = new /\ \A r \in Procs : r # p => proc'[r] = proc[r]
  BY <1>4 DEF Inv, Types
<1>8. proc[p].fh # NoFh /\ (pc \in {"render", "insert"} => cur.proc # p)
  BY <1>4, NotInFlight DEF Serving, Allocated, Inv, Held
<1>9. Asks(p) = {} /\ Asks(p)' = {req} /\ \A r \in Procs : r # p => Asks(r)' = Asks(r)
  BY <1>3, <1>4, <1>5, AsksNothing, AsksAppend
<1>10. Size(p)' = size
  BY <1>5, <1>9 DEF Size
<1>11. \A r \in Procs : r # p => Mine(r)' = Mine(r)
  BY <1>4, <1>7, <1>9, Aside
<1>12. Mine(p).st = "open" /\ Mine(p).file = proc[p].file /\ Mine(p).parts = NoParts
       /\ Mine(p).text = handles[proc[p].fh].bytes /\ Mine(p).pos = handles[proc[p].fh].pos
  BY <1>4, <1>8 DEF Mine
<1>13. Mine(p)' = View("reading", proc[p].file, NoParts, handles[proc[p].fh].bytes,
                       handles[proc[p].fh].pos, off, size, "none", <<>>)
  BY <1>4, <1>6, <1>7, <1>8, <1>10 DEF Mine, View
<1> QED BY <1>4, <1>11, <1>12, <1>13, ReadSeen

\* close(2).
LEMMA SysCloseSeen == ASSUME Inv, NEW p \in Procs, SysClose(p) PROVE Private!Close(p)
<1>1. /\ proc[p].st = "open" /\ proc' = [proc EXCEPT ![p] = NoProc]
      /\ UNCHANGED <<version, queue, pc, cur, locals, handles>>
  BY DEF SysClose
<1>2. proc'[p] = NoProc /\ \A r \in Procs : r # p => proc'[r] = proc[r]
  BY <1>1 DEF Inv, Types
<1>3. pc \in {"render", "insert"} => cur.proc # p
  BY <1>1, NotInFlight DEF Serving, Allocated
<1>4. \A r \in Procs : Asks(r)' = Asks(r)
  BY <1>1 DEF Asks
<1>5. Asks(p)' = {} /\ Size(p)' = 0
  BY <1>1, <1>4, AsksNothing DEF Size
<1>6. \A r \in Procs : r # p => Mine(r)' = Mine(r)
  BY <1>1, <1>2, <1>4, Aside
<1>7. Mine(p)' = Private!NoView
  BY <1>1, <1>2, <1>3, <1>5 DEF Mine, NoProc, Private!NoView, Private!NoParts, NoParts
<1>8. Mine(p).st = "open"
  BY <1>1 DEF Mine
<1> QED BY <1>1, <1>6, <1>7, <1>8, Seen DEF Private!Close

\* The dispatcher takes a request: it is in flight as before.
LEMMA TakeUnseen == Inv /\ Take => UNCHANGED Private!vars
<1> SUFFICES ASSUME Inv, Take PROVE UNCHANGED Private!vars
  OBVIOUS
<1>1. /\ pc = "idle" /\ queue # <<>> /\ cur' = Head(queue) /\ pc' = Head(queue).op /\ queue' = Tail(queue)
      /\ UNCHANGED <<version, proc, locals, handles>>
  BY DEF Take
<1>2. PICK n \in Nat : /\ n = Len(queue) /\ n > 0 /\ Len(queue') = n - 1
                       /\ \A i \in 1..n - 1 : queue'[i] = queue[i + 1]
                       /\ cur' = queue[1] /\ queue[1] \in Request
  <2>1. queue \in Seq(Request) /\ queue # <<>>
    BY <1>1 DEF Inv, Types
  <2> QED BY <1>1, <2>1, HeadTailProperties, EmptySeq, ElementOfSeq
<1>3. pc' \in {"open", "read"} /\ pc' = cur'.op
  BY <1>1, <1>2, RequestFields
<1>4. Queued(queue) = Queued(queue') \cup {cur'}
  <2>1. \A i \in 1..n : i = 1 \/ (i - 1 \in 1..n - 1 /\ queue'[i - 1] = queue[i])
    BY <1>2
  <2>2. \A i \in 1..n - 1 : i + 1 \in 1..n
    BY <1>2
  <2>3. 1 \in 1..n
    BY <1>2
  <2> QED BY <1>2, <2>1, <2>2, <2>3 DEF Queued
<1>5. \A r : Asks(r)' =
        {q \in Queued(queue') \cup (IF pc' = "read" THEN {cur'} ELSE {}) : q.op = "read" /\ q.proc = r}
  BY DEF Asks, Queued
<1>6. \A r \in Procs : Asks(r)' = Asks(r)
  BY <1>1, <1>3, <1>4, <1>5, AsksIs
<1>7. ASSUME NEW r \in Procs PROVE Mine(r)' = Mine(r)
  BY <1>1, <1>3, <1>6, Others
<1> QED BY <1>1, <1>7, Unseen

\* The dispatcher takes a RELEASE.
LEMMA TakeReleaseUnseen == Inv /\ (\E h \in releases : TakeRelease(h)) => UNCHANGED Private!vars
<1> SUFFICES ASSUME Inv, NEW h \in releases, TakeRelease(h) PROVE UNCHANGED Private!vars
  OBVIOUS
<1>1. /\ pc = "idle" /\ pc' = "release" /\ UNCHANGED <<version, proc, queue, locals, handles>>
  BY DEF TakeRelease
<1>2. \A r \in Procs : Mine(r)' = Mine(r)
  BY <1>1 DEF Mine, Size, Asks
<1> QED BY <1>1, <1>2, Unseen

\* The process whose open runs, and what it sees.
LEMMA Opener ==
  ASSUME Inv, pc \in Serving \ {"read"}
  PROVE  LET p == cur.proc
         IN  /\ p \in Procs /\ proc[p] \in Process /\ proc[p].st = "waiting" /\ proc[p].fh = NoFh
             /\ Asks(p) = {}
             /\ Mine(p) = View(IF pc = "insert" THEN "fetched" ELSE "opening", proc[p].file,
                               IF pc = "render" THEN parts ELSE NoParts,
                               IF pc = "insert" THEN text ELSE <<>>, 0,
                               proc[p].off, 0, "none", <<>>)
<1> DEFINE p == cur.proc
<1>1. cur \in Request /\ Asked(cur) /\ cur.proc \in Procs /\ proc[cur.proc] \in Process
      /\ cur.op # "read" /\ proc[p].st = "waiting"
  BY Served DEF Inv, Requests
<1>2. cur.op = "open"
  BY <1>1, RequestFields
<1>3. proc[p].fh = NoFh /\ proc[p].res = "none" /\ proc[p].bytes = <<>>
  BY <1>1, <1>2 DEF Asked
<1>4. Asks(p) = {} /\ Size(p) = 0
  BY <1>1, <1>3, AsksNothing
<1> QED BY <1>1, <1>3, <1>4 DEF Mine, View

\* While it runs, and when it is done, the others see nothing of it.
LEMMA OpenAside ==
  ASSUME Inv, pc \in Serving \ {"read"}, pc' # "read", cur' = cur \/ pc' = "idle",
         UNCHANGED queue, NEW p, p = cur.proc,
         \A r \in Procs : r # p => proc'[r] = proc[r],
         \A r \in Procs : r # p /\ proc[r].fh # NoFh => handles'[proc[r].fh] = handles[proc[r].fh]
  PROVE  Size(p)' = 0 /\ \A r \in Procs : r # p => Mine(r)' = Mine(r)
<1>1. \A r : Asks(r)' = Asks(r)
  BY DEF Asks
<1>2. Asks(p) = {}
  BY Opener
<1>3. ASSUME NEW r \in Procs, r # p PROVE Mine(r)' = Mine(r)
  BY <1>1, <1>3, Others
<1>4. Size(p)' = 0
  BY <1>1, <1>2 DEF Size
<1> QED BY <1>3, <1>4

\* open takes its handle; the tail may be off, and then a stream has its content.
LEMMA OpenStartSeen ==
  Inv /\ OpenStart => UNCHANGED Private!vars \/ \E p \in Procs : Private!Fetch(p)
<1> SUFFICES ASSUME Inv, OpenStart
             PROVE  UNCHANGED Private!vars \/ \E p \in Procs : Private!Fetch(p)
  OBVIOUS
<1> PICK p : p = cur.proc
  OBVIOUS
<1>1. /\ pc = "open" /\ UNCHANGED <<version, proc, queue, cur, text, parts, handles>>
  BY DEF OpenStart
<1>2. pc \in Serving \ {"read"} /\ text = <<>> /\ parts = NoParts
  BY <1>1 DEF Serving, Inv, Opening
<1>3. /\ p \in Procs /\ proc[p].st = "waiting" /\ proc[p].fh = NoFh
      /\ proc[p].res = "none" /\ proc[p].bytes = <<>> /\ proc[p].file \in Files
      /\ Mine(p) = View("opening", proc[p].file, NoParts, <<>>, 0, proc[p].off, 0, "none", <<>>)
  BY <1>1, <1>2, Opener, ProcessFields, Served DEF Asked
<1>4. /\ pc' \in {"describe", "render", "order", "insert"}
      /\ pc' = "insert" => proc[p].file = StreamFile
  BY <1>3, ClickFsAssumption DEF OpenStart, Files, file
<1>5. Size(p)' = 0 /\ \A r \in Procs : r # p => Mine(r)' = Mine(r)
  BY <1>1, <1>2, <1>4, OpenAside
<1>6. CASE pc' # "insert"
  <2>1. Mine(p)' = View("opening", proc[p].file, NoParts, <<>>, 0, proc[p].off, 0, "none", <<>>)
    BY <1>1, <1>2, <1>3, <1>5, <1>6 DEF Mine, View
  <2> QED BY <1>1, <1>3, <1>5, <2>1, Unseen
<1>7. CASE pc' = "insert"
  <2>1. Mine(p)' = View("fetched", proc[p].file, NoParts, <<>>, 0, proc[p].off, 0, "none", <<>>)
    BY <1>1, <1>2, <1>3, <1>5, <1>7 DEF Mine, View
  <2>2. /\ Mine(p).st = "opening" /\ Mine(p).file = StreamFile
        /\ Mine(p)' = View("fetched", Mine(p).file, NoParts, <<>>, Mine(p).pos, Mine(p).off,
                           Mine(p).size, Mine(p).res, Mine(p).bytes)
    BY <1>3, <1>4, <1>7, <2>1 DEF View
  <2>3. Private!Fetch(p)
    BY <1>1, <1>3, <1>5, <2>2, FetchSeen, ClickFsAssumption
  <2> QED BY <1>3, <2>3
<1> QED BY <1>6, <1>7

\* The content is there.
LEMMA OpenFetched ==
  ASSUME Inv, pc \in {"describe", "render", "order"}, pc' = "insert",
         UNCHANGED <<version, proc, queue, cur, handles>>,
         pc = "describe" => text' = SchemaText(version),
         pc = "render" => text' = ReadmeText(parts) /\ \A q \in SubQueries : parts[q] # Pending,
         pc = "order" => text' = <<>>
  PROVE  \E p \in Procs : Private!Fetch(p)
<1> PICK p : p = cur.proc
  OBVIOUS
<1>1. pc \in Serving \ {"read"}
  BY DEF Serving, Allocated
<1>2. /\ p \in Procs /\ proc[p].st = "waiting" /\ proc[p].fh = NoFh
      /\ proc[p].res = "none" /\ proc[p].bytes = <<>>
      /\ Mine(p) = View("opening", proc[p].file, IF pc = "render" THEN parts ELSE NoParts,
                        <<>>, 0, proc[p].off, 0, "none", <<>>)
  BY <1>1, Opener, Served DEF Asked
<1>3. Size(p)' = 0 /\ \A r \in Procs : r # p => Mine(r)' = Mine(r)
  BY <1>1, OpenAside
<1>4. Mine(p)' = View("fetched", proc[p].file, NoParts, text', 0, proc[p].off, 0, "none", <<>>)
  BY <1>2, <1>3 DEF Mine, View
<1>5. /\ Mine(p).st = "opening" /\ Mine(p).file = proc[p].file
      /\ pc = "render" => Mine(p).parts = parts
      /\ Mine(p)' = View("fetched", Mine(p).file, NoParts, text', Mine(p).pos, Mine(p).off,
                         Mine(p).size, Mine(p).res, Mine(p).bytes)
  BY <1>2, <1>4 DEF View
<1>6. /\ pc = "describe" => proc[p].file = SchemaFile
      /\ pc = "render" => proc[p].file = ReadmeFile
      /\ pc = "order" => proc[p].file = StreamFile
  BY DEF Inv, Opening, file
<1>7. text' = CASE Mine(p).file = SchemaFile -> SchemaText(version)
                [] Mine(p).file = ReadmeFile -> ReadmeText(Mine(p).parts)
                [] Mine(p).file = StreamFile -> <<>>
  BY <1>5, <1>6, ClickFsAssumption
<1>8. Mine(p).file = ReadmeFile => \A q \in SubQueries : Mine(p).parts[q] # Pending
  BY <1>5, <1>6, ClickFsAssumption
<1>9. PICK txt : txt = text'
  OBVIOUS
<1>10. Private!Fetch(p)
  BY <1>2, <1>3, <1>5, <1>7, <1>8, <1>9, FetchSeen
<1> QED BY <1>2, <1>10

\* fetch_describe answers, or the open fails and its process has no file again.
LEMMA DescribeSeen ==
  Inv /\ Describe => \E p \in Procs : Private!Fetch(p) \/ Private!OpenFails(p)
<1> SUFFICES ASSUME Inv, Describe
             PROVE  \E p \in Procs : Private!Fetch(p) \/ Private!OpenFails(p)
  OBVIOUS
<1>1. pc = "describe" /\ UNCHANGED <<version, queue, handles>>
  BY DEF Describe
<1>2. CASE pc' = "insert" /\ text' = Described /\ UNCHANGED <<proc, cur>>
  BY <1>1, <1>2, OpenFetched DEF Described
<1>3. CASE OpenFailed
  <2> PICK p : p = cur.proc
    OBVIOUS
  <2>1. pc \in Serving \ {"read"}
    BY <1>1 DEF Serving, Allocated
  <2>2. /\ pc' = "idle" /\ proc' = [proc EXCEPT ![p] = NoProc]
    BY <1>3 DEF OpenFailed, Idle
  <2>3. /\ p \in Procs
        /\ Mine(p) = View("opening", proc[p].file, NoParts, <<>>, 0, proc[p].off, 0, "none", <<>>)
    BY <1>1, <2>1, Opener
  <2>4. proc'[p] = NoProc /\ \A r \in Procs : r # p => proc'[r] = proc[r]
    BY <2>2, <2>3 DEF Inv, Types
  <2>5. Size(p)' = 0 /\ \A r \in Procs : r # p => Mine(r)' = Mine(r)
    BY <1>1, <2>1, <2>2, <2>4, OpenAside
  <2>6. Mine(p)' = Private!NoView
    BY <2>2, <2>4, <2>5 DEF Mine, NoProc, Private!NoView, Private!NoParts, NoParts
  <2>7. Mine(p).st = "opening" /\ Mine(p).file = SchemaFile
    BY <1>1, <2>3 DEF View, Inv, Opening, file
  <2>8. Private!Becomes(p, "opening", Private!NoView)
    BY <1>1, <2>3, <2>5, <2>6, <2>7, Seen
  <2> DEFINE vw == [r \in Procs |-> Mine(r)]
  <2>9. vw[p] = Mine(p)
    BY <2>3
  <2> QED BY <2>3, <2>7, <2>8, <2>9 DEF Private!OpenFails
<1> QED BY <1>2, <1>3 DEF Describe

\* One more answer for README.md.
LEMMA SubQuerySeen ==
  ASSUME Inv, NEW q \in SubQueries, SubQuery(q)
  PROVE  \E p \in Procs : Private!SubQuery(p, q)
<1> PICK p : p = cur.proc
  OBVIOUS
<1>1. /\ pc = "render" /\ parts[q] = Pending
      /\ UNCHANGED <<version, proc, queue, pc, cur, text, handles>>
  BY DEF SubQuery
<1>2. PICK ans \in Answers(q, version) : parts' = [parts EXCEPT ![q] = ans]
  BY DEF SubQuery
<1>3. pc \in Serving \ {"read"}
  BY <1>1 DEF Serving, Allocated
<1>4. /\ p \in Procs /\ proc[p].st = "waiting" /\ proc[p].fh = NoFh
      /\ proc[p].res = "none" /\ proc[p].bytes = <<>>
      /\ Mine(p) = View("opening", proc[p].file, parts, <<>>, 0, proc[p].off, 0, "none", <<>>)
  BY <1>1, <1>3, Opener, Served DEF Asked
<1>5. Size(p)' = 0 /\ \A r \in Procs : r # p => Mine(r)' = Mine(r)
  BY <1>1, <1>3, OpenAside
<1>6. Mine(p)' = View("opening", proc[p].file, parts', <<>>, 0, proc[p].off, 0, "none", <<>>)
  BY <1>1, <1>4, <1>5 DEF Mine, View
<1>7. Mine(p).st = "opening" /\ Mine(p).file = ReadmeFile /\ Mine(p).parts = parts
  BY <1>1, <1>4 DEF View, Inv, Opening, file
<1>8. Mine(p)' = [Mine(p) EXCEPT !.parts[q] = ans]
  <2>1. PICK v : v = Mine(p)
    OBVIOUS
  <2>2. [v EXCEPT !.parts[q] = ans] = [v EXCEPT !.parts = [v.parts EXCEPT ![q] = ans]]
    OBVIOUS
  <2>3. v = View("opening", proc[p].file, parts, <<>>, 0, proc[p].off, 0, "none", <<>>)
        /\ v.parts = parts
    BY <1>4, <1>7, <2>1
  <2>4. [v EXCEPT !.parts = parts'] =
          View("opening", proc[p].file, parts', <<>>, 0, proc[p].off, 0, "none", <<>>)
    BY <2>3 DEF View
  <2> QED BY <1>2, <1>6, <2>1, <2>2, <2>3, <2>4
<1>9. Private!Becomes(p, "opening", [Mine(p) EXCEPT !.parts[q] = ans])
  BY <1>1, <1>4, <1>5, <1>7, <1>8, Seen
<1> DEFINE vw == [r \in Procs |-> Mine(r)]
<1>10. vw[p] = Mine(p)
  BY <1>4
<1> QED BY <1>1, <1>2, <1>4, <1>7, <1>9, <1>10 DEF Private!SubQuery

\* README.md is put together; a stream needs nothing.
LEMMA RenderSeen == Inv /\ (Render \/ OrderExpr) => \E p \in Procs : Private!Fetch(p)
<1> SUFFICES ASSUME Inv, Render \/ OrderExpr PROVE \E p \in Procs : Private!Fetch(p)
  OBVIOUS
<1>1. CASE Render
  <2>1. /\ pc = "render" /\ pc' = "insert" /\ text' = ReadmeText(parts)
        /\ \A q \in SubQueries : parts[q] # Pending
        /\ UNCHANGED <<version, proc, queue, cur, handles>>
    BY <1>1 DEF Render
  <2> QED BY <2>1, OpenFetched
<1>2. CASE OrderExpr
  <2>1. /\ pc = "order" /\ pc' = "insert" /\ text' = text
        /\ UNCHANGED <<version, proc, queue, cur, handles>>
    BY <1>2 DEF OrderExpr
  <2>2. text = <<>>
    BY <2>1 DEF Inv, Opening
  <2> QED BY <2>1, <2>2, OpenFetched
<1> QED BY <1>1, <1>2

\* The handle is in the table and its process has it.
LEMMA InsertSeen == Inv /\ Insert => \E p \in Procs : Private!OpenDone(p)
<1> SUFFICES ASSUME Inv, Insert PROVE \E p \in Procs : Private!OpenDone(p)
  OBVIOUS
<1> PICK p : p = cur.proc
  OBVIOUS
<1> DEFINE new == [proc[p] EXCEPT !.st = "open", !.fh = fh_id, !.direct = TRUE]
           entry == [kind |-> IF file = StreamFile THEN "stream" ELSE "special",
                     file |-> file, bytes |-> text, pos |-> 0]
<1>1. /\ pc = "insert" /\ pc' = "idle" /\ UNCHANGED <<version, queue>>
      /\ proc' = [proc EXCEPT ![p] = new]
      /\ handles' = [handles EXCEPT ![fh_id] = entry]
  BY DEF Insert, Opened, Idle
<1>2. pc \in Serving \ {"read"} /\ pc \in Allocated
  BY <1>1 DEF Serving, Allocated
<1>3. /\ p \in Procs /\ proc[p] \in Process
      /\ Mine(p) = View("fetched", proc[p].file, NoParts, text, 0, proc[p].off, 0, "none", <<>>)
  BY <1>1, <1>2, Opener
<1>4. proc[p].res = "none" /\ proc[p].bytes = <<>>
  BY <1>2, Served DEF Asked
<1>5. /\ new.st = "open" /\ new.fh = fh_id /\ new.file = proc[p].file /\ new.off = proc[p].off
      /\ new.res = "none" /\ new.bytes = <<>> /\ entry.bytes = text /\ entry.pos = 0
  BY <1>3, <1>4 DEF Process
<1>6. fh_id \in 1..MaxFh /\ fh_id # NoFh
  BY <1>2, NoFhIs DEF Inv, Held
<1> HIDE DEF new, entry
<1>7. /\ proc'[p] = new /\ \A r \in Procs : r # p => proc'[r] = proc[r]
      /\ handles'[fh_id] = entry
      /\ \A r \in Procs : proc[r].fh # NoFh => handles'[proc[r].fh] = handles[proc[r].fh]
  BY <1>1, <1>2, <1>3, <1>6 DEF Inv, Types, Held, Holds
<1>8. Size(p)' = 0 /\ \A r \in Procs : r # p => Mine(r)' = Mine(r)
  BY <1>1, <1>2, <1>7, OpenAside
<1>9. Mine(p)' = View("open", proc[p].file, NoParts, text, 0, proc[p].off, 0, "none", <<>>)
  BY <1>1, <1>5, <1>6, <1>7, <1>8 DEF Mine, View
<1>10. Mine(p)' = [Mine(p) EXCEPT !.st = "open"]
  BY <1>3, <1>9 DEF View
<1>11. Mine(p).st = "fetched"
  BY <1>3 DEF View
<1>12. Private!Becomes(p, "fetched", [Mine(p) EXCEPT !.st = "open"])
  BY <1>1, <1>3, <1>8, <1>10, <1>11, Seen
<1> DEFINE vw == [r \in Procs |-> Mine(r)]
<1>13. vw[p] = Mine(p)
  BY <1>3
<1> QED BY <1>3, <1>12, <1>13 DEF Private!OpenDone

\* A slice is what SubSeq gives, past the end too.
LEMMA SliceIs ==
  ASSUME NEW t \in Texts, NEW off \in Nat, NEW size \in Nat
  PROVE  Slice(t, off, size) =
           SubSeq(t, off + 1, IF off + size < Len(t) THEN off + size ELSE Len(t))
<1>1. t \in Seq(Byte) /\ Len(t) \in Nat
  BY LenProperties DEF Texts
<1>2. CASE off >= Len(t)
  <2>1. SubSeq(t, off + 1, Len(t)) = <<>>
    <3> DEFINE s == SubSeq(t, off + 1, Len(t))
    <3>1. off + 1 \in Int /\ Len(t) \in Int /\ \A i \in off + 1..Len(t) : t[i] \in Byte
      BY <1>1, <1>2
    <3>2. s \in Seq(Byte) /\ Len(s) = IF off + 1 <= Len(t) THEN Len(t) - (off + 1) + 1 ELSE 0
      BY <3>1, SubSeqProperties
    <3>3. Len(s) = 0
      BY <1>1, <1>2, <3>2
    <3> HIDE DEF s
    <3>4. s = <<>>
      BY <3>2, <3>3, EmptySeq
    <3> QED BY <3>4 DEF s
  <2>2. ~(off + size < Len(t))
    BY <1>1, <1>2
  <2> QED BY <1>2, <2>1, <2>2 DEF Slice
<1>3. CASE ~(off >= Len(t))
  BY <1>3 DEF Slice
<1> QED BY <1>2, <1>3

\* The process whose read runs, and what it sees; the reply to it.
LEMMA Reader ==
  ASSUME Inv, pc = "read"
  PROVE  LET p == cur.proc
         IN  /\ p \in Procs /\ proc[p].fh = cur.fh
             /\ Mine(p) = View("reading", proc[p].file, NoParts, handles[cur.fh].bytes,
                               handles[cur.fh].pos, cur.off, cur.size, "none", <<>>)
<1>1. /\ pc \in Serving /\ cur.op = "read"
      /\ cur \in Request /\ Asked(cur) /\ cur.proc \in Procs
  BY Served DEF Serving, Inv, Requests
<1>2. /\ proc[cur.proc].st = "waiting" /\ proc[cur.proc].fh = cur.fh /\ cur.fh # NoFh
      /\ proc[cur.proc].off = cur.off
      /\ proc[cur.proc].res = "none" /\ proc[cur.proc].bytes = <<>>
  BY <1>1 DEF Asked
<1>3. cur \in Asks(cur.proc)
  BY <1>1 DEF Asks
<1>4. Size(cur.proc) = cur.size
  BY <1>1, <1>3, AsksOne, SizeIs
<1> QED BY <1>1, <1>2, <1>4 DEF Mine, View

LEMMA AnswerSeen ==
  ASSUME Inv, pc = "read", NEW res, NEW bytes, Answer(res, bytes),
         NEW p, p = cur.proc, NEW pos, pos = handles'[cur.fh].pos,
         handles'[cur.fh].bytes = handles[cur.fh].bytes,
         \A r \in Procs : r # p /\ proc[r].fh # NoFh => handles'[proc[r].fh] = handles[proc[r].fh]
  PROVE  Private!Reply(p, res, bytes, pos)
<1> DEFINE new == [proc[p] EXCEPT !.st = "open", !.res = res, !.bytes = bytes]
<1>1. /\ proc' = [proc EXCEPT ![p] = new] /\ pc' = "idle" /\ UNCHANGED <<version, queue>>
  BY DEF Answer, Idle
<1>2. /\ p \in Procs /\ proc[p].fh = cur.fh
      /\ Mine(p) = View("reading", proc[p].file, NoParts, handles[cur.fh].bytes,
                        handles[cur.fh].pos, cur.off, cur.size, "none", <<>>)
  BY Reader
<1>3. pc \in Serving /\ cur.op = "read" /\ cur.fh # NoFh /\ proc[p].off = cur.off /\ proc[p] \in Process
  BY Served DEF Serving, Inv, Requests, Asked
<1>4. /\ new.st = "open" /\ new.fh = cur.fh /\ new.file = proc[p].file /\ new.off = cur.off
      /\ new.res = res /\ new.bytes = bytes
  BY <1>2, <1>3 DEF Process
<1> HIDE DEF new
<1>5. proc'[p] = new /\ \A r \in Procs : r # p => proc'[r] = proc[r]
  BY <1>1, <1>2 DEF Inv, Types
<1>6. \A r : Asks(r)' = {q \in Queued(queue) : q.op = "read" /\ q.proc = r}
  BY <1>1 DEF Asks, Queued
<1>7. \A r \in Procs : r # p => Asks(r)' = Asks(r)
  BY <1>6, AsksIs
<1>8. \A q \in Queued(queue) : q.proc # p
  BY <1>3 DEF Inv, Requests, Queued
<1>9. Size(p)' = 0
  <2>1. Asks(p)' = {}
    BY <1>6, <1>8
  <2> QED BY <2>1 DEF Size
<1>10. \A r \in Procs : r # p => Mine(r)' = Mine(r)
  <2> SUFFICES ASSUME NEW r \in Procs, r # p PROVE Mine(r)' = Mine(r)
    OBVIOUS
  <2> QED BY <1>1, <1>5, <1>7, Others
<1>11. Mine(p)' = View("open", proc[p].file, NoParts, handles[cur.fh].bytes, pos, cur.off, 0, res, bytes)
  BY <1>1, <1>3, <1>4, <1>5, <1>9 DEF Mine, View
<1>12. /\ Mine(p).st = "reading"
       /\ Mine(p)' = View("open", Mine(p).file, Mine(p).parts, Mine(p).text, pos, Mine(p).off, 0, res, bytes)
  BY <1>2, <1>11 DEF View
<1> QED BY <1>1, <1>2, <1>10, <1>12, ReplySeen

\* What a process sees before its read is served.
LEMMA ReaderSees ==
  ASSUME Inv, pc = "read", NEW p, p = cur.proc
  PROVE  LET vw == [r \in Procs |-> Mine(r)]
         IN  /\ vw[p] = Mine(p) /\ p \in Procs
             /\ Mine(p).file = proc[p].file /\ Mine(p).text = handles[cur.fh].bytes
             /\ Mine(p).pos = handles[cur.fh].pos /\ Mine(p).off = cur.off /\ Mine(p).size = cur.size
BY Reader DEF View

\* read of .schema or README.md.
LEMMA ReadSpecialSeen == Inv /\ ReadSpecial => \E p \in Procs : Private!ReadText(p)
<1> SUFFICES ASSUME Inv, ReadSpecial PROVE \E p \in Procs : Private!ReadText(p)
  OBVIOUS
<1> PICK p : p = cur.proc
  OBVIOUS
<1> DEFINE h == handles[cur.fh]
           vw == [r \in Procs |-> Mine(r)]
<1>1. pc = "read" /\ h.kind # "stream" /\ UNCHANGED handles
  BY DEF ReadSpecial
<1>2. /\ h.kind = "special" /\ h \in Handle /\ proc[p].file # StreamFile
      /\ cur.off \in Nat /\ cur.size \in Nat /\ h.bytes \in Texts
  BY <1>1, ReadFinds, HandleFields
<1>3. PICK bytes : bytes = Slice(h.bytes, cur.off, cur.size)
  OBVIOUS
<1>4. Answer("data", bytes)
  BY <1>2, <1>3 DEF ReadSpecial
<1>5. Private!Reply(p, "data", bytes, h.pos)
  BY <1>1, <1>4, AnswerSeen
<1>6. bytes = SubSeq(h.bytes, cur.off + 1,
                     IF cur.off + cur.size < Len(h.bytes) THEN cur.off + cur.size ELSE Len(h.bytes))
  BY <1>2, <1>3, SliceIs
<1>7. /\ vw[p] = Mine(p) /\ p \in Procs /\ Mine(p).file = proc[p].file
      /\ Mine(p).text = h.bytes /\ Mine(p).pos = h.pos /\ Mine(p).off = cur.off /\ Mine(p).size = cur.size
  BY <1>1, ReaderSees
<1> HIDE DEF vw, h
<1>8. Private!ReadText(p)
  BY <1>2, <1>5, <1>6, <1>7 DEF Private!ReadText, vw
<1> QED BY <1>7, <1>8

\* read of a .tsv.
LEMMA ReadStreamSeen == Inv /\ ReadStream => \E p \in Procs : Private!ReadStream(p)
<1> SUFFICES ASSUME Inv, ReadStream PROVE \E p \in Procs : Private!ReadStream(p)
  OBVIOUS
<1> PICK p : p = cur.proc
  OBVIOUS
<1> DEFINE h == handles[cur.fh]
           vw == [r \in Procs |-> Mine(r)]
<1>1. pc = "read" /\ h.kind = "stream"
  BY DEF ReadStream
<1>2. /\ h \in Handle /\ proc[p].file = StreamFile /\ cur.fh \in 1..MaxFh
      /\ cur.off \in Nat /\ cur.size \in Nat
  BY <1>1, ReadFinds
<1>3. /\ vw[p] = Mine(p) /\ p \in Procs /\ Mine(p).file = StreamFile
      /\ Mine(p).pos = h.pos /\ Mine(p).off = cur.off /\ Mine(p).size = cur.size
  BY <1>1, <1>2, ReaderSees
<1>4. CASE Answer("EIO", <<>>) /\ UNCHANGED handles /\ cur.off # h.pos
  <2>1. Private!Reply(p, "EIO", <<>>, h.pos)
    BY <1>1, <1>4, AnswerSeen
  <2> QED BY <1>3, <1>4, <2>1 DEF Private!ReadStream
<1>5. CASE \E n \in 0..cur.size : /\ Answer("data", StreamBytes(cur.off, n)) /\ cur.off = h.pos
                                  /\ handles' = [handles EXCEPT ![cur.fh].pos = @ + n]
  <2>1. PICK n \in 0..cur.size : /\ Answer("data", StreamBytes(cur.off, n)) /\ cur.off = h.pos
                                 /\ handles' = [handles EXCEPT ![cur.fh].pos = @ + n]
    BY <1>5
  <2>2. PICK bytes : bytes = StreamBytes(cur.off, n)
    OBVIOUS
  <2>3. /\ handles'[cur.fh].pos = h.pos + n /\ handles'[cur.fh].bytes = h.bytes
        /\ \A g \in 1..MaxFh : g # cur.fh => handles'[g] = handles[g]
    BY <1>2, <2>1 DEF Inv, Types, Handle
  <2>4. \A r \in Procs : r # p /\ proc[r].fh # NoFh => proc[r].fh # cur.fh /\ proc[r].fh \in 1..MaxFh
    <3>1. proc[p].fh = cur.fh
      BY <1>1, Reader
    <3> QED BY <1>3, <3>1 DEF Inv, Held, Holds
  <2>5. Private!Reply(p, "data", bytes, h.pos + n)
    BY <1>1, <2>1, <2>2, <2>3, <2>4, AnswerSeen
  <2>6. bytes = [i \in 1..n |-> StreamByte(h.pos + i)]
    BY <2>1, <2>2 DEF StreamBytes
  <2> QED BY <1>3, <2>1, <2>5, <2>6 DEF Private!ReadStream
<1>6. CASE StreamFails /\ Answer(failure'.errno, <<>>) /\ UNCHANGED handles /\ cur.off = h.pos
  <2>1. failure'.errno \in Errnos
    <3>1. CASE failure' = [errno |-> to_errno(Stream), cause |-> Cause("network", 0), left |-> Nothing]
      BY <3>1, ErrnoType
    <3> QED BY <1>6, <3>1, FailsType DEF StreamFails
  <2>2. PICK e \in Errnos : e = failure'.errno
    BY <2>1
  <2>3. Answer(e, <<>>)
    BY <1>6, <2>2
  <2>4. Private!Reply(p, e, <<>>, h.pos)
    BY <1>1, <1>6, <2>3, AnswerSeen
  <2> QED BY <1>3, <1>6, <2>4 DEF Private!ReadStream
<1> QED BY <1>4, <1>5, <1>6 DEF ReadStream

\* release: nobody has that handle.
LEMMA ReleaseUnseen == Inv /\ Release => UNCHANGED Private!vars
<1> SUFFICES ASSUME Inv, Release PROVE UNCHANGED Private!vars
  OBVIOUS
<1>1. /\ pc = "release" /\ pc' = "idle" /\ UNCHANGED <<version, proc, queue>>
      /\ handles' = [handles EXCEPT ![cur.fh] = NoHandle]
  BY DEF Release, Idle
<1>2. ASSUME NEW r \in Procs PROVE Mine(r)' = Mine(r)
  <2>1. proc[r].fh # NoFh => handles'[proc[r].fh] = handles[proc[r].fh]
    BY <1>1 DEF Inv, Types, Held, Holds
  <2>2. Asks(r)' = Asks(r)
    BY <1>1 DEF Asks
  <2> QED BY <1>1, <2>1, <2>2, Others
<1> QED BY <1>1, <1>2, Unseen

\* A step that changes nothing.
LEMMA StutterUnseen == UNCHANGED vars => UNCHANGED Private!vars
BY DEF vars, Private!vars, Mine, Size, Asks

\* Every step is one of the specification of open files, or is not seen by any process.
LEMMA StepSeen == Inv /\ [Next]_vars => [Private!Next]_(Private!vars)
<1> SUFFICES ASSUME Inv, [Next]_vars PROVE Private!Next \/ UNCHANGED Private!vars
  OBVIOUS
<1>1. CASE Alter
  BY <1>1, AlterSeen DEF Private!Next
<1>2. CASE \E p \in Procs, f \in Files : SysOpen(p, f)
  <2>1. PICK p \in Procs, f \in Files : Private!Open(p, f)
    BY <1>2, SysOpenSeen
  <2> QED BY <2>1 DEF Private!Next, Files
<1>3. CASE \E p \in Procs, off \in Offsets, size \in Sizes : SysRead(p, off, size)
  <2>1. PICK p \in Procs, off \in Offsets, size \in Sizes : Private!Read(p, off, size)
    BY <1>3, SysReadSeen
  <2> QED BY <2>1 DEF Private!Next
<1>4. CASE \E p \in Procs : SysClose(p)
  <2>1. PICK p \in Procs : Private!Close(p)
    BY <1>4, SysCloseSeen
  <2> QED BY <2>1 DEF Private!Next
<1>5. CASE Take \/ (\E h \in releases : TakeRelease(h)) \/ Release
  BY <1>5, TakeUnseen, TakeReleaseUnseen, ReleaseUnseen
<1>6. CASE OpenStart \/ Render \/ OrderExpr
  <2>1. UNCHANGED Private!vars \/ \E p \in Procs : Private!Fetch(p)
    BY <1>6, OpenStartSeen, RenderSeen
  <2> QED BY <2>1 DEF Private!Next
<1>7. CASE Describe
  <2>1. PICK p \in Procs : Private!Fetch(p) \/ Private!OpenFails(p)
    BY <1>7, DescribeSeen
  <2> QED BY <2>1 DEF Private!Next
<1>8. CASE \E q \in SubQueries : SubQuery(q)
  <2>1. PICK q \in SubQueries, p \in Procs : Private!SubQuery(p, q)
    BY <1>8, SubQuerySeen
  <2> QED BY <2>1 DEF Private!Next
<1>9. CASE Insert
  <2>1. PICK p \in Procs : Private!OpenDone(p)
    BY <1>9, InsertSeen
  <2> QED BY <2>1 DEF Private!Next
<1>10. CASE ReadSpecial
  <2>1. PICK p \in Procs : Private!ReadText(p)
    BY <1>10, ReadSpecialSeen
  <2> QED BY <2>1 DEF Private!Next
<1>11. CASE ReadStream
  <2>1. PICK p \in Procs : Private!ReadStream(p)
    BY <1>11, ReadStreamSeen
  <2> QED BY <2>1 DEF Private!Next
<1>12. CASE Done \/ UNCHANGED vars
  BY <1>12, StutterUnseen DEF Done
<1> QED BY <1>1, <1>2, <1>3, <1>4, <1>5, <1>6, <1>7, <1>8, <1>9, <1>10, <1>11, <1>12 DEF Next, Dispatcher

\* No file is open at first.
LEMMA InitSeen == Init => Private!Init
<1> SUFFICES ASSUME Init PROVE Private!Init
  OBVIOUS
<1>1. \A p : Asks(p) = {} /\ Size(p) = 0
  BY DEF Init, Asks, Size, NoRequest
<1>2. \A p \in Procs : Mine(p) = Private!NoView
  BY <1>1 DEF Init, Mine, NoProc, NoRequest, NoFh, NoParts, Private!NoView, Private!NoParts
<1> QED BY <1>2 DEF Init, Private!Init

\* Processes share the dispatcher, fh_counter and the table of handles, and never notice:
\* each has a file of its own, whose content its open fixed, whose cursor only its own
\* reads move, and which its close gives up.
THEOREM FilesAreTheirOwn == Spec => FilesArePrivate
BY InitSeen, StepSeen, Invariant, PTL DEF Spec, FilesArePrivate, Private!Spec

=============================================================================
