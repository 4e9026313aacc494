----------------------------- MODULE HttpClient -----------------------------
(***************************************************************************)
(* How an HTTP exchange with ClickHouse becomes an answer or an errno:     *)
(* query_text, query_stream_with_id and classify_error of                  *)
(* src/src/driver.rs, parse_clickhouse_error and to_errno of               *)
(* src/src/error.rs.                                                       *)
(*                                                                         *)
(* A response is [net, status, header, body]. net says whether the         *)
(* connection held ("ok"), broke before the status line ("send") or while  *)
(* the body was read ("body"). header and body are the exception codes     *)
(* that X-ClickHouse-Exception-Code and the text `Code: NNN` report: a     *)
(* number, NoCode, or Garbage where the digits do not parse as i32.        *)
(***************************************************************************)
EXTENDS Integers

CONSTANTS
  Codes,     \* exception codes the server may report
  Statuses   \* HTTP statuses of error responses

NoCode  == 0
Garbage == -1

ASSUME HttpAssumption ==
  /\ Codes \subseteq Nat \ {0}
  /\ Statuses \subseteq 400..599

-----------------------------------------------------------------------------
(* error.rs                                                                 *)

\* Mutant: the text is looked at first.
parse_clickhouse_error_body(header, body) == IF body > 0 THEN body ELSE header

\* The header if it holds a number, else the number in the text, else NoCode.
parse_clickhouse_error(header, body) ==
  CASE header > 0 -> header
    [] header <= 0 /\ body > 0 -> body
    [] OTHER -> NoCode

clickhouse_code_to_errno(code) ==
  CASE code \in {60, 81}   -> "ENOENT"
    [] code = 159          -> "ETIMEDOUT"
    [] code = 164          -> "EROFS"
    [] code \in {192, 194} -> "EACCES"
    [] code = 202          -> "EAGAIN"
    [] code = 241          -> "ENOMEM"
    [] code = 394          -> "ECANCELED"
    [] OTHER               -> "EIO"

\* A QueryError is its variant and the number in it. "Ok" stands for Ok(_).
Ok        == [kind |-> "Ok", n |-> 0]
Transport == [kind |-> "Transport", n |-> 0]
Stream    == [kind |-> "Stream", n |-> 0]

to_errno(e) ==
  CASE e.kind = "ClickHouse" -> clickhouse_code_to_errno(e.n)
    [] e.kind = "Auth"       -> "EACCES"
    [] e.kind = "Server" /\ e.n \in {401, 403} -> "EACCES"
    [] e.kind = "Server" /\ e.n = 404          -> "ENOENT"
    [] OTHER                 -> "EIO"

-----------------------------------------------------------------------------
(* driver.rs                                                                *)

\* Mutant: the status is looked at before the exception code.
classify_error_status(status, header, body) ==
  CASE status \in {401, 403} -> [kind |-> "Auth", n |-> 0]
    [] status \notin {401, 403} /\ parse_clickhouse_error(header, body) # NoCode ->
         [kind |-> "ClickHouse", n |-> parse_clickhouse_error(header, body)]
    [] OTHER -> [kind |-> "Server", n |-> status]

classify_error(status, header, body) ==
  LET code == parse_clickhouse_error(header, body)
  IN  CASE code # NoCode -> [kind |-> "ClickHouse", n |-> code]
        [] code = NoCode /\ status \in {401, 403} -> [kind |-> "Auth", n |-> 0]
        [] OTHER -> [kind |-> "Server", n |-> status]

is_success(status) == status \in 200..299

\* The body is read before the status is looked at, so that a connection lost in
\* between is a transport error whatever the header said.
query_text(resp) ==
  CASE resp.net # "ok" -> Transport
    [] resp.net = "ok" /\ ~is_success(resp.status) ->
         classify_error(resp.status, resp.header, resp.body)
    [] OTHER -> Ok

\* An error body that cannot be read counts as empty. Once the stream has begun,
\* every failure is Stream.
query_stream_with_id(resp) ==
  CASE resp.net = "send" -> Transport
    [] resp.net # "send" /\ ~is_success(resp.status) ->
         classify_error(resp.status, resp.header, IF resp.net = "body" THEN NoCode ELSE resp.body)
    [] OTHER -> Ok

-----------------------------------------------------------------------------
(* The server and what lies before it (external). A cause is an exception   *)
(* of ClickHouse, a refusal of a proxy that knows no exception codes, or a  *)
(* lost connection.                                                         *)
Cause(kind, n) == [kind |-> kind, n |-> n]
NoCause == Cause("none", 0)
Causes  == {Cause("exception", c) : c \in Codes} \cup {Cause("proxy", s) : s \in Statuses}
           \cup {Cause("network", 0)}

Response(net, status, header, body) ==
  [net |-> net, status |-> status, header |-> header, body |-> body]

\* How each cause may look. Versions and proxies differ in the status they use
\* and in whether the header gets through; with the header the text may begin
\* with the code of an inner exception, without it the text has the code. The
\* connection may break in the text of an error too, with the header or without.
Responses(cause) ==
  CASE cause.kind = "exception" ->
         {Response("ok", s, cause.n, b) : s \in Statuses, b \in Codes \cup {NoCode, Garbage}}
         \cup {Response("ok", s, h, cause.n) : s \in Statuses, h \in {NoCode, Garbage}}
         \cup {Response("body", s, h, NoCode) : s \in Statuses, h \in {cause.n, NoCode, Garbage}}
    [] cause.kind = "proxy" ->
         {Response("ok", cause.n, h, b) : h \in {NoCode, Garbage}, b \in {NoCode, Garbage}}
         \cup {Response("body", cause.n, NoCode, NoCode)}
    [] cause.kind = "network" ->
         {Response("send", 0, NoCode, NoCode), Response("body", 200, NoCode, NoCode)}

\* What a response keeps of its cause, beside the header, when the connection
\* breaks: without a code in the header its status, otherwise Nothing. Whole
\* stands for a connection that held.
Whole   == -1
Nothing == 0

Remnant(resp) ==
  CASE resp.net = "ok" -> Whole
    [] resp.net = "body" /\ resp.header <= 0 -> resp.status
    [] OTHER -> Nothing

\* The errno that tells a cause.
ErrnoOf(cause) ==
  CASE cause.kind = "exception" -> clickhouse_code_to_errno(cause.n)
    [] cause.kind = "proxy" /\ cause.n \in {401, 403} -> "EACCES"
    [] cause.kind = "proxy" /\ cause.n = 404 -> "ENOENT"
    [] OTHER -> "EIO"
=============================================================================
