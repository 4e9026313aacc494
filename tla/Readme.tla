------------------------------- MODULE Readme -------------------------------
(***************************************************************************)
(* The text of README.md as src/src/readme.rs puts it together from the    *)
(* answers of its sub-queries.                                             *)
(*                                                                         *)
(* An answer is the version of the table it tells of, Failed, Empty (no    *)
(* rows) or Malformed (no JSON: an exception that the server writes into   *)
(* the body of a 200). A line [of, ver] shows what the sub-query of        *)
(* answered; ver is Unavailable for "_(unavailable)_", None for the lines  *)
(* that say that there is nothing ("no active parts", "_(empty)_").        *)
(***************************************************************************)
EXTENDS Integers, Sequences

CONSTANT SubQueries  \* sub-queries of render that are modelled

ASSUME ReadmeAssumption ==
  /\ {"stats", "count"} \subseteq SubQueries
  /\ SubQueries \subseteq {"stats", "count", "schema", "columns", "sample"}

Pending     == -1     \* the query is running
Failed      == -2
Empty       == -3
Malformed   == -4
Unavailable == -5
None        == -6

\* What the server may answer at version v (external). Only a table without parts,
\* columns or rows has an empty answer; only JSON can be malformed.
Answers(q, v) ==
  {v, Failed} \cup (IF q \in {"stats", "columns", "sample"} THEN {Empty} ELSE {})
             \cup (IF q \in {"stats", "columns"} THEN {Malformed} ELSE {})

Line(q, v) == [of |-> q, ver |-> v]

\* The lines below "rows". Without parts there is one that says so, and text that
\* is no JSON adds none.
render_stats(stats) ==
  CASE stats = Empty     -> <<Line("stats", None)>>
    [] stats = Malformed -> <<>>
    [] OTHER             -> <<Line("stats", stats)>>

\* Mutant: the arm for a count without stats is missing.
StatsSectionBoth(a) ==
  IF a["count"] # Failed /\ a["stats"] # Failed
  THEN <<Line("count", a["count"])>> \o render_stats(a["stats"])
  ELSE <<Line("stats", Unavailable)>>

\* The count carries the section: without it the whole section is unavailable.
StatsSection(a) ==
  CASE a["count"] = Failed -> <<Line("stats", Unavailable)>>
    [] a["count"] # Failed /\ a["stats"] = Failed ->
         <<Line("count", a["count"]), Line("stats", Unavailable)>>
    [] OTHER -> <<Line("count", a["count"])>> \o render_stats(a["stats"])

\* Mutant: a section whose query failed is left out.
SectionDropped(q, ans) ==
  CASE ans = Failed               -> <<>>
    [] ans \in {Empty, Malformed} -> <<Line(q, None)>>
    [] OTHER                      -> <<Line(q, ans)>>

\* Schema, Columns or Sample. Lines of columns that are no JSON are skipped, and
\* without any there is one that says so.
Section(q, ans) ==
  CASE ans = Failed               -> <<Line(q, Unavailable)>>
    [] ans \in {Empty, Malformed} -> <<Line(q, None)>>
    [] OTHER                      -> <<Line(q, ans)>>

\* render: the sections in the order of the document, those that are modelled.
SectionOf(q, a) == IF q \in SubQueries THEN Section(q, a[q]) ELSE <<>>

render(a) ==
  StatsSection(a) \o SectionOf("schema", a) \o SectionOf("columns", a) \o SectionOf("sample", a)
=============================================================================
