---------------------------- MODULE MCNamespace -----------------------------
(* Small instances of Namespace for TLC. *)
EXTENDS Namespace

CONSTANTS d1, t1, t2, p1

MCCollation == <<All, d1, p1, t1, t2>>
MCValid     == {All, d1, t1}               \* t2 is a name like `my table`
MCValidPart == {All, d1, t1, p1}           \* p1 is a name like `2026-05`

\* One table, partitioned or not.
PartitionCatalogs ==
  {{<<d1>>, <<d1, t1>>, <<d1, t1, p1>>}, {<<d1>>, <<d1, t1>>, <<d1, t1, All>>}}

\* A database whose tables come and go.
\* (Only t1 has a name that can be looked up.)
DatabaseCatalogs == {{<<d1>>} \cup {<<d1, t>> : t \in T} : T \in SUBSET {t1, t2} \ {{}}}

TableNames == {Db, d1, t1, ReadmeMd, tsv(p1)}
DbNames    == {Db, d1, t1}
TableDirs  == {<<>>, <<Db, d1, t1>>, <<Db, d1, t1, Schema>>}
DbDirs     == {<<Db, d1>>}
=============================================================================
