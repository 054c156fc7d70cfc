------------------------------ MODULE MCPaging ------------------------------
(***************************************************************************)
(* Three rows whose sort value may be changed, one of which may leave the  *)
(* filter.  Under the contract: sorts up and down, by the id alone and     *)
(* with it as tie-breaker.  Outside: a column with NULL, in every dialect, *)
(* NULL first and last; keys that are not to be sorted by; cursors made    *)
(* under another sort.                                                     *)
(***************************************************************************)
EXTENDS PagingContract

RowOf(id, sev, open, note) == [id |-> id, sev |-> sev, open |-> open, note |-> note]

MCRow ==
  {RowOf(1, 1, TRUE, Null), RowOf(1, 2, TRUE, 1), RowOf(2, 2, TRUE, 1), RowOf(2, 1, FALSE, 1),
   RowOf(3, 1, TRUE, 2), RowOf(3, 2, TRUE, Null)}
MCWanted == {r \in MCRow : r.open}

FieldOf(column) == [column |-> column, expr |-> <<>>, sortable |-> TRUE]
MCField ==
  [id |-> FieldOf("id"), sev |-> FieldOf("sev"), note |-> FieldOf("note"),
   open |-> [FieldOf("open") EXCEPT !.sortable = FALSE]]

SortBy(key, desc, nulls) == [key |-> key, desc |-> desc, nulls |-> nulls]
Id(desc) == SortBy("id", desc, "default")
Sev(desc) == SortBy("sev", desc, "default")

\* The first page, or a bookmark of a row that may be gone.
Starts(sorts) == {<<>>, <<[k \in Keys(sorts) |-> IF k = "id" THEN 1 ELSE 2]>>}
Agreements ==
  UNION {[dialect : {"postgres"}, sorts : {s}, limit : 0 .. 2, start : Starts(s)] :
           s \in {<<Sev(TRUE), Id(FALSE)>>, <<Sev(FALSE), Id(TRUE)>>, <<Id(FALSE)>>}}

Foreign == << [k \in {"id"} |-> 2] >>
Notes == {<<SortBy("note", desc, nulls), Id(FALSE)>> : desc \in BOOLEAN, nulls \in {"first", "last"}}
Refusable == {<<SortBy("open", FALSE, "default"), Id(FALSE)>>, <<Id(FALSE), SortBy("w", TRUE, "default")>>}
Others ==
  [dialect : {"postgres", "mysql"}, sorts : Notes, limit : {1}, start : {<<>>}]
  \cup [dialect : {"clickhouse", "sqlite"}, sorts : {<<SortBy("note", TRUE, "first"), Id(FALSE)>>}, limit : {0}, start : {<<>>}]
  \cup [dialect : {"postgres"}, sorts : {<<SortBy("note", FALSE, "default"), Id(FALSE)>>}, limit : {1}, start : {Foreign}]
  \cup [dialect : {"postgres"}, sorts : Refusable, limit : {1}, start : {<<>>, Foreign}]

MCRequest == Agreements \cup Others

MCStructColumns == {"id", "sev", "note"}
MCNumeric == {"sev"}
=============================================================================
