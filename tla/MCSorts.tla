------------------------------- MODULE MCSorts ------------------------------
(***************************************************************************)
(* Requests outside the contract of PagingContract, one for each of the    *)
(* promises they break: identifiers above the mantissa, a display form,    *)
(* no sort at all.                                                         *)
(***************************************************************************)
EXTENDS Paging

RowOf(id, sev) == [id |-> id, sev |-> sev]
SortBy(key, desc, nulls) == [key |-> key, desc |-> desc, nulls |-> nulls]
FieldOf(column) == [column |-> column, expr |-> <<>>, sortable |-> TRUE]

MCField ==
  [id |-> FieldOf("id"), sev |-> FieldOf("sev"),
   label |-> [FieldOf("sev") EXCEPT !.expr = [x \in {1, 2} |-> 3 - x]]]

MCStructColumns == {"id", "sev"}
MCNumeric == {"id", "sev", "label"}

ById == SortBy("id", FALSE, "default")

Plainly(sorts, limit) == [dialect : {"sqlite"}, sorts : {sorts}, limit : {limit}, start : {<<>>}]

\* With a mantissa of 4: the identifiers above 2^53.
BigRow == {RowOf(5, 1), RowOf(6, 1)}
BigRequest == Plainly(<<ById>>, 1)

PlainRow == {RowOf(1, 1), RowOf(2, 2), RowOf(3, 2)}
UnsortedRequest == Plainly(<<>>, 1)
DisplayRequest == Plainly(<<SortBy("label", FALSE, "default"), ById>>, 1)
=============================================================================
