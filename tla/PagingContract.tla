--------------------------- MODULE PagingContract ---------------------------
(***************************************************************************)
(* Paging under the contract of the keyset method (README:225,             *)
(* pagination.go:72-75, typed.go:166): the request sorts by known,         *)
(* sortable keys which no row leaves NULL and two rows never share, all of *)
(* them fields of the row type.  To that the code adds two conditions      *)
(* which no document names: a cursor value survives JSON, and the sort     *)
(* expression of a key is its column.                                      *)
(***************************************************************************)
EXTENDS Paging

Keys(sorts) == {sorts[i].key : i \in DOMAIN sorts}

Known(sorts) ==
  \A k \in Keys(sorts) :
    k \in DOMAIN Field /\ Field[k].sortable /\ Field[k].column \in StructColumns

Plain(sorts) ==
  \A k \in Keys(sorts), r \in Row :
    LET x == r[Field[k].column] IN
    /\ x \in Nat /\ x # Null
    /\ x \notin DOMAIN Field[k].expr
    /\ k \in Numeric => x <= Mantissa

Unique(sorts) ==
  \A a, b \in Row : a.id # b.id => \E k \in Keys(sorts) : SelectExpr(k, a) # SelectExpr(k, b)

ASSUME FiniteRows == IsFiniteSet(Row)

Contract(q) ==
  /\ q.dialect \in Dialect
  /\ q.sorts # <<>> /\ Known(q.sorts) /\ Plain(q.sorts) /\ Unique(q.sorts)
  /\ q.limit \in Nat
  /\ q.start = <<>> \/ \E r \in Row : q.start = << [k \in Keys(q.sorts) |-> r[Field[k].column]] >>

Contracted == {q \in Request : Contract(q)}

Agreed == request \in Contracted

\* The pages together are in order: nothing comes twice, also if it is written to
\* between two pages (typed.go:166, "so pages don't repeat").
MetInOrder == Agreed => MetOrdered

\* No row that stays is skipped: writes to other rows, at or around the position
\* of the cursor, do not hide it (typed.go:244-271).
NothingSkipped == Agreed => StayersMet

\* If nobody writes, the pages of a walk from the beginning hold as many rows as
\* Count says (typed.go:273-275).
CountAgrees ==
  Agreed /\ pc = "done" /\ quiet /\ request.start = <<>> /\ total # <<>> => total[1] = Len(met)

(***************************************************************************)
(* The scan a walk under the contract implements: it takes its rows when a *)
(* statement reads them.  Of the other walks nothing is said.              *)
(***************************************************************************)
Scan ==
  INSTANCE PageScan WITH
    table <- table \cap Wanted,
    met <- IF pc = "scanning" THEN met \o Page ELSE met,
    ended <- pc = "done" \/ (pc = "scanning" /\ After = <<>>),
    order <- Position

ImplementsScan ==
  /\ Agreed => Scan!Init
  /\ [][Agreed => Scan!Next \/ UNCHANGED Scan!scan]_vars
=============================================================================
