----------------------------- MODULE SortOrder ------------------------------
(***************************************************************************)
(* Sorting and seeking: the ORDER BY terms of a sort (order.go,            *)
(* Dialect.OrderTerm), the seek predicate over a cursor (pagination.go),   *)
(* and the order a database puts rows in by those terms.                   *)
(*                                                                         *)
(* A column holds integers, strings by their rank, or Null.                *)
(***************************************************************************)
EXTENDS Integers, Sequences

CONSTANTS
  Null,   \* SQL NULL
  Row,    \* the rows a table may hold, functions from column names to values
  Field   \* what sorting reads of the registry: a function from sort keys to
          \* records of column, sortable, and expr, the display form that
          \* ValueExpr maps some values of the column to

ASSUME NullAssumption == Null \notin Int

\* selectExpr: the expression ORDER BY and the seek predicate share.
SelectExpr(key, row) ==
  LET x == row[Field[key].column] IN
  IF x \in DOMAIN Field[key].expr THEN Field[key].expr[x] ELSE x

(***************************************************************************)
(* OrderTerm.  A term tests for NULL or is the value; MySQL has no syntax  *)
(* for NULLS FIRST and LAST and puts a test in front.                      *)
(***************************************************************************)
TermOf(test, desc, nulls) == [test |-> test, desc |-> desc, nulls |-> nulls]

\* Faulty: the emulation tests the wrong way round.
OrderTermInverted(dialect, s) ==
  IF dialect = "mysql" /\ s.nulls # "default"
  THEN <<TermOf(IF s.nulls = "last" THEN "not null" ELSE "null", FALSE, "default"),
         TermOf("value", s.desc, "default")>>
  ELSE <<TermOf("value", s.desc, s.nulls)>>

OrderTerm(dialect, s) ==
  IF dialect = "mysql" /\ s.nulls # "default"
  THEN <<TermOf(IF s.nulls = "first" THEN "not null" ELSE "null", FALSE, "default"),
         TermOf("value", s.desc, "default")>>
  ELSE <<TermOf("value", s.desc, s.nulls)>>

\* Where a database puts NULL when the term does not say.
NullsLead(dialect, term) ==
  CASE term.nulls = "first" -> TRUE
    [] term.nulls = "last" -> FALSE
    [] OTHER -> CASE dialect = "postgres" -> term.desc
                  [] dialect \in {"mysql", "sqlite"} -> ~term.desc
                  [] OTHER -> FALSE

Tested(term, x) ==
  CASE term.test = "value" -> x
    [] term.test = "null" -> IF x = Null THEN 1 ELSE 0
    [] OTHER -> IF x = Null THEN 0 ELSE 1

TermAhead(dialect, term, x, y) ==
  LET a == Tested(term, x)
      b == Tested(term, y)
  IN \/ a = Null /\ b # Null /\ NullsLead(dialect, term)
     \/ a # Null /\ b = Null /\ ~NullsLead(dialect, term)
     \/ a # Null /\ b # Null /\ IF term.desc THEN a > b ELSE a < b

\* Value x comes before value y under one sort.
Ahead(dialect, s, x, y) ==
  \E i \in DOMAIN OrderTerm(dialect, s) :
    /\ \A j \in 1 .. i - 1 : Tested(OrderTerm(dialect, s)[j], x) = Tested(OrderTerm(dialect, s)[j], y)
    /\ TermAhead(dialect, OrderTerm(dialect, s)[i], x, y)

\* Row a comes before row b in ORDER BY sorts.
Before(dialect, sorts, a, b) ==
  \E i \in DOMAIN sorts :
    /\ \A j \in 1 .. i - 1 : SelectExpr(sorts[j].key, a) = SelectExpr(sorts[j].key, b)
    /\ Ahead(dialect, sorts[i], SelectExpr(sorts[i].key, a), SelectExpr(sorts[i].key, b))

(***************************************************************************)
(* keysetInto.  A cursor gives each sort key a value; a row is sought if   *)
(* some key is past the cursor's and those before it are equal.  A         *)
(* comparison with NULL is not true.  An empty cursor seeks every row.     *)
(***************************************************************************)
\* Faulty: the comparison of a key admits the cursor's own row.
PastOrAt(s, x, c) == x # Null /\ c # Null /\ IF s.desc THEN x <= c ELSE x >= c

\* Faulty: a descending key is sought upwards.
PastUpwards(s, x, c) == x # Null /\ c # Null /\ x > c

Past(s, x, c) == x # Null /\ c # Null /\ IF s.desc THEN x < c ELSE x > c

Level(x, c) == x # Null /\ c # Null /\ x = c

Seek(sorts, cur, row) ==
  \/ sorts = <<>> \/ DOMAIN cur = {}
  \/ \E i \in DOMAIN sorts :
       /\ \A j \in 1 .. i - 1 : Level(SelectExpr(sorts[j].key, row), cur[sorts[j].key])
       /\ Past(sorts[i], SelectExpr(sorts[i].key, row), cur[sorts[i].key])

\* What keysetInto and OrderBy refuse in one sort; a cursor that is not empty
\* must have a value for the key.
SortFault(s, cur) ==
  CASE s.key \notin DOMAIN Field -> "ErrUnknownField"
    [] s.key \in DOMAIN Field /\ ~Field[s.key].sortable -> "ErrBadOperator"
    [] s.key \in DOMAIN Field /\ Field[s.key].sortable ->
         IF DOMAIN cur # {} /\ s.key \notin DOMAIN cur THEN "missing cursor value" ELSE "ok"

\* The first sort that is refused decides.
FirstSortFault(sorts, cur) ==
  LET faulty == {i \in DOMAIN sorts : SortFault(sorts[i], cur) # "ok"} IN
  IF faulty = {} THEN "ok"
  ELSE SortFault(sorts[CHOOSE i \in faulty : \A j \in faulty : i <= j], cur)
=============================================================================
