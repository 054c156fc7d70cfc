------------------------------ MODULE MCBuilder -----------------------------
(***************************************************************************)
(* Statements of three fragments out of a tenant predicate, filters with   *)
(* and without exclusion - one of which fails after it bound a value -,    *)
(* seek predicates over up to three sorts, and HAVING filters with a field *)
(* of the wrong kind at the top, in a group, and under a negation.         *)
(***************************************************************************)
EXTENDS BuilderMeaning, MCFilters

Vals == {Num(1), Num(2), Str("a")}
MCText == {"a", "b"}

MCRegistry ==
  [x |-> FieldOf("int", Vals),
   y |-> FieldOf("int", Vals),
   box |-> [FieldOf("string", Vals) EXCEPT !.search = <<"u", "v">>],
   cnt |-> [FieldOf("int", Vals) EXCEPT !.column = "count()"]]
MCHavingKeys == {"cnt"}

X == LeafOf("x", "_eq", <<Num(1)>>)
Y == LeafOf("y", "_in", <<Num(1), Num(2)>>)
Count == LeafOf("cnt", "_gt", <<Num(1)>>)
Fault == LeafOf("y", "_in", <<Num(1), Str("a")>>)

MCFilter ==
  {<<>>, <<X>>, <<OrOf(<<X, Y>>)>>, <<LeafOf("box", "_eq", <<Str("a")>>), X>>, <<X, Fault>>,
   <<Count>>, <<NotOf(Count), Count>>, <<OrOf(<<Count, NotOf(X)>>)>>}
MCCondition == UNION {ToSet(f) : f \in MCFilter} \cup {X, Y, Count, Fault, NotOf(X)}
MCExcludable == {"", "x"}

\* y is sorted by as it is shown.
MCSortField ==
  [k \in {"x", "y", "z"} |->
     [column |-> k, valueExpr |-> IF k = "y" THEN "shown" ELSE "", sortable |-> k # "z"]]
By(key, desc) == [key |-> key, desc |-> desc, nulls |-> "default"]
At(keys) == [k \in keys |-> Num(1)]
MCSeeks ==
  {[sorts |-> <<>>, cur |-> At({"x"})],
   [sorts |-> <<By("x", TRUE)>>, cur |-> At({})],
   [sorts |-> <<By("x", TRUE)>>, cur |-> At({"x", "y"})],
   [sorts |-> <<By("y", FALSE), By("x", TRUE)>>, cur |-> At({"x", "y"})],
   [sorts |-> <<By("y", FALSE), By("x", TRUE), By("y", TRUE)>>, cur |-> At({"x", "y"})],
   [sorts |-> <<By("x", FALSE), By("y", FALSE)>>, cur |-> At({"x"})],
   [sorts |-> <<By("z", FALSE)>>, cur |-> At({"z"})]}
MCLiteral == {[col |-> "tenant", value |-> Num(1)]}

\* A cell for each of what the fragments test; one column may be NULL.
MCRow ==
  {[x |-> x, y |-> y, shown |-> Num(3 - y[2]), u |-> u, v |-> Str("b"), tenant |-> t] @@ ("count()" :> Num(2)) :
   x \in {Num(1), Num(2), <<"null", Null>>}, y \in {Num(1), Num(2)},
   u \in {Str("a"), Str("b")}, t \in {Num(1), Num(2)}}

MCLower == [t \in MCText |-> t]
MCTrimSpace == MCLower
None == [t \in {} |-> t]
MCFormatNumber == [n \in 1 .. 2 |-> "a"]
MCAffixes == [m \in {"substring", "prefix", "suffix"} |-> {<<t, t>> : t \in MCText}]
MCTarget == {"postgres", "mysql"}

\* What the theorem on HAVING presupposes holds here.
ASSUME ColumnsApart == HavingColumnsApart

\* And so does what the theorem on the meaning presupposes.
ASSUME FragmentsAreDecided == FragmentsDecided
=============================================================================
