------------------------------ MODULE Resolve -------------------------------
(***************************************************************************)
(* resolve (compile.go): one operator applied to one column.  It returns   *)
(* whether the values could be coerced, the text, and the arguments bound  *)
(* on the way - also when it fails, since Query.Arg is not undone.         *)
(*                                                                         *)
(* A condition is a node of the filter tree: a leaf sets key and op (and   *)
(* values, or pairs for the map operators), a group sets and or or, a      *)
(* negation sets not (a sequence of at most one node, for the pointer).    *)
(***************************************************************************)
EXTENDS Dialects

Resolved(r) == [ok |-> TRUE, text |-> r.text, args |-> r.args]
Skipped == Resolved(Nothing)
BadValue(bound) == [ok |-> FALSE, text |-> <<>>, args |-> bound]

AllStrings(vals) == \A i \in DOMAIN vals : IsString(vals[i])
Strings(vals) == [i \in DOMAIN vals |-> AsString(vals[i])]

\* sqlCmp: the symbol of a comparison operator.
Cmp == [_eq |-> "=", _ne |-> "!=", _gt |-> ">", _gte |-> ">=", _lt |-> "<", _lte |-> "<="]

Compare(col, op, arg, n) == Resolved(One(Cmp[op], col, n, <<arg>>))

\* IN with one placeholder per value.
InList(col, op, bound, n) ==
  Resolved(One(IF op = "_nin" THEN "NOT IN" ELSE "IN", col, n, bound))

(***************************************************************************)
(* Strings, ids and enums.                                                 *)
(***************************************************************************)
\* Faulty: prefix and suffix are exchanged.
AnchorSwapped == [_like |-> "substring", _starts_with |-> "suffix", _ends_with |-> "prefix"]

Anchor == [_like |-> "substring", _starts_with |-> "prefix", _ends_with |-> "suffix"]

\* Faulty: the enum is not looked at.
ScalarOkAnyEnum(f, v) == IsString(v)

ScalarOk(f, v) == IsString(v) /\ ValidEnum(f, AsString(v))

ResolveScalar(d, f, col, c, n) ==
  CASE c.op \in Equality \cup Matching ->
         LET v == First(c.values) IN
         IF ~ScalarOk(f, v) THEN BadValue(<<>>)
         ELSE IF c.op \in Equality THEN Compare(col, c.op, <<"str", AsString(v)>>, n)
         ELSE Resolved(Like(d, col, AsString(v), Anchor[c.op], n))
    [] c.op \in Membership ->
         IF \E i \in DOMAIN c.values : ~ScalarOk(f, c.values[i]) THEN BadValue(<<>>)
         ELSE IF c.values = <<>> THEN Skipped
         ELSE IF f.type \in {"string", "enum"} /\ HasScalarIn(d)
         THEN Resolved(ScalarIn(d, col, Strings(c.values), c.op = "_nin", n))
         ELSE InList(col, c.op, Strs(Strings(c.values)), n)

(***************************************************************************)
(* Numbers.  An IN list is bound value by value: what precedes a value     *)
(* that is no number stays bound.  A range is coerced before it is bound.  *)
(***************************************************************************)
Floats(vals) == [i \in DOMAIN vals |-> <<"num", AsFloat(vals[i])>>]

ResolveNumeric(col, c, n) ==
  CASE c.op \in Equality \cup Ordering ->
         LET v == First(c.values) IN
         IF IsFloat(v) THEN Compare(col, c.op, <<"num", AsFloat(v)>>, n) ELSE BadValue(<<>>)
    [] c.op \in Membership ->
         LET bad == SelectInSeq(c.values, LAMBDA v : ~IsFloat(v)) IN
         IF c.values = <<>> THEN Skipped
         ELSE IF bad # 0 THEN BadValue(Floats(SubSeq(c.values, 1, bad - 1)))
         ELSE InList(col, c.op, Floats(c.values), n)
    [] c.op = "_between" ->
         IF Len(c.values) = 2 /\ IsFloat(c.values[1]) /\ IsFloat(c.values[2])
         THEN Resolved(One("BETWEEN", col, n, Floats(c.values)))
         ELSE BadValue(<<>>)

ResolveBool(col, c, n) ==
  LET v == First(c.values) IN
  IF IsBool(v) THEN Compare(col, c.op, <<"bool", AsBool(v)>>, n) ELSE BadValue(<<>>)

(***************************************************************************)
(* Timestamps are bound as strings.  _last and _within inline the ends of  *)
(* the interval, in minutes from now, and bind nothing.                    *)
(***************************************************************************)
Around(col, lo, hi) ==
  Resolved([text |-> <<[sym |-> "BETWEEN now", col |-> col, lit |-> <<lo, hi>>, slots |-> <<>>]>>,
            args |-> <<>>])

ResolveTimestamp(d, col, c, n) ==
  LET v == First(c.values) IN
  CASE c.op = "_between" ->
         IF Len(c.values) = 2 /\ AllStrings(c.values)
         THEN Resolved(One("BETWEEN", col, n, Strs(Strings(c.values))))
         ELSE BadValue(<<>>)
    [] c.op \in Relative ->
         IF ~IsInterval(v) THEN BadValue(<<>>)
         ELSE LET iv == Interval(v) IN
              IF c.op = "_last"
              THEN Around(col, RelativeTime(d, -iv.n, iv.unit), 0)
              ELSE Around(col, 0, RelativeTime(d, iv.n, iv.unit))
    [] OTHER ->
         IF IsString(v) THEN Compare(col, c.op, <<"str", AsString(v)>>, n) ELSE BadValue(<<>>)

(***************************************************************************)
(* Arrays and maps.  A negative operator wraps the positive text, whatever *)
(* it is.                                                                  *)
(***************************************************************************)
Negated(text) == <<Word("NOT"), Word("(")>> \o text \o <<Word(")")>>

NegateIf(negative, r) ==
  Resolved([r EXCEPT !.text = IF negative THEN Negated(@) ELSE @])

ResolveArray(d, col, c, n) ==
  IF ~AllStrings(c.values) THEN BadValue(<<>>)
  ELSE IF c.values = <<>> THEN Skipped
  ELSE NegateIf(c.op \in {"_not_contains", "_not_contains_any"},
         ArrayContains(d, col, Strings(c.values), c.op \in {"_contains", "_not_contains"}, n))

ResolveMap(d, col, c, n) ==
  IF c.pairs = <<>> THEN Skipped
  ELSE NegateIf(c.op \in {"_not_has_keys", "_not_has_key_values"},
         IF c.op \in KeyTests
         THEN MapHasKeys(d, col, [i \in DOMAIN c.pairs |-> c.pairs[i].key], n)
         ELSE MapHasKeyValues(d, col, c.pairs, n))

\* The operator c.op of the field f over col, with n arguments bound before.
Resolve(d, f, col, c, n) ==
  CASE c.op = "_is_null" -> Resolved(One("IS NULL", col, n, <<>>))
    [] c.op = "_is_not_null" -> Resolved(One("IS NOT NULL", col, n, <<>>))
    [] OTHER ->
         CASE f.type \in {"string", "id", "enum"} -> ResolveScalar(d, f, col, c, n)
           [] f.type \in {"int", "float"} -> ResolveNumeric(col, c, n)
           [] f.type = "bool" -> ResolveBool(col, c, n)
           [] f.type = "timestamp" -> ResolveTimestamp(d, col, c, n)
           [] f.type = "array" -> ResolveArray(d, col, c, n)
           [] f.type = "map" -> ResolveMap(d, col, c, n)
=============================================================================
