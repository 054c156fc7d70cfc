--------------------------- MODULE FilterMeaning ----------------------------
(***************************************************************************)
(* What a client means by a filter tree, read off the operators' documen-  *)
(* tation (types.go:33-63, registry.go:139-175) and not off the renderer,  *)
(* and the property that ties the compiler to it.                          *)
(***************************************************************************)
EXTENDS SqlMeaning, FilterFaults

(***************************************************************************)
(* One operator on one cell.  A list of nothing asks nothing, and a pair   *)
(* offers a choice, "tag "env" in ("prod","stage")" (registry.go:171).     *)
(***************************************************************************)
AsksNothing(f, c) ==
  \/ c.op \in Membership \cup Containment /\ c.values = <<>>
  \/ c.op \in KeyTests /\ c.pairs = <<>>
  \/ c.op \in KeyValueTests /\ \A i \in DOMAIN c.pairs : c.pairs[i].values = <<>>

\* A client value as a value of a cell of type t.
Read(t, v) ==
  CASE t \in {"int", "float"} -> AsFloat(v)
    [] t = "bool" -> AsBool(v)
    [] t = "timestamp" -> Instant[AsString(v)]
    [] OTHER -> AsString(v)

Period(c) == LET iv == Interval(First(c.values)) IN iv.n * Minutes[iv.unit]

OnCell(f, c, x) ==
  LET v(i) == Read(f.type, c.values[i])
      all == {v(i) : i \in DOMAIN c.values}
      alike == <<Lower[x], Lower[v(1)]>>
      keys == {c.pairs[i].key : i \in DOMAIN c.pairs}
      hasPairs == \A i \in DOMAIN c.pairs :
                    LET pair == c.pairs[i] IN
                    \/ pair.values = <<>>
                    \/ pair.key \in DOMAIN x /\ x[pair.key] \in ToSet(pair.values)
  IN CASE c.op = "_eq" -> x = v(1)
       [] c.op = "_ne" -> x # v(1)
       [] c.op = "_in" -> x \in all
       [] c.op = "_nin" -> x \notin all
       [] c.op = "_gt" -> x > v(1)
       [] c.op = "_gte" -> x >= v(1)
       [] c.op = "_lt" -> x < v(1)
       [] c.op = "_lte" -> x <= v(1)
       [] c.op = "_between" -> v(1) <= x /\ x <= v(2)
       [] c.op = "_like" -> alike \in Affixes["substring"]
       [] c.op = "_starts_with" -> alike \in Affixes["prefix"]
       [] c.op = "_ends_with" -> alike \in Affixes["suffix"]
       [] c.op = "_last" -> -Period(c) <= x /\ x <= 0
       [] c.op = "_within" -> 0 <= x /\ x <= Period(c)
       [] c.op = "_contains" -> all \subseteq x
       [] c.op = "_contains_any" -> all \cap x # {}
       [] c.op = "_not_contains" -> ~(all \subseteq x)
       [] c.op = "_not_contains_any" -> all \cap x = {}
       [] c.op = "_has_keys" -> keys \subseteq DOMAIN x
       [] c.op = "_not_has_keys" -> ~(keys \subseteq DOMAIN x)
       [] c.op = "_has_key_values" -> hasPairs
       [] c.op = "_not_has_key_values" -> ~hasPairs

OnColumn(f, c, cell) ==
  CASE c.op \in NullTests -> Holds((c.op = "_is_null") <=> (cell[1] = "null"))
    [] c.op \notin NullTests /\ AsksNothing(f, c) -> "none"
    [] OTHER -> IF cell[1] = "null" THEN "U" ELSE Holds(OnCell(f, c, cell[2]))

(***************************************************************************)
(* The tree.  What asks nothing is left out of the group around it.        *)
(***************************************************************************)
Combine(Op(_), values) ==
  IF values \ {"none"} = {} THEN "none" ELSE Op(values \ {"none"})

LeafMeaning(out, c, row) ==
  LET f == Registry[c.key]
      hooked == [c EXCEPT !.values = AfterHooks(f, @)]
      cols == IF f.search = <<>> THEN {Column(c.key)} ELSE ToSet(f.search)
  IN IF Mute(out, c) THEN "none" ELSE Combine(Or3, {OnColumn(f, hooked, row[col]) : col \in cols})

\* What every node asks of a row.
Meaning(out, row) ==
  LET means[c \in AnyNode] ==
        LET all(conds) == {means[conds[i]] : i \in DOMAIN conds} IN
        CASE Forms(c) = {"key"} -> LeafMeaning(out, c, row)
          [] Forms(c) = {"and"} -> Combine(And3, all(c.and))
          [] Forms(c) = {"or"} -> Combine(Or3, all(c.or))
          [] Forms(c) = {"not"} -> Not3(Combine(And3, all(c.not)))
          [] OTHER -> "none"
  IN means

ListMeaning(out, conds, row) ==
  Combine(And3, {Meaning(out, row)[conds[i]] : i \in DOMAIN conds})

FilterSays(row) == ListMeaning(exclude, filter, row)

\* The compiled text asks of every row exactly what the filter asks: the
\* grouping, the parentheses, the negations, the operators of every dialect and
\* the arguments its placeholders find all agree (README "What you get" 1).
MeansTheFilter ==
  result = "ok" =>
    LET statement == Bound(sql) IN
    /\ Executable(sql)
    /\ \A row \in Row :
         FilterSays(row) = IF sql = <<>> THEN "none" ELSE Evaluate(statement, row)

(***************************************************************************)
(* What the databases do not decide alike, or not as the documentation has *)
(* it, or refuse: the property presupposes that no filter asks it.         *)
(***************************************************************************)
\* What a column of a field of each type holds, if not NULL.
CellOf ==
  [string |-> "str", id |-> "str", enum |-> "str", int |-> "num", float |-> "num",
   bool |-> "bool", timestamp |-> "time", array |-> "set", map |-> "map"]

\* No map holds one of several different values asked of one of its keys: the
\* dialects ask for all of them at once, which no map has.
ValuesAgree(c, m) ==
  \A i \in DOMAIN c.pairs :
    LET key == c.pairs[i].key
        values == ToSet(c.pairs[i].values)
    IN key \in DOMAIN m /\ m[key] \in values => values = {m[key]}

\* The cell is of the field's type; a string compared with a time spells one;
\* SQLite reads no NULL as an array or a map, and is given no value twice that
\* an array shall contain; Postgres and MySQL find the keys whose values are
\* asked for; no map holds one of several values asked of a key; and a negated
\* test of keys and values has a value.
Decided(d, f, c, cell) ==
  c.op \notin NullTests =>
    /\ cell[1] \in {CellOf[f.type], "null"}
    /\ f.type = "timestamp" /\ c.op \notin Relative =>
         \A i \in DOMAIN c.values : IsString(c.values[i]) => AsString(c.values[i]) \in DOMAIN Instant
    /\ d = "sqlite" /\ f.type \in {"array", "map"} => cell[1] # "null"
    /\ d = "sqlite" /\ c.op \in {"_contains", "_not_contains"} /\ AllStrings(c.values) =>
         \A i, j \in DOMAIN c.values : AsString(c.values[i]) = AsString(c.values[j]) => i = j
    /\ d \in {"postgres", "mysql"} /\ c.op \in KeyValueTests /\ cell[1] = "map" =>
         \A i \in DOMAIN c.pairs : c.pairs[i].values = <<>> \/ c.pairs[i].key \in DOMAIN cell[2]
    /\ c.op \in KeyValueTests /\ cell[1] = "map" => ValuesAgree(c, cell[2])
    /\ SaysSomething(c)

LeafDecided(c) ==
  c.key \in DOMAIN Registry /\ Allows(Registry[c.key], c.op) /\ HooksPass(Registry[c.key], c.values) =>
    LET f == Registry[c.key]
        hooked == [c EXCEPT !.values = AfterHooks(f, @)]
    IN \A col \in ColumnsOf(c.key) :
         /\ \A row \in Row : col \in DOMAIN row
         /\ \A cell \in {row[col] : row \in Row} : \A d \in Target : Decided(d, f, hooked, cell)

AllDecided == \A c \in Condition : LeafDecided(c)

(***************************************************************************)
(* Promises of the documentation that the code does not keep.              *)
(***************************************************************************)

\* README:303, "Per-field hooks run on every value before it is bound".
HooksRunOnEveryValue ==
  result = "ok" =>
    \A i \in DOMAIN filter : \A j \in DOMAIN filter[i].pairs :
      \A v \in ToSet(filter[i].pairs[j].values) : <<"str", v>> \in Registry[filter[i].key].validate
=============================================================================
