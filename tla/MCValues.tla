----------------------------- MODULE MCValues -------------------------------
(***************************************************************************)
(* A field of every type, values of every Go kind, and rows that vary one  *)
(* column at a time, NULLs included: scalar columns may be NULL, array and *)
(* map columns are not.                                                    *)
(***************************************************************************)
EXTENDS MCFilters

MCText == {"a", "A", "ab", "b", "7", "5", "0", "yes", " yes", " 5", "true", "7d", "2w", " 2w", "t1", "t2", "env", "team"}
MCTrimSpace ==
  [[t \in MCText |-> t] EXCEPT ![" yes"] = "yes", ![" 5"] = "5", ![" 2w"] = "2w"]
MCLower == [[t \in MCText |-> t] EXCEPT !["A"] = "a"]
MCParseFloat == [t \in {"7", "5"} |-> IF t = "7" THEN 7 ELSE 5]
MCFormatNumber == [n \in {0, 5, 7} |-> CASE n = 0 -> "0" [] n = 5 -> "5" [] n = 7 -> "7"]
MCParseInterval ==
  [t \in {"7d", "2w"} |-> IF t = "7d" THEN [n |-> 7, unit |-> "d"] ELSE [n |-> 2, unit |-> "w"]]
Week == 10080
MCInstant == [t \in {"t1", "t2"} |-> IF t = "t1" THEN -Week ELSE Week]

Same == {<<t, t>> : t \in MCText}
MCAffixes ==
  [substring |-> Same \cup {<<"ab", "a">>, <<"ab", "b">>},
   prefix |-> Same \cup {<<"ab", "a">>},
   suffix |-> Same \cup {<<"ab", "b">>}]

Vals ==
  {Str(t) : t \in MCText \ {"2w"}} \cup {Num(n) : n \in {0, 5, 7}}
  \cup {<<"int", 5>>, <<"bool", TRUE>>, <<"other", "ab">>, Nil}

Lowered == [v \in Vals |-> IF v[1] = "str" THEN Str(MCLower[v[2]]) ELSE v]

MCRegistry ==
  [name   |-> [FieldOf("string", Vals) EXCEPT !.nullable = TRUE, !.joins = {"one"}],
   ident  |-> [FieldOf("id", Vals) EXCEPT !.column = "id_col"],
   status |-> [FieldOf("enum", Vals) EXCEPT !.enum = {"a", "7", "true"}],
   size   |-> [FieldOf("int", Vals) EXCEPT !.joins = {"two"}],
   score  |-> [FieldOf("float", Vals) EXCEPT !.only = {"_eq", "_in", "_between"}, !.except = {"_in"}],
   flag   |-> FieldOf("bool", Vals),
   seen   |-> FieldOf("timestamp", Vals),
   words  |-> FieldOf("array", Vals),
   tags   |-> FieldOf("map", Vals),
   labels |-> FieldOf("map", Vals),
   notes  |-> [FieldOf("map", Vals) EXCEPT !.validate = Vals \ {Str("ab")}],
   code   |-> [FieldOf("string", Vals) EXCEPT !.transform = Lowered, !.validate = Vals \ {Str("ab")}],
   box    |-> [FieldOf("string", Vals) EXCEPT !.search = <<"box1", "box2">>, !.joins = {"one", "three"}]]

Pair(k, vs) == [key |-> k, values |-> vs]

MCExcludable == {"", "size"}
MCTarget == Dialect

Cells ==
  [name   |-> {<<"str", "a">>, <<"str", "A">>, <<"str", "ab">>, <<"null", 0>>},
   id_col |-> {<<"str", "7">>, <<"str", "a">>},
   status |-> {<<"str", "a">>, <<"str", "7">>},
   size   |-> {<<"num", 5>>, <<"num", 7>>, <<"null", 0>>},
   score  |-> {<<"num", 5>>, <<"num", 0>>},
   flag   |-> {<<"bool", TRUE>>, <<"bool", FALSE>>},
   seen   |-> {<<"time", -2 * Week>>, <<"time", -Week>>, <<"time", 0>>, <<"time", 2 * Week>>},
   words  |-> {<<"set", {}>>, <<"set", {"a"}>>, <<"set", {"a", "ab", "b"}>>},
   tags   |-> {<<"map", [k \in {} |-> "a"]>>, <<"map", [env |-> "a"]>>, <<"map", [env |-> "a", team |-> "b"]>>},
   labels |-> {<<"map", [env |-> "a", team |-> "b"]>>, <<"map", [env |-> "b", team |-> "b"]>>},
   notes  |-> {<<"map", [env |-> "ab"]>>},
   code   |-> {<<"str", "a">>, <<"str", "A">>, <<"null", 0>>},
   box1   |-> {<<"str", "a">>, <<"str", "ab">>, <<"null", 0>>},
   box2   |-> {<<"str", "b">>, <<"str", "ab">>}]

BaseRow == [c \in DOMAIN Cells |-> CHOOSE v \in Cells[c] : v[1] # "null"]
MCRow == UNION {{[BaseRow EXCEPT ![c] = v] : v \in Cells[c]} : c \in DOMAIN Cells}
=============================================================================
