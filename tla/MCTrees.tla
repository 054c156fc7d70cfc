------------------------------ MODULE MCTrees -------------------------------
(***************************************************************************)
(* Trees of depth three - groups of two different children in both orders, *)
(* and negations - over leaves chosen for what they do to the text around  *)
(* them: one predicate, several joined by AND, several joined by OR, none, *)
(* and one that is refused; with and without an excluded field, in a       *)
(* dialect that numbers its placeholders and in one that does not.         *)
(* They are compiled with joins, under limits, and for the values of a     *)
(* field; smaller ones for aggregations, and with joins that are circular  *)
(* or undefined.                                                           *)
(***************************************************************************)
EXTENDS Requests, MCFilters

MCText == {"a", "b", "env", "team", "prod", "ops"}
Vals == {Num(1), Num(2), Str("a")}

MCRegistry ==
  [x |-> [FieldOf("int", Vals) EXCEPT !.joins = {"one"}],
   y |-> [FieldOf("int", Vals) EXCEPT !.joins = {"four"}],
   tags |-> [FieldOf("map", Vals) EXCEPT !.joins = {"two"}],
   box |-> [FieldOf("string", Vals) EXCEPT !.search = <<"u", "v">>, !.joins = {"two", "three"}]]

Leaves ==
  {LeafOf("x", "_eq", <<Num(1)>>),
   PairsLeaf("tags", "_has_key_values",
     <<[key |-> "env", values |-> <<"prod">>], [key |-> "team", values |-> <<"ops">>]>>),
   LeafOf("box", "_eq", <<Str("a")>>),
   LeafOf("y", "_in", <<>>)}

Odd == {Empty, [Empty EXCEPT !.key = "x", !.or = <<Empty>>], LeafOf("y", "", <<>>),
        LeafOf("w", "_eq", <<Num(1)>>), LeafOf("x", "_contains", <<>>)}

Fault == LeafOf("y", "_eq", <<Str("a")>>)
Shallow == Leaves \cup {Fault} \cup Groups(Leaves)

RECURSIVE KeysUnder(_)
KeysUnder(c) == ({c.key} \ {""}) \cup UNION {KeysUnder(d) : d \in ToSet(Subtrees(c))}
KeysOf(f) == UNION {KeysUnder(c) : c \in ToSet(f)}

\* Of the deep ones those with a leaf as a child, and every one over three fields.
Deep ==
  {c \in Groups(Shallow) :
     \/ \E d \in Leaves \cup {Fault} : d \in ToSet(c.and \o c.or \o c.not)
     \/ KeysOf(<<c>>) \subseteq {"x", "tags", "box"}}

\* Written over a test so that TLC enumerates and sorts the set once.
MCCondition == {c \in Shallow \cup Odd \cup Deep : Cardinality(Forms(c)) <= 2}
MCFilter ==
  {<<c>> : c \in MCCondition} \cup {<<c, e>> : c \in Leaves \cup {Fault}, e \in Shallow \cup Odd}
MCExcludable == {"", "x", "box", "w"}

(***************************************************************************)
(* Requests.                                                               *)
(***************************************************************************)
MCJoinKey == {"one", "two", "three", "four"}
Chained == [one |-> {}, two |-> {"one"}, three |-> {"two"}, four |-> {}]
Graphs ==
  {Chained,
   [Chained EXCEPT !.three = {"four"}, !.four = {"three"}],
   [one |-> {}, two |-> {"one"}, three |-> {"four"}],
   [one |-> {}, two |-> {}, four |-> {}],
   [k \in {} |-> {}]}
MCValueExpr == [y |-> "if(y, 1, 2)"]

Limit(depth, conditions, values) == [depth |-> depth, conditions |-> conditions, values |-> values]
Plain == [func |-> "count", groupBy |-> "", metric |-> "", exclude |-> ""]

Ask(kind, conds, defs, lim, agg) ==
  [kind |-> kind, conds |-> conds, joins |-> defs, limits |-> lim, agg |-> agg]

Few == {<<c>> : c \in Leaves \cup Odd \cup {Fault}} \cup {<<c, e>> : c \in Leaves, e \in {Fault} \cup Leaves}
Small == {<<c>> : c \in Shallow \cup Odd} \cup {<<c, e>> : c \in Leaves, e \in Leaves \cup Odd}

Aggregations ==
  [func : AggFunc \cup {"median"}, groupBy : {"", "x", "box", "w"}, metric : {"", "y", "tags", "w"},
   exclude : {"", "x"}]

\* The limits see only the shape of a filter, the exclusion also what is around it.
Shapes == {f \in MCFilter : KeysOf(f) \subseteq {"x", "y"}}
Excluding == {f \in MCFilter : "x" \in KeysOf(f) /\ KeysOf(f) \subseteq {"x", "tags", "box"}}

MCRequest ==
  {Ask("where", f, Chained, Limit(0, 0, 0), Plain) : f \in MCFilter}
  \cup {Ask("values", f, Chained, Limit(0, 0, 0), Facet("x")) : f \in Excluding}
  \cup {Ask("limits", f, Chained, lim, Plain) : f \in Shapes, lim \in {Limit(3, 2, 1), Limit(1, 0, 0)}}
  \cup {Ask("limits", f, Chained, lim, Plain) :
          f \in Small, lim \in {Limit(1, 0, 0), Limit(2, 1, 0), Limit(0, 2, 2), Limit(0, 0, 1)}}
  \cup {Ask("values", f, defs, Limit(0, 0, 0), Facet(k)) : f \in Few, defs \in Graphs, k \in {"x", "w"}}
  \cup {Ask("where", f, defs, Limit(0, 0, 0), Plain) : f \in Few, defs \in Graphs}
  \cup {Ask("aggregate", f, Chained, Limit(0, 0, 0), agg) :
          f \in {<<c>> : c \in {c \in Leaves \cup {Fault} : c.key \in {"tags", "y"}}}, agg \in Aggregations}
  \cup {Ask("aggregate", f, defs, Limit(0, 0, 0), Facet(k)) : f \in Few, defs \in Graphs, k \in {"x", "box"}}

Cell(k) == [x |-> {<<"num", 1>>, <<"null", 0>>},
            y |-> {<<"num", 2>>},
            tags |-> {<<"map", [env |-> "prod", team |-> "ops"]>>, <<"map", [env |-> "prod", team |-> "a"]>>},
            u |-> {<<"str", "a">>, <<"str", "b">>},
            v |-> {<<"str", "b">>}][k]
MCRow == {r \in [{"x", "y", "tags", "u", "v"} -> UNION {Cell(k) : k \in {"x", "y", "tags", "u", "v"}}] :
            \A k \in DOMAIN r : r[k] \in Cell(k)}

MCLower == [t \in MCText |-> t]
MCTrimSpace == [t \in MCText |-> t]
None == [t \in {} |-> t]
MCFormatNumber == [n \in 1 .. 2 |-> "a"]
MCAffixes == [m \in {"substring", "prefix", "suffix"} |-> {<<t, t>> : t \in MCText}]
MCTarget == {"postgres", "mysql"}

\* What the theorems on joins and on the meaning presuppose holds here.
ASSUME JoinsAreTold == ColumnsTellJoins /\ ExprsTellJoins /\ AllSaySomething
ASSUME TreesAreDecided == AllDecided
=============================================================================
