----------------------------- MODULE MCStructs ------------------------------
(***************************************************************************)
(* Types of two fields out of all that tags and Go types may say, among    *)
(* them embedded types, by value and by pointer, that embed others and     *)
(* repeat keys and columns.                                                *)
(***************************************************************************)
EXTENDS StructMeaning

Option(name, val) == [name |-> name, val |-> val]
Tag(key, options) == [key |-> key, options |-> options]
None == Tag("none", <<>>)

Simple(name, go, tag, db) ==
  [name |-> name, anonymous |-> FALSE, pointers |-> 0, exported |-> TRUE, go |-> go, type |-> 0,
   filter |-> tag, db |-> db]
Embed(t, pointers, tag, db) ==
  [name |-> "Base", anonymous |-> TRUE, pointers |-> pointers, exported |-> TRUE, go |-> "struct", type |-> t,
   filter |-> tag, db |-> db]

MCTimeType == 1

Bases == <<
  <<[Simple("wall", "int", None, "") EXCEPT !.exported = FALSE]>>,
  <<Simple("ID", "string", Tag("id", <<Option("sortable", "")>>), "id")>>,
  <<Embed(2, 0, None, ""), Simple("Name", "string", Tag("", <<Option("enum", "A")>>), "name")>>,
  <<Embed(2, 1, Tag("base", <<>>), "-"), Embed(1, 0, Tag("at", <<Option("sortable", "")>>), "at")>> >>

Fields ==
  <<Simple("ID", "string", Tag("id", <<Option("sortable", "")>>), "id"),
   Simple("ID", "int", Tag("", <<Option("sortable", ""), Option("col", "name")>>), "name"),
   Simple("Name", "string", Tag("name", <<Option("type", "id"), Option("enum", "A"), Option("enum", "B")>>), "name"),
   Simple("Name", "string", Tag("name", <<Option("enum", "A"), Option("type", "")>>), "other"),
   Simple("Name", "int", Tag("name", <<Option("enum", "A"), Option("sortable", "")>>), "name"),
   Simple("Name", "chan", Tag("name", <<>>), ""),
   Simple("Name", "chan", Tag("name", <<Option("type", "int")>>), "-"),
   Simple("Name", "slice", Tag("name", <<Option("type", "weird")>>), "name"),
   Simple("Name", "slice", Tag("tags", <<Option("only", "")>>), "tags"),
   Simple("Name", "string", Tag("name", <<Option("bogus", ""), Option("type", "weird")>>), "name"),
   Simple("Name", "string", None, "name"),
   Simple("Name", "string", Tag("-", <<>>), ""),
   Simple("Name", "string", Tag("-", <<Option("sortable", "")>>), "name"),
   [Simple("Name", "map", Tag("name", <<>>), "name") EXCEPT !.exported = FALSE],
   [Simple("Name", "string", Tag("name", <<Option("sortable", "")>>), "name") EXCEPT !.pointers = 1],
   [Simple("Name", "string", Tag("name", <<>>), "name") EXCEPT !.pointers = 2],
   [Simple("Name", "struct", Tag("at", <<Option("sortable", "")>>), "at") EXCEPT !.type = MCTimeType],
   [Simple("Name", "struct", Tag("name", <<>>), "name") EXCEPT !.type = 2],
   [Simple("Name", "string", Tag("name", <<>>), "name") EXCEPT !.anonymous = TRUE]>>
  \o [n \in 1 .. 8 |-> Embed((n + 1) \div 2, n % 2, None, "")]
  \o [n \in 1 .. 2 |-> Embed(1, n - 1, Tag("at", <<Option("sortable", "")>>), "at")]

\* The second field of a type has another name, which may come out the same.
Renamed(f) == [f EXCEPT !.name = [ID |-> "Id", Name |-> "NAME", Base |-> "BASE"][f.name]]

\* Every field alone, every two, in both orders.
Count == Len(Fields)
Second(n) == IF n = 0 THEN <<>> ELSE <<Renamed(Fields[n])>>
Roots == [n \in 1 .. (Count + 1) * Count |->
  <<Fields[(n - 1) \div (Count + 1) + 1]>> \o Second(n % (Count + 1))]
MCStruct == Bases \o Roots

MCGiven ==
  {[filters |-> t, rows |-> t, pointer |-> FALSE] : t \in DOMAIN MCStruct}
  \cup {[filters |-> 3, rows |-> t, pointer |-> FALSE] : t \in DOMAIN MCStruct}
  \cup {[filters |-> 3, rows |-> t, pointer |-> TRUE] : t \in 1 .. Len(Bases) + Count}
MCExtra == {<<>>, <<"other", "name">>}
MCToSnakeCase ==
  [ID |-> "id", Id |-> "id", Name |-> "name", NAME |-> "name", Base |-> "base", BASE |-> "base"]

\* What the theorems on the registry presuppose holds here.
ASSUME BasesAreNotSkipped == NoBaseIsSkipped
=============================================================================
