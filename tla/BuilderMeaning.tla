--------------------------- MODULE BuilderMeaning ---------------------------
(***************************************************************************)
(* What a statement put together by the Builder means to the database.     *)
(***************************************************************************)
EXTENDS Builder, FilterMeaning

\* What one part of the WHERE text was asked for.
PartSays(part, row) ==
  CASE part.kind = "arg" -> Holds(row[part.arg.col][2] = part.arg.value[2])
    [] part.kind = "seek" ->
         Holds(LET bare == [k \in DOMAIN part.seek.cur |-> part.seek.cur[k][2]]
               IN Order!Seek(part.seek.sorts, bare, [c \in DOMAIN row |-> row[c][2]]))
    [] OTHER -> ListMeaning(part.out, part.conds, row)

\* A row is selected by what is true of it, and by what asks nothing.
Selects(v) == v \in {"T", "none"}

\* The rows selected are those that every part selects: its own filter without
\* what it excludes itself, its own cursor, its own value - whatever was rendered
\* before or failed before.  (With "?" a failure leaves the arguments misaligned.)
WhereMeansItsParts ==
  call = "none" /\ (~failed \/ dialect = "postgres") =>
    LET bound == SubSeq(Bound(Statement), 1, Len(where)) IN
    \A row \in Row :
      (\A i \in DOMAIN asked : Selects(PartSays(asked[i], row))) <=>
        Selects(IF where = <<>> THEN "none" ELSE Evaluate(bound, row))

(***************************************************************************)
(* What the property presupposes of what a client compares itself.         *)
(***************************************************************************)
\* The column holds NULL or what the value is, and not a timestamp, which a
\* driver compares with a string that spells one.
Comparable(col, value) ==
  /\ value[1] \in {"str", "num", "bool"} /\ value[2] # Null
  /\ \A row \in Row :
       /\ col \in DOMAIN row
       /\ row[col][1] \in {value[1], "null"}
       /\ row[col][1] = "null" <=> row[col][2] = Null

\* A cursor that is not refused, against what its sorts select.
SeekDecided(s) ==
  DOMAIN s.cur # {} /\ Order!FirstSortFault(s.sorts, s.cur) = "ok" =>
    \A i \in DOMAIN s.sorts : Comparable(SelectExpr(s.sorts[i].key), s.cur[s.sorts[i].key])

FragmentsDecided ==
  /\ AllDecided
  /\ \A v \in Literal : Comparable(v.col, v.value)
  /\ \A s \in Seeks : SeekDecided(s)
=============================================================================
