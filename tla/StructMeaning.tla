--------------------------- MODULE StructMeaning ----------------------------
(***************************************************************************)
(* What the tags of a type say (README, "Field registry" and "Typed        *)
(* results"; the comments of FromStruct), read off the type itself.        *)
(***************************************************************************)
EXTENDS StructTags

\* The tagged fields of a type in reading order, those of embedded structs in place.
\* A field tagged "-" is skipped, an embedded struct too (fromstruct.go:26).
Inlined(f) == f.anonymous /\ f.go = "struct" /\ f.type # TimeType /\ ~Skipped(f)

Filters[t \in DOMAIN Struct] ==
  FlattenSeq([i \in DOMAIN Struct[t] |->
    LET f == Struct[t][i] IN
    IF Inlined(f) THEN Filters[f.type] ELSE IF Untagged(f) THEN <<>> ELSE <<f>>])

\* The walk enters an embedded struct before it looks at its tag: that the tag never
\* says "-" is what the first two properties presuppose.
NoBaseIsSkipped ==
  \A f \in AnyField : f.anonymous /\ f.go = "struct" /\ f.type # TimeType => ~Skipped(f)

Says(f, name) == \E i \in DOMAIN f.filter.options : f.filter.options[i].name = name

LastOf(f, name) ==
  LET at == {i \in DOMAIN f.filter.options : f.filter.options[i].name = name}
  IN f.filter.options[CHOOSE i \in at : \A j \in at : j <= i].val

DeclaredType(f) ==
  IF Says(f, "type") THEN LastOf(f, "type")
  ELSE IF InferDataType(f) = "string" /\ Says(f, "enum") THEN "enum"
  ELSE InferDataType(f)

Declares(f, field) ==
  /\ field.type = DeclaredType(f)
  /\ "nullable" \in DOMAIN field.set <=> f.pointers > 0 \/ Says(f, "nullable")
  /\ \A s \in Settings \ {"nullable"} :
       /\ s \in DOMAIN field.set <=> Says(f, s)
       /\ Says(f, s) => field.set[s] = LastOf(f, s)

FaultAt(all, i) ==
  LET f == all[i] IN
  IF \E o \in DOMAIN f.filter.options : f.filter.options[o].name \notin Settings \cup {"type"} THEN "unknown option"
  ELSE IF DeclaredType(f) = "" THEN IF Says(f, "type") /\ InferDataType(f) # "" THEN "missing type" ELSE "cannot infer"
  ELSE IF DeclaredType(f) \notin Types THEN "unknown type"
  ELSE IF \E j \in 1 .. i - 1 : Key(all[j]) = Key(f) THEN "duplicate"
  ELSE "none"

\* The first fault in reading order.
Outcome(all) ==
  LET faults == {i \in DOMAIN all : FaultAt(all, i) # "none"}
  IN IF faults = {} THEN "none" ELSE FaultAt(all, CHOOSE i \in faults : \A j \in faults : i <= j)

\* If no embedded struct is tagged "-", FromStruct reports the first fault there
\* is in any tag, a key that comes twice among the embedded types too, and no
\* other (fromstruct.go:65-97).
FirstTagFault == phase # "tags" => error = Outcome(Filters[given.filters])

\* If no embedded struct is tagged "-", the registry has the field of every tag
\* reached through embedding, as the tag declares it whatever the order of its
\* options, and no other (fromstruct.go:18-38).
RegistryOfTheTags ==
  phase \notin {"tags", "failed"} =>
    LET all == Filters[given.filters] IN
    /\ DOMAIN registry = {Key(all[i]) : i \in DOMAIN all}
    /\ \A i \in DOMAIN all : Declares(all[i], registry[Key(all[i])])

ColumnOf(f) == IF Says(f, "col") THEN LastOf(f, "col") ELSE Key(f)

\* A sort key whose column the field itself is tagged with.  Embedded times are
\* the exception.
CursorKey(f) ==
  /\ Says(f, "sortable")
  /\ f.db = ColumnOf(f)
  /\ f.db \notin {"", "-"}
  /\ ~(f.anonymous /\ f.go = "struct")

\* Where one type carries both kinds of tags, the two walks agree: a sort key
\* whose field is a column of the row has its value in the row, so that the page
\* has a cursor (typed.go:309-327).
CursorKeysAreRead ==
  phase \in {"ready", "scanned"} /\ given.filters = given.rows =>
    LET all == Filters[given.filters] IN
    \A i \in DOMAIN all :
      CursorKey(all[i]) => all[i].db \in DOMAIN colIndex /\ all[i].db \in ToSet(columns)

\* A row is scanned into fields that carry the tag of their column, every column
\* of the type into one (typed.go:71-73).
RowFitsTags ==
  phase = "scanned" =>
    /\ \A p \in DOMAIN row : At(given.rows, p).db = row[p]
    /\ {row[p] : p \in DOMAIN row} = ToSet(columns)

\* The program starts, or is told why not.
Started == <>(phase \notin {"tags", "columns"})
=============================================================================
