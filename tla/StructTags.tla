----------------------------- MODULE StructTags -----------------------------
(***************************************************************************)
(* How a program with struct tags starts: FromStruct reads the filter tags *)
(* of a type into a registry (bind/fromstruct.go), For reads the db tags   *)
(* of the row type into columns (bind/typed.go), and rows are scanned into *)
(* the fields found.  Both are a depth-first walk through the types that   *)
(* are embedded, each with its own idea of what to enter and what to keep. *)
(*                                                                         *)
(* A struct type is a number, its place among the declarations: what it    *)
(* embeds was declared before.  A type that embeds a pointer to itself,    *)
(* which Go allows, is left out: neither walk would end.  A field without  *)
(* a filter tag has the key "none".                                        *)
(***************************************************************************)
EXTENDS Integers, Sequences, SequencesExt

CONSTANTS
  Struct,       \* the struct types: the fields of each
  TimeType,     \* time.Time among them
  Given,        \* what FromStruct and For are called with: two types, and whether
                \* the row type is a pointer
  Extra,        \* columns that a query returns beside those of the type
  ToSnakeCase   \* toSnakeCase on the field names

\* Options that set one attribute of the field to a value or to true; parts of
\* a value that are empty, and order in a list, are abstracted.
Settings ==
  {"col", "valueexpr", "enum", "joins", "search", "only", "except",
   "sortable", "nullable", "hidden", "raw", "having"}

Types == {"string", "id", "int", "float", "bool", "timestamp", "enum", "array", "map"}

\* The fields of all types.
AnyField == UNION {ToSet(Struct[t]) : t \in DOMAIN Struct}

ASSUME StructAssumption ==
  /\ Struct \in Seq(Seq(AnyField))
  /\ \A f \in AnyField : f.filter.options \in Seq(ToSet(f.filter.options)) /\ f.db \in STRING
  /\ Given \subseteq [filters : DOMAIN Struct, rows : DOMAIN Struct, pointer : BOOLEAN]
  /\ Extra \subseteq Seq(STRING)

ASSUME DeclaredBefore ==
  \A t \in DOMAIN Struct : \A i \in DOMAIN Struct[t] :
    LET f == Struct[t][i] IN f.anonymous /\ f.go = "struct" => f.type \in 1 .. t - 1

VARIABLES
  given,      \* the types of this start
  phase,      \* "tags", "columns", "ready", "scanned"; or "failed", "panic"
  stack,      \* the active calls of the walk: type, next field, and where it is embedded
  registry,   \* key -> field
  error,      \* what FromStruct returned
  columns,    \* structInfo.columns
  colIndex,   \* structInfo.colIndex
  row         \* the fields scanned into, with the column each holds

vars == <<given, phase, stack, registry, error, columns, colIndex, row>>

\* An assignment to an entry of a map.
Put(map, key, val) == [k \in DOMAIN map \cup {key} |-> IF k = key THEN val ELSE map[k]]

Call(type, at) == [type |-> type, next |-> 1, at |-> at]

Init ==
  /\ given \in Given
  /\ phase = "tags"
  /\ stack = <<Call(given.filters, <<>>)>>
  /\ registry = [k \in {} |-> {}]
  /\ error = "none"
  /\ columns = <<>>
  /\ colIndex = [c \in {} |-> <<>>]
  /\ row = [p \in {} |-> ""]

(***************************************************************************)
(* The loop over the fields of a struct.                                   *)
(***************************************************************************)
Current == Last(stack)
AtField(p) == phase = p /\ Current.next <= Len(Struct[Current.type])
AtEnd(p) == phase = p /\ Current.next > Len(Struct[Current.type])
Field == Struct[Current.type][Current.next]
Here == Append(Current.at, Current.next)

Onward == [stack EXCEPT ![Len(stack)].next = @ + 1]
Within == Append(Onward, Call(Field.type, Here))

\* The call returns to the loop around it.
Leave(p) == AtEnd(p) /\ Len(stack) > 1 /\ stack' = Front(stack)

EmbedsStruct == Field.anonymous /\ Field.go = "struct"

(***************************************************************************)
(* parseFilterTag.                                                         *)
(***************************************************************************)
InferDataType(f) ==
  IF f.pointers > 1 THEN ""
  ELSE CASE f.go = "struct" -> IF f.type = TimeType THEN "timestamp" ELSE ""
         [] f.go = "slice" -> "array"
         [] OTHER -> IF f.go \in {"string", "bool", "int", "float", "map"} THEN f.go ELSE ""

\* What one option makes of what was parsed before it; a later one overrides, and
\* none is read after one that is unknown.
Take(p, opt) ==
  IF p.unknown THEN p
  ELSE IF opt.name = "type" THEN [p EXCEPT !.type = opt.val, !.explicit = TRUE]
  ELSE IF opt.name \in Settings THEN [p EXCEPT !.set = Put(p.set, opt.name, opt.val)]
  ELSE [p EXCEPT !.unknown = TRUE]

Untouched(f) ==
  [type |-> InferDataType(f), explicit |-> FALSE, unknown |-> FALSE,
   set |-> [s \in IF f.pointers > 0 THEN {"nullable"} ELSE {} |-> ""]]

ParseOptions(f) ==
  LET parsed[i \in 0 .. Len(f.filter.options)] ==
        IF i = 0 THEN Untouched(f) ELSE Take(parsed[i - 1], f.filter.options[i])
  IN parsed[Len(f.filter.options)]

\* Faulty: the type of an enumeration is taken over whatever the tag says.
ParsedTypeOfEnum(p, f) ==
  IF "enum" \in DOMAIN p.set THEN "enum" ELSE p.type

ParsedType(p, f) ==
  IF "enum" \in DOMAIN p.set /\ ~p.explicit /\ InferDataType(f) = "string" THEN "enum" ELSE p.type

ParseFault(p, f) ==
  IF p.unknown THEN "unknown option"
  ELSE IF ParsedType(p, f) = "" THEN IF InferDataType(f) = "" THEN "cannot infer" ELSE "missing type"
  ELSE IF ParsedType(p, f) \notin Types THEN "unknown type"
  ELSE "none"

Key(f) == IF f.filter.key = "" THEN ToSnakeCase[f.name] ELSE f.filter.key

ParseFilterTag(f) ==
  LET p == ParseOptions(f) IN
  [key |-> Key(f), field |-> [type |-> ParsedType(p, f), set |-> p.set], fault |-> ParseFault(p, f)]

(***************************************************************************)
(* collectFields.                                                          *)
(***************************************************************************)
Skipped(f) == f.filter.key = "-" /\ f.filter.options = <<>>
Untagged(f) == f.filter.key = "none" \/ Skipped(f)

Collecting == AtField("tags") /\ UNCHANGED <<given, columns, colIndex, row>>

IsFlattened == EmbedsStruct /\ Field.type # TimeType

\* Faulty: an untagged field is not passed over.
SkipStays ==
  /\ Collecting
  /\ ~IsFlattened
  /\ Untagged(Field)
  /\ UNCHANGED <<stack, phase, registry, error>>

\* An embedded struct is entered whatever its own tag says.
Flatten ==
  /\ Collecting
  /\ IsFlattened
  /\ stack' = Within
  /\ UNCHANGED <<phase, registry, error>>

SkipField ==
  /\ Collecting
  /\ ~IsFlattened
  /\ Untagged(Field)
  /\ stack' = Onward
  /\ UNCHANGED <<phase, registry, error>>

Fails(what) ==
  /\ phase' = "failed"
  /\ error' = what
  /\ UNCHANGED <<stack, registry>>

Tagged == Collecting /\ ~IsFlattened /\ ~Untagged(Field)

BadTag == Tagged /\ ParseFilterTag(Field).fault # "none" /\ Fails(ParseFilterTag(Field).fault)

\* Faulty: the field of an outer struct hides that of an embedded one.
DuplicateIgnored ==
  /\ Tagged
  /\ ParseFilterTag(Field).fault = "none"
  /\ Key(Field) \in DOMAIN registry
  /\ stack' = Onward
  /\ UNCHANGED <<phase, registry, error>>

Duplicate ==
  /\ Tagged
  /\ ParseFilterTag(Field).fault = "none"
  /\ Key(Field) \in DOMAIN registry
  /\ Fails("duplicate")

Collect ==
  /\ Tagged
  /\ ParseFilterTag(Field).fault = "none"
  /\ Key(Field) \notin DOMAIN registry
  /\ registry' = Put(registry, Key(Field), ParseFilterTag(Field).field)
  /\ stack' = Onward
  /\ UNCHANGED <<phase, error>>

Collected == Leave("tags") /\ UNCHANGED <<given, phase, registry, error, columns, colIndex, row>>

\* FromStruct returns, and For is called with the row type.
FromStruct ==
  /\ AtEnd("tags")
  /\ Len(stack) = 1
  /\ phase' = "columns"
  /\ stack' = <<Call(given.rows, <<>>)>>
  /\ UNCHANGED <<given, registry, error, columns, colIndex, row>>

(***************************************************************************)
(* infoFor.                                                                *)
(***************************************************************************)
Indexing == AtField("columns") /\ UNCHANGED <<given, phase, registry, error, row>>

\* Faulty: an embedded pointer is not looked through.
WalkValues ==
  /\ Indexing
  /\ EmbedsStruct
  /\ stack' = IF Field.pointers = 0 THEN Within ELSE Onward
  /\ UNCHANGED <<columns, colIndex>>

\* time.Time is a struct too.
Walk ==
  /\ Indexing
  /\ EmbedsStruct
  /\ stack' = Within
  /\ UNCHANGED <<columns, colIndex>>

NoColumn ==
  /\ Indexing
  /\ ~EmbedsStruct
  /\ Field.db \in {"", "-"}
  /\ stack' = Onward
  /\ UNCHANGED <<columns, colIndex>>

\* Faulty: the place of the embedded struct is lost.
AddColumnAtTop ==
  /\ Indexing
  /\ ~EmbedsStruct
  /\ Field.db \notin {"", "-"}
  /\ columns' = Append(columns, Field.db)
  /\ colIndex' = Put(colIndex, Field.db, <<Current.next>>)
  /\ stack' = Onward

\* A column that was there already stays in the list and gets the later field.
AddColumn ==
  /\ Indexing
  /\ ~EmbedsStruct
  /\ Field.db \notin {"", "-"}
  /\ columns' = Append(columns, Field.db)
  /\ colIndex' = Put(colIndex, Field.db, Here)
  /\ stack' = Onward

Walked == Leave("columns") /\ UNCHANGED <<given, phase, registry, error, columns, colIndex, row>>

\* For returns; a type without columns panics.  A pointer to a struct passes: its
\* columns are those of the struct.
For ==
  /\ AtEnd("columns")
  /\ Len(stack) = 1
  /\ phase' = IF columns = <<>> THEN "panic" ELSE "ready"
  /\ UNCHANGED <<given, stack, registry, error, columns, colIndex, row>>

(***************************************************************************)
(* scanRows, on one row.                                                   *)
(***************************************************************************)
\* The field at a path, from the type it begins in.
At(type, path) ==
  LET types[j \in 1 .. Len(path)] == IF j = 1 THEN type ELSE Struct[types[j - 1]][path[j - 1]].type
  IN Struct[types[Len(path)]][path[Len(path)]]

\* FieldByIndex of a row that is itself a pointer or through an embedded one, nil
\* in a new row, and Interface of a field that is not exported.
Panics(path) ==
  \/ given.pointer
  \/ ~At(given.rows, path).exported
  \/ \E j \in 1 .. Len(path) - 1 : At(given.rows, SubSeq(path, 1, j)).pointers > 0

\* A column without a field is discarded; of a column that comes twice the last
\* value stays.
ScanRow ==
  /\ phase = "ready"
  /\ \E more \in Extra :
       LET cols == columns \o more
           found == {i \in DOMAIN cols : cols[i] \in DOMAIN colIndex}
       IN
       IF \E i \in found : Panics(colIndex[cols[i]])
       THEN phase' = "panic" /\ UNCHANGED row
       ELSE /\ phase' = "scanned"
            /\ row' = [p \in {colIndex[cols[i]] : i \in found} |->
                         cols[Max({i \in found : colIndex[cols[i]] = p})]]
  /\ UNCHANGED <<given, stack, registry, error, columns, colIndex>>

Next ==
  \/ Flatten \/ SkipField \/ BadTag \/ Duplicate \/ Collect \/ Collected \/ FromStruct
  \/ Walk \/ NoColumn \/ AddColumn \/ Walked \/ For \/ ScanRow

Spec == Init /\ [][Next]_vars

\* Straight-line code in one goroutine; whether a row is ever scanned is the caller's.
FairSpec == Spec /\ WF_vars(Next /\ phase # "ready")
=============================================================================
