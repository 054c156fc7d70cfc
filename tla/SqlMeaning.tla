----------------------------- MODULE SqlMeaning -----------------------------
(***************************************************************************)
(* What a WHERE fragment means to the database, and what the filter tree   *)
(* it came from means to the client.                                       *)
(*                                                                         *)
(* The databases are external.  They are taken at their manuals' word on   *)
(* the forms the dialects emit: NOT binds tighter than AND, AND tighter    *)
(* than OR; a comparison with NULL is unknown; a driver passes exactly as  *)
(* many arguments as there are placeholders.                               *)
(*                                                                         *)
(* Truth values: "T", "F", "U" (unknown); "error" where the database       *)
(* refuses the statement; "none" for a filter that asks nothing.           *)
(***************************************************************************)
EXTENDS Compile, FiniteSetsExt

CONSTANTS
  Row,      \* rows: functions from columns to cells
  Instant,  \* timestamps: from the strings that spell one to minutes from now
  Affixes   \* for each way to match, the pairs <<string, needle>> that match

Not3(v) == CASE v = "T" -> "F" [] v = "F" -> "T" [] OTHER -> v

And3(S) ==
  IF "error" \in S THEN "error" ELSE IF "F" \in S THEN "F" ELSE IF "U" \in S THEN "U" ELSE "T"

Or3(S) ==
  IF "error" \in S THEN "error" ELSE IF "T" \in S THEN "T" ELSE IF "U" \in S THEN "U" ELSE "F"

Holds(b) == IF b THEN "T" ELSE "F"

(***************************************************************************)
(* Predicates over a cell.  A cell is tagged: "null", "str", "num",        *)
(* "bool", "time", "set" (an array) or "map" (a function).                 *)
(***************************************************************************)
CompareTo(sym, x, y) ==
  CASE sym = "=" -> x = y [] sym = "!=" -> x # y
    [] sym = ">" -> x > y [] sym = ">=" -> x >= y
    [] sym = "<" -> x < y [] sym = "<=" -> x <= y

\* The bound argument as a value of the cell's type, if it is one.
Fits(cell, arg) ==
  \/ cell[1] = arg[1]
  \/ cell[1] = "time" /\ arg[1] = "str" /\ arg[2] \in DOMAIN Instant
Cast(cell, arg) == IF cell[1] = "time" THEN Instant[arg[2]] ELSE arg[2]

\* Whether a text cell is matched by a needle, both lower-cased.
IsLike(cell, needle) == <<Lower[cell[2]], Lower[needle[3]]>> \in Affixes[needle[2]]

\* SQLite's json_each yields no row for NULL: its tests are false, not unknown.
OverJsonEach == {"count distinct =", "EXISTS value IN", "EXISTS key", "EXISTS key value"}

Args2(a) == {a[i][2] : i \in DOMAIN a}

OverArray(sym, S, a) ==
  CASE sym \in {"@>", "hasAll", "JSON_CONTAINS"} -> ToSet(a[1][2]) \subseteq S
    [] sym \in {"&&", "hasAny", "JSON_OVERLAPS"} -> ToSet(a[1][2]) \cap S # {}
    [] sym = "EXISTS value IN" -> Args2(a) \cap S # {}
    [] sym = "count distinct =" -> Cardinality(Args2(Front(a)) \cap S) = Last(a)[2]

OverMap(sym, m, a) ==
  CASE sym \in {"?", "mapContains", "EXISTS key", "JSON_CONTAINS_PATH"} -> Holds(a[1][2] \in DOMAIN m)
    [] sym = "?&" -> Holds(ToSet(a[1][2]) \subseteq DOMAIN m)
    \* What is absent is NULL; or it is '', or there is no row.
    [] sym \in {"->> =", "JSON_EXTRACT ="} ->
         IF a[1][2] \in DOMAIN m THEN Holds(m[a[1][2]] = a[2][2]) ELSE "U"
    [] sym \in {"[] =", "EXISTS key value"} ->
         Holds(a[1][2] \in DOMAIN m /\ m[a[1][2]] = a[2][2])
    [] OTHER -> "error"

OverScalar(sym, lit, a, cell) ==
  CASE sym \in {"=", "!=", ">", ">=", "<", "<="} ->
         IF Fits(cell, a[1]) THEN Holds(CompareTo(sym, cell[2], Cast(cell, a[1]))) ELSE "error"
    [] sym \in {"IN", "NOT IN"} ->
         IF \A i \in DOMAIN a : Fits(cell, a[i])
         THEN Holds((sym = "IN") <=> (\E i \in DOMAIN a : Cast(cell, a[i]) = cell[2]))
         ELSE "error"
    [] sym \in {"= ANY", "IN json_each", "<> ALL", "NOT IN json_each"} /\ cell[1] = "str" ->
         Holds((sym \in {"= ANY", "IN json_each"}) <=> (cell[2] \in ToSet(a[1][2])))
    [] sym = "BETWEEN" /\ cell[1] \in {"num", "time"} ->
         IF Fits(cell, a[1]) /\ Fits(cell, a[2])
         THEN Holds(Cast(cell, a[1]) <= cell[2] /\ cell[2] <= Cast(cell, a[2]))
         ELSE "error"
    [] sym = "BETWEEN now" /\ cell[1] = "time" -> Holds(lit[1] <= cell[2] /\ cell[2] <= lit[2])
    [] sym \in {"ILIKE", "LIKE ESCAPE"} /\ cell[1] = "str" -> Holds(IsLike(cell, a[1]))
    \* MySQL compares the lower-cased column with the needle as it is bound.
    [] sym = "LOWER LIKE" /\ cell[1] = "str" ->
         Holds(<<Lower[cell[2]], a[1][3]>> \in Affixes[a[1][2]])
    [] OTHER -> "error"

Test(sym, lit, a, cell) ==
  IF sym \in {"IS NULL", "IS NOT NULL"} THEN Holds((sym = "IS NULL") <=> (cell[1] = "null"))
  ELSE IF cell[1] = "null" THEN (IF sym \in OverJsonEach THEN "F" ELSE "U")
  ELSE IF cell[1] = "set" THEN Holds(OverArray(sym, cell[2], a))
  ELSE IF cell[1] = "map" THEN OverMap(sym, cell[2], a)
  ELSE OverScalar(sym, lit, a, cell)

(***************************************************************************)
(* A statement: the text, with each placeholder replaced by its argument.  *)
(***************************************************************************)
\* The n-th "?" is given the n-th argument; "$n" says which.
Mark(text, p) == 1 + Cardinality({q \in Places(text) : Precedes(q, p)})

ArgumentOf(text, p) == IF dialect = "postgres" THEN Shown(text, p) ELSE Mark(text, p)

Executable(text) ==
  /\ Cardinality(Places(text)) = Len(args)
  /\ \A p \in Places(text) : ArgumentOf(text, p) \in DOMAIN args

Bound(text) ==
  [i \in DOMAIN text |->
     [sym |-> text[i].sym, col |-> text[i].col, lit |-> text[i].lit,
      a |-> [j \in DOMAIN text[i].slots |-> args[ArgumentOf(text, <<i, j>>)]]]]

Depth(s, i) == Cardinality({j \in 1 .. i : s[j].sym = "("})
               - Cardinality({j \in 1 .. i : s[j].sym = ")"})

\* Where s is cut by a connective outside all parentheses, and the two sides of
\* the last cut.
Cuts(s, w) == {i \in DOMAIN s : s[i].sym = w /\ Depth(s, i) = 0}
Before(s, w) == SubSeq(s, 1, Max(Cuts(s, w)) - 1)
After(s, w) == SubSeq(s, Max(Cuts(s, w)) + 1, Len(s))

Enclosed(s) ==
  /\ Len(s) > 2 /\ s[1].sym = "(" /\ s[Len(s)].sym = ")"
  /\ \A i \in 1 .. Len(s) - 1 : Depth(s, i) > 0

\* The truth of bound text on a row.  AND and OR group to the left.
Evaluate(s, row) ==
  LET value[t \in Seq(ToSet(s))] ==
        IF t = <<>> THEN "error"
        ELSE IF Cuts(t, "OR") # {} THEN Or3({value[Before(t, "OR")], value[After(t, "OR")]})
        ELSE IF Cuts(t, "AND") # {} THEN And3({value[Before(t, "AND")], value[After(t, "AND")]})
        ELSE IF t[1].sym = "NOT" THEN Not3(value[Tail(t)])
        ELSE IF Enclosed(t) THEN value[SubSeq(t, 2, Len(t) - 1)]
        ELSE IF Len(t) = 1 /\ t[1].col \in DOMAIN row
        THEN Test(t[1].sym, t[1].lit, t[1].a, row[t[1].col])
        ELSE "error"
  IN value[s]
=============================================================================
