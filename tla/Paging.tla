------------------------------- MODULE Paging -------------------------------
(***************************************************************************)
(* A client that walks over the pages of a typed query (bind/typed.go):    *)
(* TypedSelect.All with the cursor of the page before, until no cursor     *)
(* comes back, and TypedSelect.Count beside it, while other clients write  *)
(* to the table.  A statement reads a snapshot; between the query and the  *)
(* answer, and between two pages, anything may be written.                 *)
(*                                                                         *)
(* A query the database fails returns the error and changes nothing here;  *)
(* the client may ask again with the cursor it has.                        *)
(***************************************************************************)
EXTENDS SortOrder, FiniteSets, SequencesExt

CONSTANTS
  Wanted,         \* the rows that Scope and Where select
  Request,        \* dialect, sorts, limit and cursor a client may begin with
  StructColumns,  \* the columns with a db tag in the row type
  Numeric,        \* the sort keys whose values JSON carries as numbers
  Mantissa,       \* the integers a float64 holds exactly: 2^53
  MaxMet          \* bound of the model: no further page after so many rows

\* A limit that is not positive is none.
ASSUME RequestAssumption ==
  \A q \in Request :
    /\ q.sorts \in Seq([key : STRING, desc : BOOLEAN, nulls : {"default", "first", "last"}])
    /\ q.limit \in Int

VARIABLES
  request,   \* the TypedSelect
  table,     \* the rows, distinct in id
  pc,        \* "idle", "scanning", "done" or "refused"
  token,     \* the client's cursor, <<>> for ""
  fetched,   \* the rows the statement returned
  met,       \* the rows of the pages delivered so far
  error,     \* the error of a request that was refused
  total,     \* what Count returned, <<>> if it was not called
  since,     \* auxiliary: the rows that were there ever since the walk began
  quiet      \* auxiliary: nothing was written since the walk began

vars == <<request, table, pc, token, fetched, met, error, total, since, quiet>>

Dialect == {"clickhouse", "postgres", "sqlite", "mysql"}

Tables == {t \in SUBSET Row : \A a, b \in t : a.id = b.id => a = b}

Init ==
  /\ request \in Request
  /\ table \in Tables
  /\ pc = "idle"
  /\ token = request.start
  /\ fetched = <<>>
  /\ met = <<>>
  /\ error = "none"
  /\ total = <<>>
  /\ since = table
  /\ quiet = TRUE

(***************************************************************************)
(* Cursors.  EncodeCursor writes an integer with all its digits,           *)
(* DecodeCursor reads every number as a float64: above the mantissa only   *)
(* even numbers are left, ties going to the multiple of four.              *)
(***************************************************************************)
Float64(v) ==
  IF v <= Mantissa \/ v % 2 = 0 THEN v
  ELSE IF (v - 1) % 4 = 0 THEN v - 1 ELSE v + 1

Decoded(t) ==
  IF t = <<>> THEN <<>>
  ELSE [k \in DOMAIN t[1] |-> IF k \in Numeric /\ t[1][k] # Null THEN Float64(t[1][k]) ELSE t[1][k]]

\* Faulty: the cursor of the page is that of the extra row.
NextTokenOfExtraRow(sorts, page) ==
  LET keys == {sorts[i].key : i \in DOMAIN sorts} IN
  IF \E k \in keys : Field[k].column \notin StructColumns THEN <<>>
  ELSE << [k \in keys |-> fetched[Len(fetched)][Field[k].column]] >>

\* cursorFor: the struct field of each sort key's column, in the last row; no
\* cursor if the struct has none.
NextToken(sorts, page) ==
  LET keys == {sorts[i].key : i \in DOMAIN sorts} IN
  IF \E k \in keys : Field[k].column \notin StructColumns THEN <<>>
  ELSE << [k \in keys |-> page[Len(page)][Field[k].column]] >>

(***************************************************************************)
(* The statement: the rows in order, cut off at the limit.                 *)
(***************************************************************************)
\* Faulty: the seek predicate is left out of the statement.
SoughtAll(t) == table \cap Wanted

Sought(t) == {r \in table \cap Wanted : Seek(request.sorts, Decoded(t), r)}

\* Faulty: no row more than the page is fetched.
FetchPageOnly == request.limit

\* One row more than the page, to see whether there is another; 0 is no limit.
Fetch == IF request.limit > 0 THEN request.limit + 1 ELSE 0

\* The sequences ORDER BY and LIMIT may make of a set of rows: none comes before
\* an earlier one, or was left out and comes before one that is there.
Answers(rows, limit) ==
  {seq \in UNION {[1 .. n -> rows] : n \in 0 .. Cardinality(rows)} :
     /\ \A i, j \in DOMAIN seq :
          i < j => seq[i] # seq[j] /\ ~Before(request.dialect, request.sorts, seq[j], seq[i])
     /\ \A r \in rows \ {seq[i] : i \in DOMAIN seq} :
          /\ limit > 0 /\ Len(seq) = limit
          /\ \A i \in DOMAIN seq : ~Before(request.dialect, request.sorts, r, seq[i])
     /\ limit > 0 => Len(seq) <= limit}

(***************************************************************************)
(* TypedSelect.All.                                                        *)
(***************************************************************************)
Fault == FirstSortFault(request.sorts, Decoded(token))

\* Faulty: the error is dropped.
RefuseSilently ==
  /\ pc = "idle"
  /\ Fault # "ok"
  /\ pc' = "refused"
  /\ UNCHANGED <<request, table, token, fetched, met, error, total, since, quiet>>

\* build fails in Keyset or OrderBy, before any statement.
Refuse ==
  /\ pc = "idle"
  /\ Fault # "ok"
  /\ error' = Fault
  /\ pc' = "refused"
  /\ UNCHANGED <<request, table, token, fetched, met, total, since, quiet>>

Query ==
  /\ pc = "idle"
  /\ Fault = "ok"
  /\ Len(met) <= MaxMet
  /\ fetched' \in Answers(Sought(token), Fetch)
  /\ pc' = "scanning"
  /\ UNCHANGED <<request, table, token, met, error, total, since, quiet>>

More == request.limit > 0 /\ Len(fetched) > request.limit
Page == IF More THEN SubSeq(fetched, 1, request.limit) ELSE fetched
After == IF More THEN NextToken(request.sorts, Page) ELSE <<>>

\* The page goes to the client, who asks for the next one if there is a cursor.
Deliver ==
  /\ pc = "scanning"
  /\ met' = met \o Page
  /\ token' = After
  /\ fetched' = <<>>
  /\ pc' = IF After = <<>> THEN "done" ELSE "idle"
  /\ UNCHANGED <<request, table, error, total, since, quiet>>

\* Faulty: the count is taken under the cursor.
CountFromCursor ==
  /\ Fault = "ok"
  /\ total' = <<Cardinality(Sought(token))>>
  /\ UNCHANGED <<request, table, pc, token, fetched, met, error, since, quiet>>

\* Count: Scope and Where without sort, cursor and limit.
Count ==
  /\ total' = <<Cardinality(table \cap Wanted)>>
  /\ UNCHANGED <<request, table, pc, token, fetched, met, error, since, quiet>>

(***************************************************************************)
(* The other clients.                                                      *)
(***************************************************************************)
Write(t) ==
  /\ pc \in {"idle", "scanning"}
  /\ table' = t
  /\ since' = since \cap t
  /\ quiet' = FALSE
  /\ UNCHANGED <<request, pc, token, fetched, met, error, total>>

Insert == \E r \in Row : (\A a \in table : a.id # r.id) /\ Write(table \cup {r})
Delete == \E r \in table : Write(table \ {r})
Update == \E a \in table, b \in Row : a.id = b.id /\ a # b /\ Write((table \ {a}) \cup {b})

Walk == Refuse \/ Query \/ Deliver

Next == Walk \/ Count \/ Insert \/ Delete \/ Update

Spec == Init /\ [][Next]_vars

\* The walk goes on, whatever the others do; nobody has to write or count.
FairSpec == Spec /\ WF_vars(Walk)

(***************************************************************************)
(* Properties.                                                             *)
(***************************************************************************)
TypeOK ==
  /\ request \in Request
  /\ table \in Tables
  /\ pc \in {"idle", "scanning", "done", "refused"}
  /\ fetched \in Seq(Row)
  /\ met \in Seq(Row)
  /\ since \subseteq table
  /\ quiet \in BOOLEAN
  /\ error = "none" <=> pc # "refused"

Position == [dialect |-> request.dialect, sorts |-> request.sorts, start |-> Decoded(request.start)]

\* The rows of all pages stand in the order of the sort, each after those before it.
MetOrdered ==
  \A i, j \in DOMAIN met : i < j => Before(request.dialect, request.sorts, met[i], met[j])

\* A row that was there all the time, and that the walk set out for, is in a
\* page or still ahead; when the walk is over, it was in a page.
StayersMet ==
  \A r \in since \cap Wanted :
    Seek(request.sorts, Position.start, r) /\ pc # "refused" =>
      \/ r \in {met[i] : i \in DOMAIN met}
      \/ pc # "done" /\ \A i \in DOMAIN met : Before(request.dialect, request.sorts, met[i], r)

\* In every statement NULL stands where the first sort asks, in every dialect.
NullsWhereAsked ==
  request.sorts # <<>> /\ request.sorts[1].nulls # "default" =>
    \A i, j \in DOMAIN fetched :
      LET x == SelectExpr(request.sorts[1].key, fetched[i])
          y == SelectExpr(request.sorts[1].key, fetched[j])
      IN x = Null /\ y # Null => IF request.sorts[1].nulls = "first" THEN i < j ELSE j < i

\* Promises of the documentation that the code does not keep.

Distinct(seq) == \A i, j \in DOMAIN seq : i # j => seq[i] # seq[j]

\* typed.go:166, "Include a unique key (e.g. id) last so pages don't repeat".
UniqueKeyNeverRepeats ==
  request.sorts # <<>> /\ request.sorts[Len(request.sorts)].key = "id" /\ quiet => Distinct(met)

\* README:409, "next is the cursor for the following page ("" if none)".
NextLeadsOn == request.sorts = <<>> /\ quiet => Distinct(met)

\* typed.go:241, the cursor is "built from the last row's sort values".
CursorHoldsSortValues ==
  met # <<>> /\ token # <<>> =>
    \A k \in DOMAIN token[1] : token[1][k] = SelectExpr(k, met[Len(met)])

\* Every walk ends: each page moves the cursor on, and a fault is reported.  There
\* are only so many rows that others may put ahead of it.
WalkEnds == <>(pc \in {"done", "refused"})
=============================================================================
