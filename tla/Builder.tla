------------------------------ MODULE Builder -------------------------------
(***************************************************************************)
(* One statement put together from fragments over one Query: the Builder   *)
(* (builder.go), the seek predicate as it is written (keysetInto), and     *)
(* CompileWhereHaving (having.go).                                         *)
(*                                                                         *)
(* A client asks for one fragment after the other, WHERE before HAVING, at *)
(* most Calls of them, and joins those that are not empty by AND.  A       *)
(* fragment that fails it leaves out.  renderTop is the machine of Compile *)
(* on the shared arguments and exclusion.                                  *)
(***************************************************************************)
EXTENDS Compile

CONSTANTS
  HavingKeys,  \* the filter keys of the fields marked Having
  Null,        \* as in SortOrder
  SortField,   \* what sorting reads of the registry: a function from sort keys to
               \* records of column, valueExpr, or "", and sortable
  Literal,     \* the values a client binds itself
  Seeks,       \* the sorts and cursors a client pages with
  Calls        \* bound of the model: fragments of one statement

ASSUME CallsAssumption == Calls \in Nat \ {0}

ASSUME SeekAssumption ==
  \A s \in Seeks :
    s.sorts \in Seq([key : STRING, desc : BOOLEAN, nulls : {"default", "first", "last"}])

VARIABLES
  call,      \* the rendering under way, or "none"
  saved,     \* saved, in WhereExcluding
  pending,   \* the having list CompileWhereHaving has still to render
  where,     \* the WHERE text the client has so far
  having,    \* the HAVING text the client has so far
  failed,    \* some fragment failed
  asked,     \* what each part of where was asked for
  left       \* how many fragments the client still asks for

own == <<call, saved, pending, where, having, failed, asked, left>>

\* selectExpr.  A row has a cell for a ValueExpr as it has one for a column.
SelectExpr(key) ==
  IF SortField[key].valueExpr # "" THEN SortField[key].valueExpr ELSE SortField[key].column

\* The order is by the cells of the select expressions.
SortCell ==
  [k \in DOMAIN SortField |->
     [column |-> SelectExpr(k), expr |-> [x \in {} |-> x], sortable |-> SortField[k].sortable]]

Order == INSTANCE SortOrder WITH Row <- {}, Field <- SortCell

Top(conds) ==
  [form |-> "top", node |-> Empty, rest |-> conds, cols |-> <<>>,
   text |-> <<>>, live |-> 0, from |-> Len(args)]

BuilderInit ==
  /\ dialect \in Target
  /\ filter = <<>>
  /\ exclude = ""
  /\ stack = <<[form |-> "top", node |-> Empty, rest |-> <<>>, cols |-> <<>>,
                text |-> <<>>, live |-> 0, from |-> 0]>>
  /\ args = <<>>
  /\ joinKeys = {}
  /\ sql = <<>>
  /\ result = "ok"
  /\ call = "none"
  /\ saved = ""
  /\ pending = <<>>
  /\ where = <<>>
  /\ having = <<>>
  /\ failed = FALSE
  /\ asked = <<>>
  /\ left = Calls

\* The client's AND between two texts.
Glue(a, b) ==
  IF a = <<>> THEN b ELSE IF b = <<>> THEN a ELSE a \o <<Word("AND")>> \o b

Asks == call = "none" /\ left > 0 /\ left' = left - 1

\* q.Arg, in a predicate of the client on its own column.
Arg ==
  /\ Asks
  /\ having = <<>>
  /\ \E v \in Literal :
       /\ where' = Glue(where, One("=", v.col, Len(args), <<v.value>>).text)
       /\ args' = Append(args, v.value)
       /\ asked' = Append(asked, [kind |-> "arg", arg |-> v])
  /\ UNCHANGED <<dialect, filter, exclude, stack, joinKeys, sql, result>>
  /\ UNCHANGED <<call, saved, pending, having, failed>>

\* renderTop begins.
Begin(kind, conds) ==
  /\ call' = kind
  /\ filter' = conds
  /\ stack' = <<Top(conds)>>
  /\ sql' = <<>>
  /\ result' = "running"
  /\ UNCHANGED <<dialect, args, joinKeys>>

Where ==
  /\ Asks
  /\ having = <<>>
  /\ \E conds \in Filter : Begin("where", conds)
  /\ UNCHANGED <<exclude, saved, pending, where, having, failed, asked>>

WhereExcluding ==
  /\ Asks
  /\ having = <<>>
  /\ \E conds \in Filter, x \in Excludable : Begin("excluding", conds) /\ exclude' = x
  /\ saved' = exclude
  /\ UNCHANGED <<pending, where, having, failed, asked>>

(***************************************************************************)
(* requireKind: the first key, in reading order, that is unknown or not of *)
(* the kind wanted.                                                        *)
(***************************************************************************)
\* Faulty: the children of a negation are not looked at.
KeysOutsideNot[c \in Condition] ==
  LET children == c.and \o c.or IN
  (IF c.key = "" THEN <<>> ELSE <<c.key>>)
  \o FlattenSeq([i \in DOMAIN children |-> KeysOutsideNot[children[i]]])

KeysIn[c \in Condition] ==
  (IF c.key = "" THEN <<>> ELSE <<c.key>>)
  \o FlattenSeq([i \in DOMAIN Subtrees(c) |-> KeysIn[Subtrees(c)[i]]])

KindFault(key, wantHaving) ==
  IF key \notin DOMAIN Registry THEN "ErrUnknownField"
  ELSE IF (key \in HavingKeys) # wantHaving THEN "ErrInvalidCondition"
  ELSE "ok"

\* Faulty: negations may mention anything.
RequireKindOutsideNot(conds, wantHaving) ==
  \A i \in DOMAIN conds : \A k \in ToSet(KeysOutsideNot[conds[i]]) : KindFault(k, wantHaving) = "ok"

RequireKind(conds, wantHaving) ==
  \A i \in DOMAIN conds : \A k \in ToSet(KeysIn[conds[i]]) : KindFault(k, wantHaving) = "ok"

\* An error before anything is rendered.
Refused ==
  /\ failed' = TRUE
  /\ UNCHANGED <<vars, call, saved, pending, where, having, asked>>

Having ==
  /\ Asks
  /\ \E conds \in Filter :
       \/ RequireKind(conds, TRUE) /\ Begin("having", conds)
          /\ UNCHANGED <<exclude, saved, pending, where, having, failed, asked>>
       \/ ~RequireKind(conds, TRUE) /\ Refused

\* CompileWhereHaving has a Query of its own: it is the whole statement.
WhereAndHaving ==
  /\ call = "none"
  /\ left = Calls /\ left' = 0
  /\ \E w, h \in Filter :
       \/ /\ RequireKind(w, FALSE) /\ RequireKind(h, TRUE)
          /\ Begin("both", w)
          /\ pending' = h
          /\ UNCHANGED <<exclude, saved, where, having, failed, asked>>
       \/ ~(RequireKind(w, FALSE) /\ RequireKind(h, TRUE)) /\ Refused

(***************************************************************************)
(* keysetInto.  An alternative for each sort: equal in the sorts before    *)
(* it, and past the cursor in this one.  The value of a sort is bound once *)
(* for each alternative that mentions it.                                  *)
(***************************************************************************)
Bind(cur, s) == cur[s.key]

\* Faulty: the loop over the sorts before stops one short in the values it binds.
AlternativeUnbound(sorts, cur, i, n) ==
  [text |-> [k \in 1 .. 2 * i - 1 |->
               IF k % 2 = 0 THEN Word("AND")
               ELSE LET j == (k + 1) \div 2 IN
                    Predicate(IF j < i THEN "=" ELSE IF sorts[i].desc THEN "<" ELSE ">",
                              SelectExpr(sorts[j].key), n, 1)],
   args |-> [j \in 1 .. i |-> Bind(cur, sorts[j])]]

Alternative(sorts, cur, i, n) ==
  [text |-> [k \in 1 .. 2 * i - 1 |->
               IF k % 2 = 0 THEN Word("AND")
               ELSE LET j == (k + 1) \div 2 IN
                    Predicate(IF j < i THEN "=" ELSE IF sorts[i].desc THEN "<" ELSE ">",
                              SelectExpr(sorts[j].key), n + j - 1, 1)],
   args |-> [j \in 1 .. i |-> Bind(cur, sorts[j])]]

\* The alternatives before, and the i-th.
Another(sorts, cur, n, before, i) ==
  LET next == Alternative(sorts, cur, i, n + Len(before.args))
      closed == <<Word("(")>> \o next.text \o <<Word(")")>>
  IN [text |-> IF i = 1 THEN closed ELSE before.text \o <<Word("OR")>> \o closed,
      args |-> before.args \o next.args]

\* The alternatives, after n arguments.
Chain(sorts, cur, n) ==
  LET chain[i \in 0 .. Len(sorts)] ==
        IF i = 0 THEN Nothing ELSE Another(sorts, cur, n, chain[i - 1], i)
  IN chain[Len(sorts)]

Seek(sorts, cur, n) ==
  LET chain == Chain(sorts, cur, n) IN
  [text |-> <<Word("(")>> \o chain.text \o <<Word(")")>>, args |-> chain.args]

Keyset ==
  /\ Asks
  /\ having = <<>>
  /\ \E s \in Seeks :
       \/ /\ s.sorts = <<>> \/ DOMAIN s.cur = {}
          /\ UNCHANGED <<args, where, failed, asked>>
       \/ /\ s.sorts # <<>> /\ DOMAIN s.cur # {}
          /\ IF Order!FirstSortFault(s.sorts, s.cur) # "ok"
             THEN failed' = TRUE /\ UNCHANGED <<args, where, asked>>
             ELSE LET seek == Seek(s.sorts, s.cur, Len(args)) IN
                  /\ args' = args \o seek.args
                  /\ where' = Glue(where, seek.text)
                  /\ asked' = Append(asked, [kind |-> "seek", seek |-> s])
                  /\ UNCHANGED failed
  /\ UNCHANGED <<dialect, filter, exclude, stack, joinKeys, sql, result>>
  /\ UNCHANGED <<call, saved, pending, having>>

(***************************************************************************)
(* renderTop runs, and returns.                                            *)
(***************************************************************************)
Render == result = "running" /\ Next /\ UNCHANGED own

Rendered == call # "none" /\ result # "running"

Part == [kind |-> call, conds |-> filter, out |-> IF call = "excluding" THEN exclude ELSE ""]

\* Faulty: the exclusion is put back only if the rendering went well.
RestoreOnSuccess ==
  exclude' = IF call = "excluding" /\ result = "ok" THEN saved ELSE exclude

\* WhereExcluding puts the exclusion back, also after an error.
Restore == exclude' = IF call = "excluding" THEN saved ELSE exclude

Returns ==
  /\ Rendered
  /\ result = "ok"
  /\ Restore
  /\ IF call = "having"
     THEN having' = Glue(having, sql) /\ UNCHANGED <<where, asked>>
     ELSE where' = Glue(where, sql) /\ asked' = Append(asked, Part) /\ UNCHANGED having
  /\ IF call = "both"
     THEN Begin("having", pending)
     ELSE call' = "none" /\ UNCHANGED <<dialect, filter, stack, args, joinKeys, sql, result>>
  /\ UNCHANGED <<saved, pending, failed, left>>

\* CompileWhereHaving has rendered its WHERE, which it gives up with an error.
WhereAlready == asked # <<>> /\ asked[1].kind = "both"

Fails ==
  /\ Rendered
  /\ result # "ok"
  /\ Restore
  /\ failed' = TRUE
  /\ call' = "none"
  /\ IF WhereAlready THEN where' = <<>> /\ asked' = <<>> ELSE UNCHANGED <<where, asked>>
  /\ UNCHANGED <<dialect, filter, stack, args, joinKeys, sql, result>>
  /\ UNCHANGED <<saved, pending, having, left>>

BuilderNext ==
  \/ Arg \/ Where \/ WhereExcluding \/ Having \/ WhereAndHaving \/ Keyset
  \/ Render \/ Returns \/ Fails

BuilderSpec == BuilderInit /\ [][BuilderNext]_<<vars, own>>

(***************************************************************************)
(* The statement.                                                          *)
(***************************************************************************)
Statement == where \o having

\* In a statement all of whose fragments came out, the placeholders are those of
\* the arguments, one each, in the same order, across all fragments (builder.go:3-13).
StatementInOrder == call = "none" /\ ~failed => InOrder(Statement, 0, Len(args))

HavingColumns == UNION {ColumnsOf(k) : k \in HavingKeys}

\* The HAVING text reads columns of aggregates only, and the WHERE text of
\* CompileWhereHaving none.
AggregatesInHaving == \A i \in DOMAIN having : having[i].col \in HavingColumns \cup {""}
NoAggregateInWhere ==
  asked # <<>> /\ asked[1].kind = "both" => \A i \in DOMAIN where : where[i].col \notin HavingColumns

\* Aggregates and nothing else are tested in HAVING, and none in the WHERE of
\* CompileWhereHaving, at any depth of the two filters: having.go:14-16.  (Where
\* of the Builder takes a field of either kind.)
HavingApart == AggregatesInHaving /\ NoAggregateInWhere

\* What the second half presupposes: that no column is tested both ways.
HavingColumnsApart ==
  /\ "" \notin HavingColumns
  /\ \A k \in DOMAIN Registry \ HavingKeys : ColumnsOf(k) \cap HavingColumns = {}
=============================================================================
