------------------------------ MODULE Requests ------------------------------
(***************************************************************************)
(* What a caller asks of a registry in one call: a WHERE with its joins    *)
(* (CompileWithJoins), under limits (CompileWithLimits), the distinct      *)
(* values of a field (ValuesQuery), an aggregation (AggregateQuery,        *)
(* FacetCounts).  Each looks at its own part of the request first, has the *)
(* filter rendered by the machine of Compile, and orders the joins of both.*)
(*                                                                         *)
(* Ordering the joins is one step here, to any plan that JoinPlan allows:  *)
(* JoinOrder implements that.                                              *)
(***************************************************************************)
EXTENDS FilterFaults

CONSTANTS
  JoinKey,     \* join keys
  ValueExpr,   \* the SELECT-side expressions of the fields that have one
  Sortable,    \* the filter keys of the fields marked Sortable
  HavingKeys,  \* and Having
  Request      \* records of kind, conds, joins, limits, agg

AggFunc == {"count", "count_distinct", "sum", "avg", "min", "max"}

ASSUME JoinsAssumption == \A k \in DOMAIN Registry : Registry[k].joins \subseteq JoinKey

ASSUME RequestAssumption ==
  \A r \in Request :
    /\ r.kind \in {"where", "limits", "values", "aggregate"}
    /\ r.conds \in Filter
    /\ DOMAIN r.joins \subseteq JoinKey
    /\ IsFiniteSet(DOMAIN r.joins)
    /\ \A k \in DOMAIN r.joins : r.joins[k] \subseteq JoinKey
    /\ r.limits \in [depth : Int, conditions : Int, values : Int]
    /\ r.agg.exclude \in Excludable

VARIABLES
  request,
  phase,    \* "enter", "where", "done"
  needed,   \* the join keys needed outside the WHERE
  select,   \* the expressions selected and grouped by
  plan,     \* the joins emitted, in order
  outcome   \* "running", "ok", or the error returned

own == <<request, phase, needed, select, plan, outcome>>

Plan == INSTANCE JoinPlan WITH Key <- JoinKey, defs <- request.joins, result <- outcome

\* ValuesQuery and AggregateQuery leave out the filter on one field.
RequestInit ==
  /\ request \in Request
  /\ phase = "enter"
  /\ needed = {}
  /\ select = <<>>
  /\ plan = <<>>
  /\ outcome = "running"
  /\ filter = request.conds
  /\ exclude = request.agg.exclude
  /\ Init

(***************************************************************************)
(* What comes before the WHERE.                                            *)
(***************************************************************************)
Entering(kind) == phase = "enter" /\ request.kind = kind

Proceed(keys, exprs) ==
  /\ phase' = "where"
  /\ needed' = keys
  /\ select' = exprs
  /\ UNCHANGED <<request, plan, outcome, vars>>

Finish(what) ==
  /\ phase' = "done"
  /\ outcome' = what
  /\ UNCHANGED <<request, needed, select, vars>>

\* An answer without joins.
Answer(what) == Finish(what) /\ UNCHANGED plan

CompileWithJoins == Entering("where") /\ Proceed({}, <<>>)

(***************************************************************************)
(* Limits.Check.  It looks at one form of a node; the first violation is   *)
(* an error, and all violations are the same error.                        *)
(***************************************************************************)
Exceeds(n, limit) == limit > 0 /\ n > limit

\* The walk goes on to the children of one form, and counts a node without them.
Pursued(c) == IF c.and # <<>> THEN c.and ELSE IF c.or # <<>> THEN c.or ELSE c.not
Counted(c) == Pursued(c) = <<>> /\ c.key # ""

\* The nodes the walk visits, with their depth.
Visit == [node : Condition, depth : Nat]

Visits[v \in Visit] ==
  LET children == Pursued(v.node) IN
  <<v>> \o FlattenSeq([i \in DOMAIN children |-> Visits[[node |-> children[i], depth |-> v.depth + 1]]])

VisitsOf(c) == Visits[[node |-> c, depth |-> 1]]
Visited(conds) == FlattenSeq([i \in DOMAIN conds |-> VisitsOf(conds[i])])

CountedIn(visits) == {i \in DOMAIN visits : Counted(visits[i].node)}

FewEnough(lim, visits) ==
  /\ \A i \in DOMAIN visits : ~Exceeds(visits[i].depth, lim.depth)
  /\ ~Exceeds(Cardinality(CountedIn(visits)), lim.conditions)
  /\ \A i \in CountedIn(visits) : LET c == visits[i].node IN
       ~Exceeds(Len(c.values), lim.values) /\ ~Exceeds(Len(c.pairs), lim.values)

\* Faulty: the count starts again with every condition of the list.
WithinEach(lim, conds) == \A i \in DOMAIN conds : FewEnough(lim, VisitsOf(conds[i]))

Within(lim, conds) == FewEnough(lim, Visited(conds))

CompileWithLimits ==
  /\ Entering("limits")
  /\ IF Within(request.limits, request.conds) THEN Proceed({}, <<>>) ELSE Answer("ErrTooComplex")

(***************************************************************************)
(* Project, and the two queries that select.                               *)
(***************************************************************************)
SelectExpr(key) == IF key \in DOMAIN ValueExpr THEN ValueExpr[key] ELSE Column(key)

ValuesQuery ==
  /\ Entering("values")
  /\ LET key == request.agg.exclude IN
     IF key \in DOMAIN Registry
     THEN Proceed(Registry[key].joins, <<[call |-> "", expr |-> SelectExpr(key)]>>)
     ELSE Answer("ErrUnknownField")

\* Faulty: nobody asks for the joins of the metric.
AggregationNeedsGroup(agg) ==
  UNION {Registry[k].joins : k \in {agg.groupBy} \ {""}}

AggregationNeeds(agg) ==
  UNION {Registry[k].joins : k \in {agg.groupBy, agg.metric} \ {""}}

\* The errors of AggregateQuery in their order; those without a name are "invalid".
AggregationFault(agg) ==
  IF agg.func \notin AggFunc THEN "invalid"
  ELSE IF agg.groupBy \notin DOMAIN Registry \cup {""} THEN "ErrUnknownField"
  ELSE IF agg.func # "count" /\ agg.metric = "" THEN "invalid"
  ELSE IF agg.metric \notin DOMAIN Registry \cup {""} THEN "ErrUnknownField"
  ELSE IF agg.func \in {"sum", "avg"} /\ Registry[agg.metric].type \notin {"int", "float"} THEN "invalid"
  ELSE "ok"

CountAll(d) == IF d = "clickhouse" THEN "count()" ELSE "count(*)"

\* Dialect.Aggregate; count_distinct is count(DISTINCT expr).
Aggregate(d, agg) ==
  IF agg.metric = "" THEN [call |-> CountAll(d), expr |-> ""]
  ELSE [call |-> agg.func, expr |-> SelectExpr(agg.metric)]

AggregateQuery ==
  /\ Entering("aggregate")
  /\ LET agg == request.agg
         bucket == IF agg.groupBy = "" THEN <<>> ELSE <<[call |-> "", expr |-> SelectExpr(agg.groupBy)]>>
     IN IF AggregationFault(agg) = "ok"
        THEN Proceed(AggregationNeeds(agg), Append(bucket, Aggregate(dialect, agg)))
        ELSE Answer(AggregationFault(agg))

\* FacetCounts: an aggregation that counts by a field and leaves its filter out.
Facet(key) == [func |-> "count", groupBy |-> key, metric |-> "", exclude |-> key]

(***************************************************************************)
(* The WHERE, and the joins.                                               *)
(***************************************************************************)
Render == phase = "where" /\ Next /\ UNCHANGED own

RenderFails ==
  /\ phase = "where"
  /\ result \notin {"running", "ok"}
  /\ Answer(result)

\* Faulty: nobody looks at the error of the rendering.
RenderedAtAll == phase = "where" /\ result # "running"

Rendered == phase = "where" /\ result = "ok"

ReturnWhere == Rendered /\ request.kind = "limits" /\ Answer("ok")

Wanted == needed \cup joinKeys

OrderJoins ==
  /\ Rendered
  /\ request.kind # "limits"
  /\ \/ /\ ~Plan!Undefined(request.joins, Wanted)
        /\ ~Plan!Cyclic(request.joins, Wanted)
        /\ Finish("ok")
        /\ plan' \in {p \in SetToSeqs(Plan!Reach(request.joins, Wanted)) :
                        Plan!DependenciesFirst(request.joins, p)}
     \/ /\ Plan!Undefined(request.joins, Wanted)
        /\ Answer("undefined")
     \/ /\ Plan!Cyclic(request.joins, Wanted)
        /\ Answer("cyclic")

RequestNext ==
  \/ CompileWithJoins \/ CompileWithLimits \/ ValuesQuery \/ AggregateQuery
  \/ Render \/ RenderFails \/ ReturnWhere \/ OrderJoins

RequestSpec == RequestInit /\ [][RequestNext]_<<vars, own>>

\* A call runs to its end in one goroutine.
FairRequestSpec == RequestSpec /\ WF_<<vars, own>>(RequestNext)

(***************************************************************************)
(* Validate: what it finds wrong with the registry and the joins.          *)
(***************************************************************************)
FieldProblems(defs) ==
  {k \in DOMAIN Registry :
     \/ Registry[k].type \notin DOMAIN TypeOperators
     \/ ~(Registry[k].joins \subseteq DOMAIN defs)
     \/ k \in Sortable \cap HavingKeys}

\* Faulty: the joins are looked at one by one and not as a graph.
GraphProblemOfOne(defs) ==
  \E k \in DOMAIN defs : ~(defs[k] \subseteq DOMAIN defs) \/ k \in defs[k]

GraphProblem(defs) ==
  /\ DOMAIN defs # {}
  /\ Plan!Undefined(defs, DOMAIN defs) \/ Plan!Cyclic(defs, DOMAIN defs)

Validates(defs) == FieldProblems(defs) = {} /\ ~GraphProblem(defs)

(***************************************************************************)
(* Properties.                                                             *)
(***************************************************************************)
\* With a registry and joins that Validate accepts, no request fails on its
\* joins (validate.go:9-20): what it checks once covers every filter.
ValidatedNeverFailsOnJoins ==
  outcome \in {"undefined", "cyclic"} => ~Validates(request.joins)

\* The fields whose columns or expressions the statement mentions anywhere.
Mentioned ==
  {k \in DOMAIN Registry :
     \/ \E i \in DOMAIN sql : sql[i].col \in ColumnsOf(k)
     \/ \E i \in DOMAIN select : select[i].expr = SelectExpr(k)}

\* The joins emitted are those the mentioned fields need, with what these
\* require, each once and after its requirements - for the projection, the
\* metric and the filters that came out together, and for nothing else
\* (joins.go:19-24, projection.go:51-53, aggregate.go:59-62).
JoinsServeTheStatement ==
  outcome = "ok" /\ request.kind # "limits" =>
    Plan!ValidPlan(request.joins, UNION {Registry[k].joins : k \in Mentioned}, plan)

\* What "nothing else" presupposes, beside ColumnsTellJoins and AllSaySomething:
\* that an expression tells which joins it needs.
ExprsTellJoins ==
  \A k, l \in DOMAIN Registry :
    /\ SelectExpr(k) # ""
    /\ SelectExpr(k) = SelectExpr(l) => Registry[k].joins = Registry[l].joins

(***************************************************************************)
(* The size of a filter, over all the forms of every node.                 *)
(***************************************************************************)
LeavesOf[c \in Condition] ==
  (IF c.key = "" THEN <<>> ELSE <<c>>)
  \o FlattenSeq([i \in DOMAIN Subtrees(c) |-> LeavesOf[Subtrees(c)[i]]])

AllLeaves(conds) == FlattenSeq([i \in DOMAIN conds |-> LeavesOf[conds[i]]])

\* "and/or/not nesting" (guardrails.go:9): a leaf alone is in no group.
GroupDepth(c) == Nesting[c] - 1

TooComplex(lim, conds) ==
  LET leaves == AllLeaves(conds) IN
  \/ \E i \in DOMAIN conds : Exceeds(GroupDepth(conds[i]), lim.depth)
  \/ Exceeds(Len(leaves), lim.conditions)
  \/ \E i \in DOMAIN leaves : \E n \in {Len(leaves[i].values), Len(leaves[i].pairs)} : Exceeds(n, lim.values)

\* The groups nest exactly as deep as the limit allows.
AtFullDepth(lim, conds) ==
  lim.depth > 0 /\ \E i \in DOMAIN conds : GroupDepth(conds[i]) = lim.depth

\* A filter over a documented limit never becomes SQL, also when the form that
\* takes it over hides behind another form of its node; and one within the limits
\* is refused for them only if its groups nest as deep as they may: the walk of
\* Check counts a leaf as a level, so it refuses these one level early, against
\* guardrails.go:9 (guardrails.go:5-11, 62-63).
LimitsHold ==
  request.kind = "limits" =>
    /\ outcome = "ok" => ~TooComplex(request.limits, filter)
    /\ outcome = "ErrTooComplex" =>
         TooComplex(request.limits, filter) \/ AtFullDepth(request.limits, filter)

(***************************************************************************)
(* Errors.                                                                 *)
(***************************************************************************)
\* What is asked for beside the filter is no field, function or pair of them.
Misasked ==
  LET agg == request.agg IN
  \/ request.kind = "values" /\ agg.exclude \notin DOMAIN Registry
  \/ /\ request.kind = "aggregate"
     /\ \/ agg.func \notin AggFunc
        \/ ~({agg.groupBy, agg.metric} \subseteq DOMAIN Registry \cup {""})
        \/ agg.func # "count" /\ agg.metric = ""
        \/ agg.func \in {"sum", "avg"} /\ Registry[agg.metric].type \notin {"int", "float"}

\* What fails first is the answer, and an error comes alone: without joins; if the
\* request itself asks the impossible, with nothing of its filter rendered;
\* otherwise with the first fault of the filter, whatever is wrong with the joins
\* (projection.go:51-75, joins.go:28-38, aggregate.go:59-125).
FirstErrorAnswers ==
  phase = "done" =>
    /\ outcome # "ok" => plan = <<>>
    /\ Misasked => outcome \in {"invalid", "ErrUnknownField"} /\ args = <<>> /\ sql = <<>>
    /\ ~Misasked /\ outcome # "ErrTooComplex" =>
         LET fault == FirstFault(exclude, filter) IN
         IF fault = "ok" THEN outcome \in {"ok", "undefined", "cyclic"} ELSE outcome = fault

\* Every request is answered.
Answered == <>(phase = "done")
=============================================================================
