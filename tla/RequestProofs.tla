---------------------------- MODULE RequestProofs ----------------------------
(***************************************************************************)
(* A request renders its filter as Compile does, so what is proved of the  *)
(* compiler holds of every request; and a registry that Validate accepts   *)
(* never makes one fail on its joins.                                      *)
(*                                                                         *)
(* The invariant for the second: a request only ever wants joins of fields *)
(* of the registry.  Validate has looked at all of those, and what a part  *)
(* of the joins reaches the whole reaches.                                 *)
(***************************************************************************)
EXTENDS Requests, MeaningProofs, FiniteSetTheorems

(***************************************************************************)
(* Requests and the compiler.                                              *)
(***************************************************************************)
\* Every action but Render leaves the compiler alone.
LEMMA StepsOfCompile == ASSUME [RequestNext]_<<vars, own>> PROVE [Next]_vars
<1>1. CASE CompileWithJoins
  BY <1>1 DEF CompileWithJoins, Proceed
<1>2. CASE CompileWithLimits
  BY <1>2 DEF CompileWithLimits, Proceed, Answer, Finish
<1>3. CASE ValuesQuery
  BY <1>3 DEF ValuesQuery, Proceed, Answer, Finish
<1>4. CASE AggregateQuery
  BY <1>4 DEF AggregateQuery, Proceed, Answer, Finish
<1>5. CASE Render
  BY <1>5 DEF Render
<1>6. CASE RenderFails
  BY <1>6 DEF RenderFails, Answer, Finish
<1>7. CASE ReturnWhere
  BY <1>7 DEF ReturnWhere, Answer, Finish
<1>8. CASE OrderJoins
  BY <1>8 DEF OrderJoins, Answer, Finish
<1>9. CASE UNCHANGED <<vars, own>>
  BY <1>9
<1> QED BY <1>1, <1>2, <1>3, <1>4, <1>5, <1>6, <1>7, <1>8, <1>9 DEF RequestNext

\* The WHERE of a request is a behaviour of the compiler.
THEOREM RendersAsCompile == RequestSpec => Spec
<1>1. RequestInit => Init
  BY DEF RequestInit
<1>2. [RequestNext]_<<vars, own>> => [Next]_vars
  BY StepsOfCompile
<1> QED BY <1>1, <1>2, PTL DEF RequestSpec, Spec

\* In every request, the placeholders of the WHERE are those of its arguments,
\* one each and in their order (aggregate.go:105-107, projection.go:61-63).
THEOREM RequestPlaceholders == RequestSpec => []PlaceholdersInOrder
BY RendersAsCompile, PlaceholdersCorrect, PTL

\* And what it selects is what its filter says, without what it excludes: for a
\* facet, the filter without the facet's own conditions (aggregate.go:108-111); from
\* the hypothesis of FilterIsMeant.
THEOREM RequestMeansItsFilter ==
  ASSUME AllDecided
  PROVE  RequestSpec => []MeansTheFilter
BY RendersAsCompile, FilterIsMeant, PTL

(***************************************************************************)
(* The joins of a request.                                                 *)
(***************************************************************************)
FieldJoins == UNION {Registry[k].joins : k \in DOMAIN Registry}

\* The compiler records joins of fields, and its errors are not those of a request.
Recorded ==
  /\ joinKeys \subseteq FieldJoins
  /\ result \notin {"undefined", "cyclic", "ErrTooComplex"}

LEMMA RecordRecorded ==
  ASSUME Recorded, NEW key \in DOMAIN Registry, NEW text, Record(key, text)
  PROVE  joinKeys' \subseteq FieldJoins
BY DEF Recorded, Record, FieldJoins

LEMMA NextRecorded == ASSUME Recorded, Rendering(0), [Next]_vars PROVE Recorded'
<1>1. CASE Skip
  BY <1>1 DEF Skip, Recorded, FieldJoins
<1>2. CASE Malformed
  BY <1>2 DEF Malformed, Fail, Recorded, FieldJoins
<1>3. CASE Descend
  BY <1>3 DEF Descend, Recorded, FieldJoins
<1>4. CASE UnknownField
  BY <1>4 DEF UnknownField, Fail, Recorded, FieldJoins
<1>5. CASE BadOperator
  BY <1>5 DEF BadOperator, Fail, Recorded, FieldJoins
<1>6. CASE HooksFail
  BY <1>6 DEF HooksFail, Fail, Recorded, FieldJoins
<1>7. CASE RenderLeaf
  <2> DEFINE r == Resolve(dialect, Field, Column(Node.key), Hooked, Len(args))
  <2>1. /\ Node.key \in DOMAIN Registry
        /\ \/ Fail("ErrBadValue", r.args)
           \/ Record(Node.key, r.text) /\ UNCHANGED result
    BY <1>7 DEF RenderLeaf, Admitted, Known
  <2> HIDE DEF r
  <2>2. CASE Fail("ErrBadValue", r.args)
    BY <2>2 DEF Fail, Recorded, FieldJoins
  <2>3. CASE Record(Node.key, r.text) /\ UNCHANGED result
    BY <2>1, <2>3, RecordRecorded DEF Recorded, FieldJoins
  <2> QED BY <2>1, <2>2, <2>3
<1>8. CASE OpenSearch
  BY <1>8 DEF OpenSearch, Recorded, FieldJoins
<1>9. CASE SearchColumn
  <2> DEFINE r == Resolve(dialect, Registry[Inner.node.key], Head(Inner.cols), Inner.node, Len(args))
  <2>1. Fail("ErrBadValue", r.args) \/ UNCHANGED <<joinKeys, result>>
    BY <1>9 DEF SearchColumn
  <2> HIDE DEF r
  <2> QED BY <2>1 DEF Fail, Recorded, FieldJoins
<1>10. CASE Close
  <2>1. /\ result = "running" /\ UNCHANGED result
        /\ IF Inner.form = "search" THEN Record(Inner.node.key, Returned(Inner)) ELSE joinKeys' = joinKeys
    BY <1>10 DEF Close, Finished
  <2>2. CASE Inner.form = "search"
    <3>1. CallOK(Inner)
      BY <2>1, Innermost
    <3>2. Inner.node.key \in DOMAIN Registry
      BY <2>2, <3>1 DEF CallOK
    <3> QED BY <2>1, <2>2, <3>2, RecordRecorded DEF Recorded, FieldJoins
  <2>3. CASE Inner.form # "search"
    BY <2>1, <2>3 DEF Recorded, FieldJoins
  <2> QED BY <2>2, <2>3
<1>11. CASE Return
  BY <1>11 DEF Return, Recorded, FieldJoins
<1>12. CASE UNCHANGED vars
  BY <1>12 DEF vars, Recorded, FieldJoins
<1> QED
  BY <1>1, <1>2, <1>3, <1>4, <1>5, <1>6, <1>7, <1>8, <1>9, <1>10, <1>11, <1>12 DEF Next

(***************************************************************************)
(* Validate.                                                               *)
(***************************************************************************)
\* A part of the joins reaches no more than the whole.
LEMMA ReachMonotone ==
  ASSUME NEW defs, NEW some, NEW all, some \subseteq all
  PROVE  Plan!Reach(defs, some) \subseteq Plan!Reach(defs, all)
BY DEF Plan!Reach

LEMMA NothingReached == ASSUME NEW defs PROVE Plan!Reach(defs, {}) = {}
<1>1. Plan!Closed(defs, {})
  BY DEF Plan!Closed
<1> QED BY <1>1 DEF Plan!Reach

\* What Validate accepts can be ordered, whichever fields are asked about.
LEMMA ValidatedOrders ==
  ASSUME NEW defs, Validates(defs), NEW wanted, wanted \subseteq FieldJoins
  PROVE  ~Plan!Undefined(defs, wanted) /\ ~Plan!Cyclic(defs, wanted)
<1>1. wanted \subseteq DOMAIN defs
  BY DEF Validates, FieldProblems, FieldJoins
<1>2. CASE DOMAIN defs = {}
  <2>1. Plan!Reach(defs, wanted) = {}
    <3>1. wanted = {}
      BY <1>1, <1>2
    <3> QED BY <3>1, NothingReached
  <2> QED BY <2>1 DEF Plan!Undefined, Plan!Cyclic, Plan!Knot
<1>3. CASE DOMAIN defs # {}
  <2>1. ~Plan!Undefined(defs, DOMAIN defs) /\ ~Plan!Cyclic(defs, DOMAIN defs)
    BY <1>3 DEF Validates, GraphProblem
  <2>2. Plan!Reach(defs, wanted) \subseteq Plan!Reach(defs, DOMAIN defs)
    BY <1>1, ReachMonotone
  <2> QED BY <2>1, <2>2 DEF Plan!Undefined, Plan!Cyclic
<1> QED BY <1>2, <1>3

\* A request wants joins of fields only, and has failed on its joins only where
\* a plan for some of them fails.
Wants ==
  /\ request \in Request
  /\ needed \subseteq FieldJoins
  /\ outcome \in {"undefined", "cyclic"} => ~Validates(request.joins)

LEMMA AnswersOtherwise ==
  ASSUME Wants, NEW what, what \notin {"undefined", "cyclic"}, Finish(what)
  PROVE  Wants'
BY DEF Wants, Finish, Validates, FieldProblems, GraphProblem, FieldJoins

LEMMA Proceeds ==
  ASSUME Wants, NEW keys, keys \subseteq FieldJoins, NEW exprs, Proceed(keys, exprs)
  PROVE  Wants'
BY DEF Wants, Proceed, Validates, FieldProblems, GraphProblem, FieldJoins

LEMMA NextWants == ASSUME Wants, Recorded, [RequestNext]_<<vars, own>> PROVE Wants'
<1>1. CASE CompileWithJoins
  BY <1>1, Proceeds DEF CompileWithJoins
<1>2. CASE CompileWithLimits
  BY <1>2, Proceeds, AnswersOtherwise DEF CompileWithLimits, Answer
<1>3. CASE ValuesQuery
  <2> DEFINE key == request.agg.exclude
  <2>1. \/ key \in DOMAIN Registry /\ Proceed(Registry[key].joins, <<[call |-> "", expr |-> SelectExpr(key)]>>)
        \/ Finish("ErrUnknownField")
    BY <1>3 DEF ValuesQuery, Answer
  <2>2. key \in DOMAIN Registry => Registry[key].joins \subseteq FieldJoins
    BY DEF FieldJoins
  <2> HIDE DEF key
  <2> QED BY <2>1, <2>2, Proceeds, AnswersOtherwise
<1>4. CASE AggregateQuery
  <2> DEFINE agg == request.agg
             fault == AggregationFault(agg)
  <2>1. \/ fault = "ok" /\ \E exprs : Proceed(AggregationNeeds(agg), exprs)
        \/ Finish(fault)
    BY <1>4 DEF AggregateQuery, Answer
  <2>2. fault \in {"ok", "invalid", "ErrUnknownField"}
    BY DEF AggregationFault
  <2>3. fault = "ok" => {agg.groupBy, agg.metric} \ {""} \subseteq DOMAIN Registry
    BY DEF AggregationFault
  <2>4. fault = "ok" => AggregationNeeds(agg) \subseteq FieldJoins
    BY <2>3 DEF AggregationNeeds, FieldJoins
  <2> HIDE DEF agg, fault
  <2> QED BY <2>1, <2>2, <2>4, Proceeds, AnswersOtherwise
<1>5. CASE Render
  BY <1>5 DEF Render, own, Wants, Validates, FieldProblems, GraphProblem, FieldJoins
<1>6. CASE RenderFails
  BY <1>6, AnswersOtherwise DEF RenderFails, Answer, Recorded
<1>7. CASE ReturnWhere
  BY <1>7, AnswersOtherwise DEF ReturnWhere, Answer
<1>8. CASE OrderJoins
  <2>1. Wanted \subseteq FieldJoins
    BY DEF Wanted, Wants, Recorded
  <2>2. \/ Finish("ok")
        \/ /\ Plan!Undefined(request.joins, Wanted) \/ Plan!Cyclic(request.joins, Wanted)
           /\ Finish("undefined") \/ Finish("cyclic")
    BY <1>8 DEF OrderJoins, Answer
  <2>3. CASE Finish("ok")
    BY <2>3, AnswersOtherwise
  <2>4. CASE /\ Plan!Undefined(request.joins, Wanted) \/ Plan!Cyclic(request.joins, Wanted)
             /\ Finish("undefined") \/ Finish("cyclic")
    <3>1. ~Validates(request.joins)
      BY <2>1, <2>4, ValidatedOrders
    <3>2. UNCHANGED <<request, needed>>
      BY <2>4 DEF Finish
    <3> QED BY <3>1, <3>2 DEF Wants, Validates, FieldProblems, GraphProblem, FieldJoins
  <2> QED BY <2>2, <2>3, <2>4
<1>9. CASE UNCHANGED <<vars, own>>
  BY <1>9 DEF own, Wants, Validates, FieldProblems, GraphProblem, FieldJoins
<1> QED BY <1>1, <1>2, <1>3, <1>4, <1>5, <1>6, <1>7, <1>8, <1>9 DEF RequestNext

\* With a registry and joins that Validate accepts, no request fails on its joins,
\* whatever its filter (validate.go:9-20).
THEOREM ValidatedRegistry == RequestSpec => []ValidatedNeverFailsOnJoins
<1>1. RequestInit => Rendering(0) /\ Recorded /\ Wants
  <2>1. RequestInit => Init
    BY DEF RequestInit
  <2>2. RequestInit => Recorded /\ Wants
    BY DEF RequestInit, Init, Recorded, Wants
  <2> QED BY <2>1, <2>2, InitRendering
<1>2. Rendering(0) /\ Recorded /\ Wants /\ [RequestNext]_<<vars, own>>
        => Rendering(0)' /\ Recorded' /\ Wants'
  BY StepsOfCompile, NextRendering, NextRecorded, NextWants
<1>3. Wants => ValidatedNeverFailsOnJoins
  BY DEF Wants, ValidatedNeverFailsOnJoins
<1> QED BY <1>1, <1>2, <1>3, PTL DEF RequestSpec

(***************************************************************************)
(* The joins of the statement.                                             *)
(***************************************************************************)
\* What is needed outside the WHERE are the joins of the fields selected.
Selected ==
  \E S \in SUBSET DOMAIN Registry :
    /\ needed = JoinsOf(S)
    /\ \A i \in DOMAIN select : select[i].expr = "" \/ \E k \in S : select[i].expr = SelectExpr(k)
    /\ \A k \in S : \E i \in DOMAIN select : select[i].expr = SelectExpr(k)

LEMMA ListOfOne == ASSUME NEW x, NEW s, s = <<x>> PROVE DOMAIN s = {1} /\ s[1] = x
OBVIOUS

LEMMA ListAfterNone == ASSUME NEW x, NEW s, s = Append(<<>>, x) PROVE DOMAIN s = {1} /\ s[1] = x
<1>1. IsSeq(<<>>) /\ Len(<<>>) = 0
  BY EmptySeq, IsSeqIntro
<1>2. IsSeq(s) /\ Len(s) = 0 + 1 /\ s[0 + 1] = x
  BY <1>1, IsSeqAppend
<1>3. DOMAIN s = 1 .. Len(s)
  BY <1>2, IsSeqLen
<1>4. 0 + 1 = 1 /\ 1 .. 1 = {1}
  OBVIOUS
<1> QED BY <1>2, <1>3, <1>4

LEMMA ListAfterOne ==
  ASSUME NEW x, NEW y, NEW s, s = Append(<<x>>, y)
  PROVE  DOMAIN s = {1, 2} /\ s[1] = x /\ s[2] = y
<1>1. IsSeq(<<x>>) /\ Len(<<x>>) = 1 /\ <<x>>[1] = x
  BY IsSeqOne
<1>2. IsSeq(s) /\ Len(s) = 1 + 1 /\ s[1 + 1] = y /\ \A i \in 1 .. 1 : s[i] = <<x>>[i]
  BY <1>1, IsSeqAppend
<1>3. DOMAIN s = 1 .. Len(s)
  BY <1>2, IsSeqLen
<1>4. 1 + 1 = 2 /\ 1 .. 2 = {1, 2} /\ 1 \in 1 .. 1
  OBVIOUS
<1> QED BY <1>1, <1>2, <1>3, <1>4

LEMMA SelectedSame == ASSUME Selected, UNCHANGED <<needed, select>> PROVE Selected'
BY DEF Selected, SelectExpr, Column

LEMMA SelectsNothing == ASSUME Proceed({}, <<>>) PROVE Selected'
<1>1. needed' = {} /\ select' = <<>> /\ DOMAIN <<>> = {}
  BY DEF Proceed
<1>2. {} \in SUBSET DOMAIN Registry /\ JoinsOf({}) = {}
  BY DEF JoinsOf
<1> QED BY <1>1, <1>2 DEF Selected

LEMMA SelectsOne ==
  ASSUME NEW key \in DOMAIN Registry, Proceed(Registry[key].joins, <<[call |-> "", expr |-> SelectExpr(key)]>>)
  PROVE  Selected'
<1> DEFINE one == [call |-> "", expr |-> SelectExpr(key)]
<1>1. one.expr = SelectExpr(key)
  OBVIOUS
<1> HIDE DEF one
<1>2. needed' = JoinsOf({key}) /\ select' = <<one>>
  BY DEF Proceed, JoinsOf, one
<1>3. DOMAIN select' = {1} /\ select'[1] = one
  BY <1>2, ListOfOne
<1>4. {key} \in SUBSET DOMAIN Registry
  OBVIOUS
<1> QED BY <1>1, <1>2, <1>3, <1>4 DEF Selected

\* An aggregation selects the bucket, if there is one, and the aggregate.
LEMMA SelectsAggregate ==
  ASSUME NEW d, NEW agg, AggregationFault(agg) = "ok",
         NEW bucket,
         bucket = IF agg.groupBy = "" THEN <<>> ELSE <<[call |-> "", expr |-> SelectExpr(agg.groupBy)]>>,
         Proceed(AggregationNeeds(agg), Append(bucket, Aggregate(d, agg)))
  PROVE  Selected'
<1> DEFINE S == {agg.groupBy, agg.metric} \ {""}
           last == Aggregate(d, agg)
           first == [call |-> "", expr |-> SelectExpr(agg.groupBy)]
<1>1. S \in SUBSET DOMAIN Registry
  BY DEF AggregationFault
<1>2. needed' = JoinsOf(S) /\ select' = Append(bucket, last)
  BY DEF Proceed, AggregationNeeds, JoinsOf
<1>3. last.expr = IF agg.metric = "" THEN "" ELSE SelectExpr(agg.metric)
  BY DEF Aggregate
<1>4. first.expr = SelectExpr(agg.groupBy)
  OBVIOUS
<1> HIDE DEF last, first
<1>5. CASE agg.groupBy = ""
  <2>1. select' = Append(<<>>, last)
    BY <1>2, <1>5
  <2>2. DOMAIN select' = {1} /\ select'[1] = last
    BY <2>1, ListAfterNone
  <2>3. \A k \in S : k = agg.metric /\ agg.metric # ""
    BY <1>5
  <2>4. agg.metric # "" => agg.metric \in S
    OBVIOUS
  <2> HIDE DEF S
  <2> QED BY <1>1, <1>2, <1>3, <2>2, <2>3, <2>4 DEF Selected
<1>6. CASE agg.groupBy # ""
  <2>1. select' = Append(<<first>>, last)
    BY <1>2, <1>6 DEF first
  <2>2. DOMAIN select' = {1, 2} /\ select'[1] = first /\ select'[2] = last
    BY <2>1, ListAfterOne, ZenonT(60)
  <2>3. \A k \in S : k = agg.groupBy \/ (k = agg.metric /\ agg.metric # "")
    OBVIOUS
  <2>4. agg.groupBy \in S /\ (agg.metric # "" => agg.metric \in S)
    BY <1>6
  <2> HIDE DEF S
  <2> QED BY <1>1, <1>2, <1>3, <1>4, <2>2, <2>3, <2>4 DEF Selected
<1> QED BY <1>5, <1>6

LEMMA NextSelected == ASSUME Selected, [RequestNext]_<<vars, own>> PROVE Selected'
<1>1. CASE CompileWithJoins
  BY <1>1, SelectsNothing DEF CompileWithJoins
<1>2. CASE CompileWithLimits
  BY <1>2, SelectsNothing, SelectedSame DEF CompileWithLimits, Answer, Finish
<1>3. CASE ValuesQuery
  BY <1>3, SelectsOne, SelectedSame DEF ValuesQuery, Answer, Finish
<1>4. CASE AggregateQuery
  <2> DEFINE agg == request.agg
             bucket == IF agg.groupBy = "" THEN <<>> ELSE <<[call |-> "", expr |-> SelectExpr(agg.groupBy)]>>
  <2>1. \/ /\ AggregationFault(agg) = "ok"
           /\ Proceed(AggregationNeeds(agg), Append(bucket, Aggregate(dialect, agg)))
        \/ UNCHANGED <<needed, select>>
    BY <1>4 DEF AggregateQuery, Answer, Finish
  <2>2. CASE UNCHANGED <<needed, select>>
    BY <2>2, SelectedSame
  <2>3. CASE /\ AggregationFault(agg) = "ok"
             /\ Proceed(AggregationNeeds(agg), Append(bucket, Aggregate(dialect, agg)))
    BY <2>3, SelectsAggregate
  <2> QED BY <2>1, <2>2, <2>3
<1>5. CASE Render
  BY <1>5, SelectedSame DEF Render, own
<1>6. CASE RenderFails
  BY <1>6, SelectedSame DEF RenderFails, Answer, Finish
<1>7. CASE ReturnWhere
  BY <1>7, SelectedSame DEF ReturnWhere, Answer, Finish
<1>8. CASE OrderJoins
  BY <1>8, SelectedSame DEF OrderJoins, Answer, Finish
<1>9. CASE UNCHANGED <<vars, own>>
  BY <1>9, SelectedSame DEF own
<1> QED BY <1>1, <1>2, <1>3, <1>4, <1>5, <1>6, <1>7, <1>8, <1>9 DEF RequestNext

\* What OrderJoins picks from is the plans that JoinPlan allows.
LEMMA OrdersArePlans ==
  ASSUME NEW d, IsFiniteSet(DOMAIN d), NEW wanted, ~Plan!Undefined(d, wanted),
         NEW p \in SetToSeqs(Plan!Reach(d, wanted)), Plan!DependenciesFirst(d, p)
  PROVE  Plan!ValidPlan(d, wanted, p)
<1> DEFINE R == Plan!Reach(d, wanted)
           n == Cardinality(R)
<1>1. R \subseteq DOMAIN d /\ R \subseteq JoinKey
  BY DEF Plan!Undefined, Plan!Reach
<1> HIDE DEF R
<1>2. IsFiniteSet(R) /\ n \in Nat
  BY <1>1, FS_Subset, FS_CardinalityType
<1>3. p \in [1 .. n -> R] /\ \A i, j \in 1 .. n : i # j => p[i] # p[j]
  BY DEF SetToSeqs, R
<1> HIDE DEF n
<1>4. p \in Injection(1 .. n, R)
  BY <1>3 DEF Injection, IsInjective
<1>5. IsFiniteSet(1 .. n) /\ Cardinality(1 .. n) = n
  BY <1>2, FS_Interval
<1>6. p \in Surjection(1 .. n, R)
  BY <1>2, <1>4, <1>5, FS_Injection DEF n
<1>7. DOMAIN p = 1 .. n /\ Plan!Elements(p) = R
  BY <1>3, <1>6 DEF Surjection, Plan!Elements
<1>8. p \in Seq(JoinKey)
  BY <1>1, <1>2, <1>3, SeqDef
<1> QED BY <1>3, <1>7, <1>8 DEF Plan!ValidPlan, Plan!Once, R

\* A plan is emitted once the filter is rendered, and serves what it recorded.
Planned ==
  outcome = "ok" =>
    /\ phase = "done"
    /\ request.kind # "limits" => result = "ok" /\ Plan!ValidPlan(request.joins, Wanted, plan)

LEMMA PlannedNothing == ASSUME outcome' # "ok" PROVE Planned'
BY DEF Planned

LEMMA NextPlanned == ASSUME Planned, Recorded, Wants, [RequestNext]_<<vars, own>> PROVE Planned'
<1>1. CASE CompileWithJoins
  BY <1>1 DEF CompileWithJoins, Entering, Proceed, Planned
<1>2. CASE CompileWithLimits
  BY <1>2 DEF CompileWithLimits, Entering, Proceed, Answer, Finish, Planned
<1>3. CASE ValuesQuery
  <2>1. phase = "enter" /\ (outcome' = outcome \/ outcome' = "ErrUnknownField")
    BY <1>3 DEF ValuesQuery, Entering, Proceed, Answer, Finish
  <2> QED BY <2>1 DEF Planned
<1>4. CASE AggregateQuery
  <2> DEFINE fault == AggregationFault(request.agg)
  <2>1. phase = "enter" /\ (outcome' = outcome \/ (fault # "ok" /\ outcome' = fault))
    BY <1>4 DEF AggregateQuery, Entering, Proceed, Answer, Finish
  <2> HIDE DEF fault
  <2> QED BY <2>1 DEF Planned
<1>5. CASE Render
  BY <1>5 DEF Render, own, Planned
<1>6. CASE RenderFails
  BY <1>6 DEF RenderFails, Answer, Finish, Planned
<1>7. CASE ReturnWhere
  BY <1>7 DEF ReturnWhere, Answer, Finish, Planned
<1>8. CASE OrderJoins
  <2>1. result = "ok" /\ result' = result /\ request' = request /\ phase' = "done" /\ Wanted' = Wanted
    BY <1>8 DEF OrderJoins, Rendered, Answer, Finish, vars, Wanted
  <2>2. \/ /\ ~Plan!Undefined(request.joins, Wanted)
           /\ \E p \in SetToSeqs(Plan!Reach(request.joins, Wanted)) :
                Plan!DependenciesFirst(request.joins, p) /\ plan' = p
        \/ outcome' # "ok"
    BY <1>8 DEF OrderJoins, Answer, Finish
  <2>3. CASE outcome' # "ok"
    BY <2>3, PlannedNothing
  <2>4. CASE /\ ~Plan!Undefined(request.joins, Wanted)
             /\ \E p \in SetToSeqs(Plan!Reach(request.joins, Wanted)) :
                  Plan!DependenciesFirst(request.joins, p) /\ plan' = p
    <3>1. IsFiniteSet(DOMAIN request.joins)
      BY RequestAssumption DEF Wants
    <3>2. Plan!ValidPlan(request.joins, Wanted, plan')
      BY <2>4, <3>1, OrdersArePlans
    <3> QED BY <2>1, <3>2 DEF Planned, Plan!ValidPlan, Plan!Reach, Plan!Closed, Plan!Requires, Plan!Elements,
                              Plan!DependenciesFirst, Plan!Once
  <2> QED BY <2>2, <2>3, <2>4
<1>9. CASE UNCHANGED <<vars, own>>
  <2>1. UNCHANGED <<phase, request, result, Wanted, plan, outcome>>
    BY <1>9 DEF vars, own, Wanted
  <2> QED BY <2>1 DEF Planned, Plan!ValidPlan, Plan!Reach, Plan!Closed, Plan!Requires, Plan!Elements,
                      Plan!DependenciesFirst, Plan!Once
<1> QED BY <1>1, <1>2, <1>3, <1>4, <1>5, <1>6, <1>7, <1>8, <1>9 DEF RequestNext

LEMMA PlannedServes ==
  ASSUME ColumnsTellJoins, ExprsTellJoins, AllSaySomething, Recording, Selected, Planned
  PROVE  JoinsServeTheStatement
<1> SUFFICES ASSUME outcome = "ok", request.kind # "limits"
             PROVE  Plan!ValidPlan(request.joins, UNION {Registry[k].joins : k \in Mentioned}, plan)
  BY DEF JoinsServeTheStatement
<1> DEFINE M == {k \in DOMAIN Registry : \E i \in DOMAIN sql : sql[i].col \in ColumnsOf(k)}
           E == {k \in DOMAIN Registry : \E i \in DOMAIN select : select[i].expr = SelectExpr(k)}
<1>1. result = "ok" /\ Plan!ValidPlan(request.joins, Wanted, plan)
  BY DEF Planned
<1>2. joinKeys = JoinsOf(M)
  BY <1>1, RecordingExact DEF JoinsOfMentionedColumns, JoinsOf
<1>3. needed = JoinsOf(E)
  <2>1. PICK S \in SUBSET DOMAIN Registry :
          /\ needed = JoinsOf(S)
          /\ \A i \in DOMAIN select : select[i].expr = "" \/ \E k \in S : select[i].expr = SelectExpr(k)
          /\ \A k \in S : \E i \in DOMAIN select : select[i].expr = SelectExpr(k)
    BY DEF Selected
  <2>2. S \subseteq E
    BY <2>1
  <2>3. ASSUME NEW k \in E PROVE Registry[k].joins \subseteq JoinsOf(S)
    <3>1. PICK i \in DOMAIN select : select[i].expr = SelectExpr(k)
      BY <2>3
    <3>2. PICK l \in S : select[i].expr = SelectExpr(l)
      BY <2>1, <2>3, <3>1 DEF ExprsTellJoins
    <3>3. Registry[k].joins = Registry[l].joins
      BY <2>1, <2>3, <3>1, <3>2 DEF ExprsTellJoins
    <3> QED BY <3>3 DEF JoinsOf
  <2> QED BY <2>1, <2>2, <2>3, ZenonT(60) DEF JoinsOf
<1>4. Mentioned = M \cup E
  BY DEF Mentioned
<1> HIDE DEF M, E
<1>5. JoinsOf(Mentioned) = Wanted
  BY <1>2, <1>3, <1>4 DEF JoinsOf, Wanted
<1>6. JoinsOf(Mentioned) = UNION {Registry[k].joins : k \in Mentioned}
  BY DEF JoinsOf
<1> QED BY <1>1, <1>5, <1>6

LEMMA RequestInvariant ==
  RequestSpec => [](Rendering(0) /\ Reading(Condition) /\ Recording /\ Recorded /\ Wants /\ Selected /\ Planned)
<1>1. RequestInit => Rendering(0) /\ Reading(Condition) /\ Recording /\ Recorded /\ Wants /\ Selected /\ Planned
  <2>1. RequestInit => Init
    BY DEF RequestInit
  <2>2. RequestInit => Recorded /\ Wants /\ Planned
    BY DEF RequestInit, Init, Recorded, Wants, Planned
  <2>3. ASSUME RequestInit PROVE Selected
    <3>1. needed = {} /\ select = <<>> /\ DOMAIN <<>> = {}
      BY <2>3 DEF RequestInit
    <3>2. {} \in SUBSET DOMAIN Registry /\ JoinsOf({}) = {}
      BY DEF JoinsOf
    <3> QED BY <3>1, <3>2 DEF Selected
  <2> QED BY <2>1, <2>2, <2>3, InitRendering, InitReading
<1>2. Rendering(0) /\ Reading(Condition) /\ Recording /\ Recorded /\ Wants /\ Selected /\ Planned
      /\ [RequestNext]_<<vars, own>>
        => (Rendering(0) /\ Reading(Condition) /\ Recording /\ Recorded /\ Wants /\ Selected /\ Planned)'
  BY StepsOfCompile, NextRendering, NextReading, AllChildren, NextRecording, NextRecorded, NextWants,
     NextSelected, NextPlanned
<1> QED BY <1>1, <1>2, PTL DEF RequestSpec

\* Where columns and expressions tell their joins and every condition says
\* something, a statement carries the joins of what it mentions, those they
\* require, in order, and no others (joins.go:19-24, projection.go:51-53).
THEOREM JoinsServe ==
  ASSUME ColumnsTellJoins, ExprsTellJoins, AllSaySomething
  PROVE  RequestSpec => []JoinsServeTheStatement
<1>1. Recording /\ Selected /\ Planned => JoinsServeTheStatement
  BY PlannedServes
<1> QED BY RequestInvariant, <1>1, PTL

(***************************************************************************)
(* How many elements of a sequence are in P.                               *)
(***************************************************************************)
PlacesOf(s, P) == {i \in DOMAIN s : s[i] \in P}
CountOf(s, P) == Cardinality(PlacesOf(s, P))

LEMMA CountOfType ==
  ASSUME NEW T, NEW s \in Seq(T), NEW P
  PROVE  IsFiniteSet(PlacesOf(s, P)) /\ CountOf(s, P) \in Nat
<1>1. Len(s) \in Nat /\ DOMAIN s = 1 .. Len(s)
  BY LenProperties
<1>2. IsFiniteSet(1 .. Len(s))
  BY <1>1, FS_Interval
<1>3. PlacesOf(s, P) \in SUBSET (1 .. Len(s))
  BY <1>1 DEF PlacesOf
<1>4. IsFiniteSet(PlacesOf(s, P))
  BY <1>2, <1>3, FS_Subset
<1> QED BY <1>4, FS_CardinalityType DEF CountOf

LEMMA CountOfConcat ==
  ASSUME NEW T, NEW s \in Seq(T), NEW t \in Seq(T), NEW P
  PROVE  CountOf(s \o t, P) = CountOf(s, P) + CountOf(t, P)
<1> DEFINE m == Len(s)
           n == Len(t)
           u == s \o t
<1>1. /\ m \in Nat /\ n \in Nat /\ DOMAIN s = 1 .. m /\ DOMAIN t = 1 .. n
      /\ u \in Seq(T) /\ Len(u) = m + n
      /\ \A i \in 1 .. m + n : u[i] = IF i <= m THEN s[i] ELSE t[i - m]
  BY LenProperties, ConcatProperties
<1>2. DOMAIN u = 1 .. m + n
  BY <1>1, LenProperties
<1>3. IsFiniteSet(PlacesOf(s, P)) /\ IsFiniteSet(PlacesOf(t, P)) /\ IsFiniteSet(PlacesOf(u, P))
  BY <1>1, CountOfType
<1> HIDE DEF m, n, u
<1> DEFINE later == {m + i : i \in PlacesOf(t, P)}
           shift == [i \in PlacesOf(t, P) |-> m + i]
<1>4. PlacesOf(s, P) \subseteq 1 .. m /\ PlacesOf(t, P) \subseteq 1 .. n
  BY <1>1 DEF PlacesOf
<1>5. PlacesOf(u, P) = PlacesOf(s, P) \cup later
  <2>1. ASSUME NEW i \in PlacesOf(u, P) PROVE i \in PlacesOf(s, P) \cup later
    <3>1. i \in 1 .. m + n /\ u[i] \in P
      BY <1>2 DEF PlacesOf
    <3>2. CASE i <= m
      BY <1>1, <3>1, <3>2 DEF PlacesOf
    <3>3. CASE ~(i <= m)
      <4>1. i - m \in 1 .. n /\ m + (i - m) = i /\ u[i] = t[i - m]
        BY <1>1, <3>1, <3>3
      <4>2. i - m \in PlacesOf(t, P)
        BY <1>1, <3>1, <4>1 DEF PlacesOf
      <4> QED BY <4>1, <4>2
    <3> QED BY <3>2, <3>3
  <2>2. ASSUME NEW i \in PlacesOf(s, P) PROVE i \in PlacesOf(u, P)
    <3>1. i \in 1 .. m + n /\ i <= m
      BY <1>1, <1>4
    <3> QED BY <1>1, <1>2, <3>1 DEF PlacesOf
  <2>3. ASSUME NEW j \in PlacesOf(t, P) PROVE m + j \in PlacesOf(u, P)
    <3>1. m + j \in 1 .. m + n /\ ~(m + j <= m) /\ m + j - m = j
      BY <1>1, <1>4
    <3>2. u[m + j] = t[j]
      <4>1. PICK k : k = m + j
        OBVIOUS
      <4>2. k \in 1 .. m + n /\ ~(k <= m) /\ k - m = j
        BY <1>1, <1>4, <4>1
      <4>3. u[k] = t[k - m]
        BY <1>1, <4>2
      <4> QED BY <4>1, <4>2, <4>3
    <3>3. t[j] \in P
      BY DEF PlacesOf
    <3> QED BY <1>2, <3>1, <3>2, <3>3 DEF PlacesOf
  <2> QED BY <2>1, <2>2, <2>3
<1>6. PlacesOf(s, P) \cap later = {}
  BY <1>1, <1>4
<1>7. Cardinality(later) = CountOf(t, P) /\ IsFiniteSet(later)
  <2>1. shift \in Bijection(PlacesOf(t, P), later)
    <3>1. shift \in [PlacesOf(t, P) -> later]
      OBVIOUS
    <3>2. \A i, j \in PlacesOf(t, P) : shift[i] = shift[j] => i = j
      BY <1>1, <1>4
    <3>3. \A x \in later : \E i \in PlacesOf(t, P) : shift[i] = x
      OBVIOUS
    <3> HIDE DEF shift, later
    <3> QED BY <3>1, <3>2, <3>3 DEF Bijection, Injection, Surjection, IsInjective
  <2>2. ExistsBijection(PlacesOf(t, P), later)
    BY <2>1 DEF ExistsBijection
  <2> QED BY <1>3, <2>2, FS_Bijection DEF CountOf
<1> HIDE DEF later
<1>8. Cardinality(PlacesOf(u, P)) = Cardinality(PlacesOf(s, P)) + Cardinality(later) - Cardinality({})
  BY <1>3, <1>5, <1>6, <1>7, FS_Union
<1>9. Cardinality({}) = 0 /\ CountOf(s, P) \in Nat /\ CountOf(t, P) \in Nat
  BY FS_EmptySet, CountOfType
<1> QED BY <1>7, <1>8, <1>9 DEF CountOf, u

Counts(x, n, s, P) == \A i \in 1 .. n : x[i] = CountOf(s[i], P)

LEMMA CountOfFlatten ==
  ASSUME NEW T, NEW s \in Seq(Seq(T)), NEW P, NEW n, n = Len(s),
         NEW x, Counts(x, n, s, P)
  PROVE  \E g : SumsUp(g, x, n) /\ CountOf(FlattenSeq(s), P) = g[n]
<1>1. n \in Nat /\ DOMAIN s = 1 .. n /\ \A i \in 1 .. n : s[i] \in Seq(T)
  BY ElementOfSeq, LenProperties
<1>2. \A i \in 1 .. n : x[i] = CountOf(s[i], P) /\ x[i] \in Nat
  BY <1>1, CountOfType DEF Counts
<1>3. CASE n = 0
  <2> DEFINE g == [i \in 0 .. 0 |-> 0]
  <2>1. s = <<>>
    BY <1>3, EmptySeq
  <2>2. FlattenSeq(s) = <<>>
    BY <1>3, <2>1 DEF FlattenSeq
  <2>3. CountOf(<<>>, P) = 0
    <3>1. PlacesOf(<<>>, P) = {}
      BY DEF PlacesOf
    <3> QED BY <3>1, FS_EmptySet DEF CountOf
  <2>4. \A i \in 0 .. n : g[i] = 0
    BY <1>3
  <2>5. 1 .. n = {} /\ 0 \in 0 .. n
    BY <1>3
  <2> HIDE DEF g
  <2>6. SumsUp(g, x, n)
    BY <2>4, <2>5 DEF SumsUp
  <2> QED BY <1>3, <2>2, <2>3, <2>4, <2>5, <2>6
<1>4. CASE n # 0
  <2>1. PICK f : Flattens(f, s, n) /\ FlattenSeq(s) = f[n]
    BY <1>1, <1>4, FlattenSteps
  <2>2. \A i \in 1 .. n : f[i] \in Seq(T)
    BY <2>1, FlattensType
  <2>3. \A i \in 1 .. n : f[i] = IF i = 1 THEN s[i] ELSE f[i - 1] \o s[i]
    BY <2>1 DEF Flattens
  <2> DEFINE g == [i \in 0 .. n |-> IF i = 0 THEN 0 ELSE CountOf(f[i], P)]
  <2>4. g[0] = 0 /\ \A i \in 1 .. n : g[i] = CountOf(f[i], P)
    BY <1>1
  <2>5. \A i \in 0 .. n : g[i] \in Nat
    <3>1. \A i \in 0 .. n : i = 0 \/ i \in 1 .. n
      BY <1>1
    <3>2. \A i \in 1 .. n : CountOf(f[i], P) \in Nat
      BY <2>2, CountOfType
    <3> HIDE DEF g
    <3> QED BY <2>4, <3>1, <3>2
  <2> HIDE DEF g
  <2>6. ASSUME NEW i \in 1 .. n PROVE g[i] = g[i - 1] + x[i]
    <3>1. CASE i = 1
      BY <1>2, <2>3, <2>4, <3>1
    <3>2. CASE i # 1
      <4>1. i - 1 \in 1 .. n
        BY <1>1, <3>2
      <4>2. f[i] = f[i - 1] \o s[i] /\ f[i - 1] \in Seq(T) /\ s[i] \in Seq(T)
        BY <1>1, <2>2, <2>3, <3>2, <4>1
      <4>3. CountOf(f[i], P) = CountOf(f[i - 1], P) + CountOf(s[i], P)
        BY <4>2, CountOfConcat
      <4> QED BY <1>2, <2>4, <4>1, <4>3
    <3> QED BY <3>1, <3>2
  <2>7. SumsUp(g, x, n)
    BY <1>2, <2>4, <2>5, <2>6 DEF SumsUp
  <2>8. n \in 1 .. n
    BY <1>1, <1>4
  <2> QED BY <2>1, <2>4, <2>7, <2>8
<1> QED BY <1>3, <1>4

(***************************************************************************)
(* How deep a tree nests, and its leaves.                                  *)
(***************************************************************************)
BelowIn(c, r) == [i \in DOMAIN Subtrees(c) |-> r[Subtrees(c)[i]]]
NestingWith(c, r) == 1 + Max({0} \cup {r[Subtrees(c)[i]] : i \in DOMAIN Subtrees(c)})

\* It is one more than the deepest nesting below.
LEMMA NestingWithIs ==
  ASSUME NEW c \in Condition, NEW r, \A k \in NodesBelow(c) : r[k] \in Nat
  PROVE  /\ NestingWith(c, r) \in Nat
         /\ \A k \in NodesBelow(c) : r[k] < NestingWith(c, r)
         /\ NestingWith(c, r) = 1 \/ \E k \in NodesBelow(c) : NestingWith(c, r) = 1 + r[k]
<1> DEFINE s == Subtrees(c)
           x == [i \in 1 .. Len(s) |-> r[s[i]]]
           all == {0} \cup {x[i] : i \in 1 .. Len(s)}
<1>1. Len(s) \in Nat /\ DOMAIN s = 1 .. Len(s) /\ \A i \in 1 .. Len(s) : s[i] \in NodesBelow(c)
  BY SubtreesOf, LenProperties
<1>2. NodesBelow(c) = {s[i] : i \in 1 .. Len(s)}
  BY <1>1 DEF NodesBelow, ToSet
<1>3. \A i \in 1 .. Len(s) : x[i] = r[s[i]] /\ x[i] \in Nat
  BY <1>1
<1>4. {r[s[i]] : i \in DOMAIN s} = {x[i] : i \in 1 .. Len(s)}
  BY <1>1, <1>3
<1> HIDE DEF x
<1>5. PICK a \in all : \A b \in all : a >= b
  BY <1>1, <1>3, Largest
<1>6. all \subseteq Nat
  BY <1>3
<1>7. NestingWith(c, r) = 1 + Max(all)
  BY <1>4 DEF NestingWith
<1> HIDE DEF all
<1>8. PICK top \in all : top = Max(all) /\ \A b \in all : top >= b
  BY <1>5 DEF Max
<1>9. top = 0 \/ \E i \in 1 .. Len(s) : top = r[s[i]]
  BY <1>3, <1>8 DEF all
<1>10. \A i \in 1 .. Len(s) : r[s[i]] \in all
  BY <1>3 DEF all
<1>11. NestingWith(c, r) = 1 + top /\ top \in Nat /\ NestingWith(c, r) \in Nat
  BY <1>6, <1>7, <1>8
<1>12. ASSUME NEW k \in NodesBelow(c) PROVE r[k] < NestingWith(c, r)
  <2>1. r[k] \in all /\ r[k] \in Nat
    BY <1>2, <1>6, <1>10
  <2>2. top >= r[k]
    BY <1>8, <2>1
  <2> QED BY <1>11, <2>1, <2>2
<1>13. NestingWith(c, r) = 1 \/ \E k \in NodesBelow(c) : NestingWith(c, r) = 1 + r[k]
  BY <1>1, <1>9, <1>11
<1> QED BY <1>11, <1>12, <1>13

LEMMA NestingRecur == \A c \in Condition : Nesting[c] = NestingWith(c, Nesting)
<1> DEFINE V == Nat
           step == [c \in Condition |-> [r \in [NodesBelow(c) -> V] |-> NestingWith(c, r)]]
<1>1. \A c \in Condition : \A r \in [NodesBelow(c) -> V] : step[c][r] = NestingWith(c, r)
  OBVIOUS
<1>2. \A c \in Condition : \A r \in [NodesBelow(c) -> V] : NestingWith(c, r) \in V
  BY NestingWithIs
<1> HIDE DEF step, V
<1>3. StepsIn(V, step)
  BY <1>1, <1>2 DEF StepsIn
<1>4. PICK g : Follows(g, V, step)
  BY <1>3, TreesRecur
<1>5. ASSUME NEW c \in Condition PROVE g[c] = NestingWith(c, g)
  <2>1. PICK r : r = Restrict(g, NodesBelow(c))
    OBVIOUS
  <2>2. g[c] = NestingWith(c, r)
    BY <1>1, <1>4, <2>1 DEF Follows
  <2>3. \A i \in DOMAIN Subtrees(c) : r[Subtrees(c)[i]] = g[Subtrees(c)[i]]
    BY <2>1, SubtreesOf DEF Restrict
  <2>4. {r[Subtrees(c)[i]] : i \in DOMAIN Subtrees(c)} = {g[Subtrees(c)[i]] : i \in DOMAIN Subtrees(c)}
    BY <2>3
  <2> QED BY <2>2, <2>4 DEF NestingWith
<1>6. g = [c \in Condition |-> NestingWith(c, g)]
  BY <1>4, <1>5 DEF Follows
<1>7. Nesting = CHOOSE f : f = [c \in Condition |-> NestingWith(c, f)]
  BY DEF Nesting, NestingWith
<1>8. Nesting = [c \in Condition |-> NestingWith(c, Nesting)]
  BY <1>6, <1>7
<1> QED BY <1>8

LeafHere(c) == IF c.key = "" THEN <<>> ELSE <<c>>
LeavesWith(c, r) == LeafHere(c) \o FlattenSeq(BelowIn(c, r))

LEMMA BelowInType ==
  ASSUME NEW c \in Condition, NEW V, NEW r, \A k \in NodesBelow(c) : r[k] \in V
  PROVE  BelowIn(c, r) \in Seq(V)
<1>1. Subtrees(c) \in Seq(Condition) /\ \A i \in DOMAIN Subtrees(c) : Subtrees(c)[i] \in NodesBelow(c)
  BY SubtreesOf
<1>2. Len(Subtrees(c)) \in Nat /\ DOMAIN Subtrees(c) = 1 .. Len(Subtrees(c))
  BY <1>1, LenProperties
<1>3. BelowIn(c, r) \in [1 .. Len(Subtrees(c)) -> V]
  BY <1>1, <1>2 DEF BelowIn
<1> QED BY <1>2, <1>3, SeqDef

LEMMA LeafHereIs ==
  ASSUME NEW c \in Condition
  PROVE  /\ LeafHere(c) \in Seq(Condition)
         /\ Len(LeafHere(c)) = IF c.key = "" THEN 0 ELSE 1
         /\ ToSet(LeafHere(c)) = IF c.key = "" THEN {} ELSE {c}
<1>0. PICK none : none = <<>>
  OBVIOUS
<1>1. none \in Seq(Condition) /\ Len(none) = 0 /\ ToSet(none) = {}
  BY <1>0, EmptySeq DEF ToSet
<1>2. PICK one : one = <<c>>
  OBVIOUS
<1>3. one \in Seq(Condition) /\ Len(one) = 1 /\ DOMAIN one = {1} /\ one[1] = c
  BY <1>2
<1>4. ToSet(one) = {c}
  BY <1>3 DEF ToSet
<1>5. CASE c.key = ""
  <2>1. LeafHere(c) = none
    BY <1>0, <1>5 DEF LeafHere
  <2> QED BY <1>1, <1>5, <2>1
<1>6. CASE c.key # ""
  <2>1. LeafHere(c) = one
    BY <1>2, <1>6 DEF LeafHere
  <2> QED BY <1>3, <1>4, <1>6, <2>1
<1> QED BY <1>5, <1>6

LEMMA LeavesWithType ==
  ASSUME NEW c \in Condition, NEW r, \A k \in NodesBelow(c) : r[k] \in Seq(Condition)
  PROVE  LeavesWith(c, r) \in Seq(Condition)
<1>1. BelowIn(c, r) \in Seq(Seq(Condition))
  BY BelowInType
<1>2. FlattenSeq(BelowIn(c, r)) \in Seq(Condition)
  BY <1>1, FlattenSeqType
<1> QED BY <1>2, LeafHereIs, ConcatProperties DEF LeavesWith

LEMMA LeavesRecur == \A c \in Condition : LeavesOf[c] = LeavesWith(c, LeavesOf)
<1> DEFINE V == Seq(Condition)
           step == [c \in Condition |-> [r \in [NodesBelow(c) -> V] |-> LeavesWith(c, r)]]
<1>1. \A c \in Condition : \A r \in [NodesBelow(c) -> V] : step[c][r] = LeavesWith(c, r)
  OBVIOUS
<1>2. \A c \in Condition : \A r \in [NodesBelow(c) -> V] : LeavesWith(c, r) \in V
  BY LeavesWithType
<1> HIDE DEF step, V
<1>3. StepsIn(V, step)
  BY <1>1, <1>2 DEF StepsIn
<1>4. PICK g : Follows(g, V, step)
  BY <1>3, TreesRecur
<1>5. ASSUME NEW c \in Condition PROVE g[c] = LeavesWith(c, g)
  <2>1. PICK r : r = Restrict(g, NodesBelow(c))
    OBVIOUS
  <2>2. g[c] = LeavesWith(c, r)
    BY <1>1, <1>4, <2>1 DEF Follows
  <2>3. \A i \in DOMAIN Subtrees(c) : r[Subtrees(c)[i]] = g[Subtrees(c)[i]]
    BY <2>1, SubtreesOf DEF Restrict
  <2>4. BelowIn(c, r) = BelowIn(c, g)
    BY <2>3 DEF BelowIn
  <2> QED BY <2>2, <2>4 DEF LeavesWith
<1>6. g = [c \in Condition |-> LeavesWith(c, g)]
  BY <1>4, <1>5 DEF Follows
<1>7. LeavesOf = CHOOSE f : f = [c \in Condition |-> LeavesWith(c, f)]
  BY DEF LeavesOf, LeavesWith, LeafHere, BelowIn
<1>8. LeavesOf = [c \in Condition |-> LeavesWith(c, LeavesOf)]
  BY <1>6, <1>7
<1> QED BY <1>8

LEMMA LeavesType == \A c \in Condition : LeavesOf[c] \in Seq(Condition)
<1> DEFINE S == {c \in Condition : LeavesOf[c] \in Seq(Condition)}
<1>1. ASSUME NEW c \in Condition, NodesBelow(c) \subseteq S PROVE c \in S
  BY <1>1, LeavesRecur, LeavesWithType
<1> HIDE DEF S
<1>2. Condition \subseteq S
  BY <1>1, TreeInduction
<1> QED BY <1>2 DEF S

(***************************************************************************)
(* What Check walks over.                                                  *)
(***************************************************************************)
\* The children walked over are a stretch of the nodes below.
LEMMA PursuedIs ==
  ASSUME NEW c \in Condition, NEW n, n = Len(Pursued(c))
  PROVE  /\ n \in Nat /\ DOMAIN Pursued(c) = 1 .. n
         /\ \A i \in 1 .. n : Pursued(c)[i] \in NodesBelow(c)
         /\ \E k \in Nat : /\ k + n <= Len(Subtrees(c))
                           /\ \A i \in 1 .. n : k + i \in DOMAIN Subtrees(c) /\ Pursued(c)[i] = Subtrees(c)[k + i]
<1> DEFINE a == c.and
           o == c.or
           t == c.not
           both == a \o o
           s == Subtrees(c)
<1>1. a \in Seq(Condition) /\ o \in Seq(Condition) /\ t \in Seq(Condition)
  BY ConditionAssumption
<1>2. /\ Len(a) \in Nat /\ Len(o) \in Nat /\ Len(t) \in Nat
      /\ DOMAIN a = 1 .. Len(a) /\ DOMAIN o = 1 .. Len(o) /\ DOMAIN t = 1 .. Len(t)
  BY <1>1, LenProperties
<1>3. /\ both \in Seq(Condition) /\ Len(both) = Len(a) + Len(o)
      /\ \A i \in 1 .. Len(a) + Len(o) : both[i] = IF i <= Len(a) THEN a[i] ELSE o[i - Len(a)]
  BY <1>1, ConcatProperties
<1>4. /\ s \in Seq(Condition) /\ Len(s) = Len(both) + Len(t)
      /\ \A i \in 1 .. Len(both) + Len(t) : s[i] = IF i <= Len(both) THEN both[i] ELSE t[i - Len(both)]
  <2>1. s = both \o t
    BY DEF Subtrees
  <2>2. both \in Seq(Condition) /\ t \in Seq(Condition)
    BY <1>1, <1>3
  <2> HIDE DEF s, both, t, a, o
  <2>3. /\ both \o t \in Seq(Condition) /\ Len(both \o t) = Len(both) + Len(t)
        /\ \A i \in 1 .. Len(both) + Len(t) : (both \o t)[i] = IF i <= Len(both) THEN both[i] ELSE t[i - Len(both)]
    BY <2>2, ConcatProperties
  <2> QED BY <2>1, <2>3
<1>5. DOMAIN s = 1 .. Len(s)
  BY <1>4, LenProperties
<1>6. Pursued(c) = IF a # <<>> THEN a ELSE IF o # <<>> THEN o ELSE t
  BY DEF Pursued
<1>7. \A i \in DOMAIN s : s[i] \in NodesBelow(c)
  BY SubtreesOf
<1> HIDE DEF a, o, t, both, s
<1> DEFINE la == Len(a)
           lo == Len(o)
           lt == Len(t)
<1>8. /\ la \in Nat /\ lo \in Nat /\ lt \in Nat /\ Len(both) = la + lo /\ Len(s) = la + lo + lt
      /\ DOMAIN s = 1 .. la + lo + lt
  BY <1>2, <1>3, <1>4, <1>5
<1>9. \A i \in 1 .. la + lo : both[i] = IF i <= la THEN a[i] ELSE o[i - la]
  BY <1>3
<1>10. \A i \in 1 .. la + lo + lt : s[i] = IF i <= la + lo THEN both[i] ELSE t[i - (la + lo)]
  BY <1>4, <1>8
<1> HIDE DEF la, lo, lt
<1>11. \A i \in 1 .. la : 0 + i \in DOMAIN s /\ a[i] = s[0 + i]
  BY <1>8, <1>9, <1>10
<1>12. ASSUME NEW i \in 1 .. lo PROVE la + i \in DOMAIN s /\ o[i] = s[la + i]
  <2>1. PICK j : j = la + i
    OBVIOUS
  <2>2. j \in 1 .. la + lo /\ j \in 1 .. la + lo + lt /\ ~(j <= la) /\ j - la = i /\ j <= la + lo
    BY <1>8, <2>1
  <2>3. s[j] = both[j] /\ both[j] = o[j - la]
    BY <1>9, <1>10, <2>2
  <2> QED BY <1>8, <2>1, <2>2, <2>3
<1>13. ASSUME NEW i \in 1 .. lt PROVE (la + lo) + i \in DOMAIN s /\ t[i] = s[(la + lo) + i]
  <2>1. PICK j : j = (la + lo) + i
    OBVIOUS
  <2>2. j \in 1 .. la + lo + lt /\ ~(j <= la + lo) /\ j - (la + lo) = i
    BY <1>8, <2>1
  <2>3. s[j] = t[j - (la + lo)]
    BY <1>10, <2>2
  <2> QED BY <1>8, <2>1, <2>2, <2>3
<1>14. \E k \in Nat : k + n <= Len(s) /\ \A i \in 1 .. n : k + i \in DOMAIN s /\ Pursued(c)[i] = s[k + i]
  <2>1. CASE a # <<>>
    <3>1. Pursued(c) = a /\ n = la
      BY <1>6, <2>1 DEF la
    <3>2. PICK k \in Nat : k = 0
      OBVIOUS
    <3>3. k + n <= Len(s) /\ \A i \in 1 .. n : k + i \in DOMAIN s /\ Pursued(c)[i] = s[k + i]
      BY <1>8, <1>11, <3>1, <3>2
    <3> QED BY <3>3
  <2>2. CASE a = <<>> /\ o # <<>>
    <3>1. Pursued(c) = o /\ n = lo
      BY <1>6, <2>2 DEF lo
    <3>2. PICK k \in Nat : k = la
      BY <1>8
    <3>3. k + n <= Len(s)
      BY <1>8, <3>1, <3>2
    <3>4. \A i \in 1 .. n : k + i \in DOMAIN s /\ Pursued(c)[i] = s[k + i]
      BY <1>12, <3>1, <3>2
    <3> QED BY <3>3, <3>4
  <2>3. CASE a = <<>> /\ o = <<>>
    <3>1. Pursued(c) = t /\ n = lt
      BY <1>6, <2>3 DEF lt
    <3>2. PICK k \in Nat : k = la + lo
      BY <1>8
    <3>3. k + n <= Len(s)
      BY <1>8, <3>1, <3>2
    <3>4. \A i \in 1 .. n : k + i \in DOMAIN s /\ Pursued(c)[i] = s[k + i]
      BY <1>13, <3>1, <3>2
    <3> QED BY <3>3, <3>4
  <2> QED BY <2>1, <2>2, <2>3
<1>15. Pursued(c) \in Seq(Condition)
  BY <1>1, <1>6 DEF a, o, t
<1>16. n \in Nat /\ DOMAIN Pursued(c) = 1 .. n
  BY <1>15, LenProperties
<1>17. \A i \in 1 .. n : Pursued(c)[i] \in NodesBelow(c)
  BY <1>7, <1>14
<1> QED BY <1>14, <1>16, <1>17 DEF s

\* A visit, and those that follow from it.
At(c, depth) == [node |-> c, depth |-> depth]
Descent(v) == {At(k, v.depth + 1) : k \in NodesBelow(v.node)}
VisitsBelow(v, r) == [i \in DOMAIN Pursued(v.node) |-> r[At(Pursued(v.node)[i], v.depth + 1)]]
VisitsWith(v, r) == <<v>> \o FlattenSeq(VisitsBelow(v, r))

LEMMA VisitIs ==
  ASSUME NEW v \in Visit
  PROVE  /\ v.node \in Condition /\ v.depth \in Nat /\ v = At(v.node, v.depth)
         /\ Descent(v) \subseteq Visit
         /\ \A i \in DOMAIN Pursued(v.node) : At(Pursued(v.node)[i], v.depth + 1) \in Descent(v)
<1>1. v.node \in Condition /\ v.depth \in Nat /\ v = At(v.node, v.depth)
  BY DEF Visit, At
<1>2. NodesBelow(v.node) \subseteq Condition /\ v.depth + 1 \in Nat
  BY <1>1, SubtreesOf
<1>3. Descent(v) \subseteq Visit
  BY <1>2 DEF Descent, Visit, At
<1>4. \A i \in DOMAIN Pursued(v.node) : Pursued(v.node)[i] \in NodesBelow(v.node)
  BY <1>1, PursuedIs
<1> QED BY <1>1, <1>3, <1>4 DEF Descent

LEMMA VisitsFall ==
  FallsIn(Visit, [v \in Visit |-> Descent(v)], [v \in Visit |-> Nesting[v.node]])
<1> SUFFICES ASSUME NEW v \in Visit
             PROVE  /\ Nesting[v.node] \in Nat /\ Descent(v) \subseteq Visit
                    /\ \A u \in Descent(v) : u \in Visit /\ Nesting[u.node] < Nesting[v.node]
  BY DEF FallsIn
<1>1. v.node \in Condition /\ Descent(v) \subseteq Visit
  BY VisitIs
<1>2. Nesting[v.node] \in Nat /\ \A k \in NodesBelow(v.node) : Nesting[k] < Nesting[v.node]
  BY <1>1, TreesFall DEF FallsIn
<1>3. \A u \in Descent(v) : u.node \in NodesBelow(v.node)
  BY DEF Descent, At
<1> QED BY <1>1, <1>2, <1>3

LEMMA VisitsBelowType ==
  ASSUME NEW v \in Visit, NEW V, NEW r, \A u \in Descent(v) : r[u] \in V
  PROVE  VisitsBelow(v, r) \in Seq(V)
<1>1. v.node \in Condition
  BY VisitIs
<1>2. PICK n : n = Len(Pursued(v.node))
  OBVIOUS
<1>3. n \in Nat /\ DOMAIN Pursued(v.node) = 1 .. n
  BY <1>1, <1>2, PursuedIs
<1>4. VisitsBelow(v, r) \in [1 .. n -> V]
  BY <1>3, VisitIs DEF VisitsBelow
<1> QED BY <1>3, <1>4, SeqDef

LEMMA VisitsWithType ==
  ASSUME NEW v \in Visit, NEW r, \A u \in Descent(v) : r[u] \in Seq(Visit)
  PROVE  VisitsWith(v, r) \in Seq(Visit)
<1>1. FlattenSeq(VisitsBelow(v, r)) \in Seq(Visit)
  BY VisitsBelowType, FlattenSeqType
<1>2. <<v>> \in Seq(Visit)
  OBVIOUS
<1> QED BY <1>1, <1>2, ConcatProperties DEF VisitsWith

LEMMA VisitsRecur == \A v \in Visit : Visits[v] = VisitsWith(v, Visits)
<1> DEFINE V == Seq(Visit)
           kids == [v \in Visit |-> Descent(v)]
           height == [v \in Visit |-> Nesting[v.node]]
           step == [v \in Visit |-> [r \in [Descent(v) -> V] |-> VisitsWith(v, r)]]
<1>1. \A v \in Visit : \A r \in [Descent(v) -> V] : step[v][r] = VisitsWith(v, r)
  OBVIOUS
<1>2. \A v \in Visit : \A r \in [Descent(v) -> V] : VisitsWith(v, r) \in V
  BY VisitsWithType
<1>3. FallsIn(Visit, kids, height)
  BY VisitsFall
<1>4. \A v \in Visit : kids[v] = Descent(v)
  OBVIOUS
<1> HIDE DEF step, V, kids, height
<1>5. \A v \in Visit : \A r \in [kids[v] -> V] : step[v][r] \in V
  BY <1>1, <1>2, <1>4
<1>6. PICK g : Computes(g, Visit, kids, step)
  BY <1>3, TreeRecursion
<1>7. g \in [Visit -> V]
  BY <1>3, <1>5, <1>6, RecursionType
<1>8. ASSUME NEW v \in Visit PROVE g[v] = VisitsWith(v, g)
  <2>1. PICK r : r = [u \in kids[v] |-> g[u]]
    OBVIOUS
  <2>2. g[v] = step[v][r]
    BY <1>6, <2>1 DEF Computes
  <2>3. r \in [Descent(v) -> V]
    BY <1>4, <1>7, <2>1, VisitIs
  <2>4. g[v] = VisitsWith(v, r)
    BY <1>1, <2>2, <2>3
  <2>5. \A i \in DOMAIN Pursued(v.node) :
          r[At(Pursued(v.node)[i], v.depth + 1)] = g[At(Pursued(v.node)[i], v.depth + 1)]
    BY <1>4, <2>1, VisitIs
  <2>6. VisitsBelow(v, r) = VisitsBelow(v, g)
    BY <2>5 DEF VisitsBelow
  <2> QED BY <2>4, <2>6 DEF VisitsWith
<1>9. g = [v \in Visit |-> VisitsWith(v, g)]
  BY <1>7, <1>8
<1>10. Visits = CHOOSE f : f = [v \in Visit |-> VisitsWith(v, f)]
  BY DEF Visits, VisitsWith, VisitsBelow, At
<1>11. Visits = [v \in Visit |-> VisitsWith(v, Visits)]
  BY <1>9, <1>10
<1> QED BY <1>11

LEMMA VisitsType == \A c \in Condition : \A d \in Nat : At(c, d) \in Visit /\ Visits[At(c, d)] \in Seq(Visit)
<1> DEFINE S == {c \in Condition : \A d \in Nat : Visits[At(c, d)] \in Seq(Visit)}
<1>1. \A c \in Condition : \A d \in Nat : At(c, d) \in Visit /\ At(c, d).node = c /\ At(c, d).depth = d
  BY DEF At, Visit
<1>2. ASSUME NEW c \in Condition, NodesBelow(c) \subseteq S PROVE c \in S
  <2>1. ASSUME NEW d \in Nat PROVE Visits[At(c, d)] \in Seq(Visit)
    <3>1. PICK v : v = At(c, d)
      OBVIOUS
    <3>2. v \in Visit /\ d + 1 \in Nat /\ Descent(v) = {At(k, d + 1) : k \in NodesBelow(c)}
      BY <1>1, <3>1 DEF Descent
    <3>3. \A u \in Descent(v) : Visits[u] \in Seq(Visit)
      BY <1>2, <3>2
    <3> QED BY <3>1, <3>2, <3>3, VisitsRecur, VisitsWithType
  <2> QED BY <2>1
<1> HIDE DEF S
<1>3. Condition \subseteq S
  BY <1>2, TreeInduction
<1> QED BY <1>1, <1>3 DEF S

\* The visits that Check counts.
CountedVisits == {v \in Visit : Counted(v.node)}

LEMMA CountedInIs == ASSUME NEW visits \in Seq(Visit) PROVE CountedIn(visits) = PlacesOf(visits, CountedVisits)
<1>1. DOMAIN visits = 1 .. Len(visits) /\ \A i \in DOMAIN visits : visits[i] \in Visit
  BY LenProperties, ElementOfSeq
<1> QED BY <1>1 DEF CountedIn, PlacesOf, CountedVisits

LEMMA CountOfOne ==
  ASSUME NEW x, NEW P PROVE CountOf(<<x>>, P) = IF x \in P THEN 1 ELSE 0
<1>1. DOMAIN <<x>> = {1} /\ <<x>>[1] = x
  OBVIOUS
<1>2. PlacesOf(<<x>>, P) = IF x \in P THEN {1} ELSE {}
  BY <1>1 DEF PlacesOf
<1>3. Cardinality({1}) = 1 /\ Cardinality({}) = 0
  BY FS_Singleton, FS_EmptySet
<1> QED BY <1>2, <1>3 DEF CountOf

LEMMA SetOfOne == ASSUME NEW x PROVE ToSet(<<x>>) = {x}
<1>1. DOMAIN <<x>> = {1} /\ <<x>>[1] = x
  OBVIOUS
<1> QED BY <1>1 DEF ToSet

\* A visit and its descents, one by one.
Unrolls(below, c, d, n) ==
  /\ n = Len(below) /\ DOMAIN below = 1 .. n
  /\ \A i \in 1 .. n : below[i] = Visits[At(Pursued(c)[i], d + 1)]
  /\ FlattenSeq(below) \in Seq(Visit)
  /\ Visits[At(c, d)] = <<At(c, d)>> \o FlattenSeq(below)

LEMMA VisitsBelowIs ==
  ASSUME NEW c \in Condition, NEW d \in Nat, NEW n, n = Len(Pursued(c))
  PROVE  /\ n \in Nat
         /\ \E below \in Seq(Seq(Visit)) : Unrolls(below, c, d, n)
<1> DEFINE v == At(c, d)
           below == VisitsBelow(v, Visits)
<1>1. v \in Visit /\ v.node = c /\ v.depth = d /\ d + 1 \in Nat
  BY VisitsType DEF At
<1>2. n \in Nat /\ DOMAIN Pursued(c) = 1 .. n /\ \A i \in 1 .. n : Pursued(c)[i] \in Condition
  BY PursuedIs, SubtreesOf
<1>3. below = [i \in 1 .. n |-> Visits[At(Pursued(c)[i], d + 1)]]
  BY <1>1, <1>2 DEF VisitsBelow
<1>4. \A i \in 1 .. n : Visits[At(Pursued(c)[i], d + 1)] \in Seq(Visit)
  BY <1>1, <1>2, VisitsType
<1>5. Visits[v] = <<v>> \o FlattenSeq(below)
  BY <1>1, VisitsRecur DEF VisitsWith
<1> HIDE DEF v, below
<1> DEFINE W == Seq(Visit)
<1>6. below \in [1 .. n -> W]
  BY <1>3, <1>4
<1> HIDE DEF W
<1>7. below \in Seq(W) /\ n = Len(below) /\ DOMAIN below = 1 .. n
  BY <1>2, <1>6
<1>8. below \in Seq(Seq(Visit))
  BY <1>7 DEF W
<1>9. FlattenSeq(below) \in Seq(Visit)
  BY <1>8, FlattenSeqType
<1>10. \A i \in 1 .. n : below[i] = Visits[At(Pursued(c)[i], d + 1)]
  BY <1>3
<1> QED BY <1>2, <1>5, <1>7, <1>8, <1>9, <1>10 DEF v, Unrolls

LEMMA VisitsCount ==
  ASSUME NEW c \in Condition, NEW d \in Nat, NEW n, n = Len(Pursued(c)), NEW P,
         NEW x, \A i \in 1 .. n : x[i] = CountOf(Visits[At(Pursued(c)[i], d + 1)], P)
  PROVE  \E g : /\ SumsUp(g, x, n)
                /\ CountOf(Visits[At(c, d)], P) = (IF At(c, d) \in P THEN 1 ELSE 0) + g[n]
<1>1. PICK below \in Seq(Seq(Visit)) : Unrolls(below, c, d, n)
  BY VisitsBelowIs
<1>2. Counts(x, n, below, P)
  BY <1>1 DEF Counts, Unrolls
<1>7. n = Len(below) /\ FlattenSeq(below) \in Seq(Visit)
  BY <1>1 DEF Unrolls
<1>3. PICK g : SumsUp(g, x, n) /\ CountOf(FlattenSeq(below), P) = g[n]
  BY <1>7, <1>2, CountOfFlatten
<1>4. PICK one : one = <<At(c, d)>>
  OBVIOUS
<1>5. one \in Seq(Visit) /\ CountOf(one, P) = (IF At(c, d) \in P THEN 1 ELSE 0)
  BY <1>4, VisitsType, CountOfOne
<1>6. CountOf(one \o FlattenSeq(below), P) = CountOf(one, P) + CountOf(FlattenSeq(below), P)
  BY <1>7, <1>5, CountOfConcat
<1> QED BY <1>1, <1>3, <1>4, <1>5, <1>6 DEF Unrolls

LEMMA VisitsReach ==
  ASSUME NEW c \in Condition, NEW d \in Nat, NEW n, n = Len(Pursued(c))
  PROVE  ToSet(Visits[At(c, d)])
           = {At(c, d)} \cup UNION {ToSet(Visits[At(Pursued(c)[i], d + 1)]) : i \in 1 .. n}
<1>1. PICK below \in Seq(Seq(Visit)) : Unrolls(below, c, d, n)
  BY VisitsBelowIs
<1>2. PICK one : one = <<At(c, d)>>
  OBVIOUS
<1>3. one \in Seq(Visit) /\ ToSet(one) = {At(c, d)}
  BY <1>2, VisitsType, SetOfOne
<1>4. ToSet(one \o FlattenSeq(below)) = ToSet(one) \cup ToSet(FlattenSeq(below))
  BY <1>1, <1>3, ToSetConcat DEF Unrolls
<1>5. ToSet(FlattenSeq(below)) = UNION {ToSet(below[i]) : i \in DOMAIN below}
  BY <1>1, FlattenElements
<1>6. {ToSet(below[i]) : i \in DOMAIN below} = {ToSet(Visits[At(Pursued(c)[i], d + 1)]) : i \in 1 .. n}
  BY <1>1 DEF Unrolls
<1> QED BY <1>1, <1>2, <1>3, <1>4, <1>5, <1>6 DEF Unrolls

\* A leaf and those below, one by one.
LEMMA LeavesSpread ==
  ASSUME NEW c \in Condition, NEW m, m = Len(Subtrees(c))
  PROVE  /\ m \in Nat
         /\ \E h : /\ SumsUp(h, [i \in 1 .. m |-> Len(LeavesOf[Subtrees(c)[i]])], m)
                   /\ Len(LeavesOf[c]) = (IF c.key = "" THEN 0 ELSE 1) + h[m]
         /\ ToSet(LeavesOf[c])
              = (IF c.key = "" THEN {} ELSE {c}) \cup UNION {ToSet(LeavesOf[k]) : k \in NodesBelow(c)}
<1> DEFINE below == BelowIn(c, LeavesOf)
           rest == FlattenSeq(below)
           here == LeafHere(c)
<1>1. /\ m \in Nat /\ DOMAIN Subtrees(c) = 1 .. m
      /\ \A i \in 1 .. m : Subtrees(c)[i] \in NodesBelow(c)
      /\ NodesBelow(c) \subseteq Condition
  BY SubtreesOf, LenProperties
<1>2. below = [i \in 1 .. m |-> LeavesOf[Subtrees(c)[i]]]
  BY <1>1 DEF BelowIn
<1>3. below \in Seq(Seq(Condition))
  BY <1>1, LeavesType, BelowInType
<1>4. LeavesOf[c] = here \o rest
  BY LeavesRecur DEF LeavesWith
<1>5. /\ here \in Seq(Condition)
      /\ Len(here) = IF c.key = "" THEN 0 ELSE 1
      /\ ToSet(here) = IF c.key = "" THEN {} ELSE {c}
  BY LeafHereIs
<1> HIDE DEF below, rest, here
<1>6. DOMAIN below = 1 .. m /\ \A i \in 1 .. m : below[i] = LeavesOf[Subtrees(c)[i]]
  BY <1>2
<1>7. m = Len(below)
  BY <1>1, <1>3, <1>6, LenProperties
<1>8. PICK h : SumsUp(h, [i \in 1 .. m |-> Len(below[i])], m) /\ Len(FlattenSeq(below)) = h[m]
  BY <1>3, <1>7, LenOfFlatten
<1>9. [i \in 1 .. m |-> Len(below[i])] = [i \in 1 .. m |-> Len(LeavesOf[Subtrees(c)[i]])]
  BY <1>6
<1>10. rest \in Seq(Condition)
  BY <1>3, FlattenSeqType DEF rest
<1>11. Len(here \o rest) = Len(here) + Len(rest)
  BY <1>5, <1>10, ConcatProperties
<1>12. ToSet(here \o rest) = ToSet(here) \cup ToSet(rest)
  <2>1. here \in Seq(Condition)
    BY <1>5
  <2> QED BY <1>10, <2>1, ToSetConcat
<1>13. ToSet(rest) = UNION {ToSet(below[i]) : i \in DOMAIN below}
  BY <1>3, FlattenElements DEF rest
<1>14. {ToSet(below[i]) : i \in DOMAIN below} = {ToSet(LeavesOf[k]) : k \in NodesBelow(c)}
  <2>1. NodesBelow(c) = {Subtrees(c)[i] : i \in 1 .. m}
    BY <1>1 DEF NodesBelow, ToSet
  <2> QED BY <1>6, <2>1
<1>15. Len(LeavesOf[c]) = (IF c.key = "" THEN 0 ELSE 1) + h[m]
  BY <1>4, <1>5, <1>8, <1>11 DEF rest
<1>16. ToSet(LeavesOf[c])
         = (IF c.key = "" THEN {} ELSE {c}) \cup UNION {ToSet(LeavesOf[k]) : k \in NodesBelow(c)}
  BY <1>4, <1>5, <1>12, <1>13, <1>14
<1> QED BY <1>1, <1>8, <1>9, <1>15, <1>16

\* Whatever the tree, the walk counts no more than the leaves, goes no deeper than
\* the tree, and each node it counts is a leaf.
WalkBound(c) ==
  \A d \in Nat :
    /\ CountOf(Visits[At(c, d)], CountedVisits) <= Len(LeavesOf[c])
    /\ \A v \in ToSet(Visits[At(c, d)]) :
         /\ v.depth \in Nat /\ v.depth < d + Nesting[c]
         /\ v \in CountedVisits => v.node \in ToSet(LeavesOf[c])

LEMMA NestingIs ==
  ASSUME NEW c \in Condition
  PROVE  /\ Nesting[c] \in Nat /\ Nesting[c] # 0
         /\ \A k \in NodesBelow(c) : k \in Condition /\ Nesting[k] \in Nat /\ Nesting[k] < Nesting[c]
         /\ Nesting[c] = 1 \/ \E k \in NodesBelow(c) : Nesting[c] = 1 + Nesting[k]
<1>1. \A k \in NodesBelow(c) : k \in Condition /\ Nesting[k] \in Nat
  BY SubtreesOf, TreesFall DEF FallsIn
<1>2. Nesting[c] = NestingWith(c, Nesting)
  BY NestingRecur
<1> QED BY <1>1, <1>2, NestingWithIs

LEMMA CountedAt ==
  ASSUME NEW c \in Condition, NEW d \in Nat
  PROVE  At(c, d) \in CountedVisits <=> Pursued(c) = <<>> /\ c.key # ""
BY VisitsType DEF CountedVisits, Counted, At

LEMMA WalkIsBound == \A c \in Condition : WalkBound(c)
<1> DEFINE S == {c \in Condition : WalkBound(c)}
           C == CountedVisits
<1>1. ASSUME NEW c \in Condition, NodesBelow(c) \subseteq S PROVE c \in S
  <2> SUFFICES ASSUME NEW d \in Nat
               PROVE  /\ CountOf(Visits[At(c, d)], C) <= Len(LeavesOf[c])
                      /\ \A v \in ToSet(Visits[At(c, d)]) :
                           /\ v.depth \in Nat /\ v.depth < d + Nesting[c]
                           /\ v \in C => v.node \in ToSet(LeavesOf[c])
    BY DEF WalkBound
  <2>1. PICK n, m : n = Len(Pursued(c)) /\ m = Len(Subtrees(c))
    OBVIOUS
  <2> DEFINE p == Pursued(c)
             s == Subtrees(c)
             x == [i \in 1 .. n |-> CountOf(Visits[At(p[i], d + 1)], C)]
             y == [i \in 1 .. m |-> Len(LeavesOf[s[i]])]
  <2>2. n \in Nat /\ m \in Nat /\ \A i \in 1 .. n : p[i] \in NodesBelow(c)
    BY <2>1, PursuedIs, LeavesSpread
  <2>3. \A k \in NodesBelow(c) : WalkBound(k)
    BY <1>1
  <2>4. /\ \A k \in NodesBelow(c) : k \in Condition /\ Nesting[k] \in Nat /\ Nesting[k] < Nesting[c]
        /\ Nesting[c] \in Nat /\ Nesting[c] # 0
    BY NestingIs
  <2>5. d + 1 \in Nat
    OBVIOUS
  <2>6. At(c, d) \in C => c.key # ""
    BY CountedAt
  <2> HIDE DEF S, C, p, s
  <2>7. CountOf(Visits[At(c, d)], C) <= Len(LeavesOf[c])
    <3>1. PICK g : /\ SumsUp(g, x, n)
                   /\ CountOf(Visits[At(c, d)], C) = (IF At(c, d) \in C THEN 1 ELSE 0) + g[n]
      <4>1. \A i \in 1 .. n : x[i] = CountOf(Visits[At(Pursued(c)[i], d + 1)], C)
        BY DEF p
      <4> HIDE DEF x, y
      <4> QED BY <2>1, <4>1, VisitsCount
    <3>2. PICK h : SumsUp(h, y, m) /\ Len(LeavesOf[c]) = (IF c.key = "" THEN 0 ELSE 1) + h[m]
      BY <2>1, LeavesSpread DEF s
    <3>3. PICK k \in Nat : k + n <= Len(s) /\ \A i \in 1 .. n : k + i \in DOMAIN s /\ p[i] = s[k + i]
      BY <2>1, PursuedIs, ZenonT(60) DEF p, s
    <3>4. DOMAIN s = 1 .. m /\ Len(s) = m
      BY <2>1, SubtreesOf, LenProperties DEF s
    <3>5. \A i \in 1 .. n : x[i] <= y[k + i]
      <4> SUFFICES ASSUME NEW i \in 1 .. n PROVE x[i] <= y[k + i]
        OBVIOUS
      <4>1. CountOf(Visits[At(p[i], d + 1)], C) <= Len(LeavesOf[p[i]])
        BY <2>2, <2>3, <2>5 DEF WalkBound, C
      <4>2. x[i] = CountOf(Visits[At(p[i], d + 1)], C)
        OBVIOUS
      <4>3. k + i \in 1 .. m /\ p[i] = s[k + i]
        BY <3>3, <3>4
      <4>4. y[k + i] = Len(LeavesOf[p[i]])
        BY <4>3
      <4> QED BY <4>1, <4>2, <4>4
    <3>6. k + n <= m
      BY <3>3, <3>4
    <3> HIDE DEF x, y
    <3>7. g[n] <= h[m]
      BY <2>2, <3>1, <3>2, <3>5, <3>6, SumsBelow
    <3>8. n \in 0 .. n /\ m \in 0 .. m
      BY <2>2
    <3>9. g[n] \in Nat /\ h[m] \in Nat
      BY <3>1, <3>2, <3>8 DEF SumsUp
    <3>10. PICK one, two : /\ one = (IF At(c, d) \in C THEN 1 ELSE 0)
                           /\ two = (IF c.key = "" THEN 0 ELSE 1)
      OBVIOUS
    <3>11. one \in Nat /\ two \in Nat /\ one <= two
      <4>1. CASE c.key = ""
        <5>1. At(c, d) \notin C
          BY <2>6, <4>1
        <5>2. one = 0 /\ two = 0
          BY <3>10, <4>1, <5>1
        <5> QED BY <5>2
      <4>2. CASE c.key # ""
        <5>1. two = 1 /\ one \in {0, 1}
          BY <3>10, <4>2
        <5> QED BY <5>1
      <4> QED BY <4>1, <4>2
    <3>12. CountOf(Visits[At(c, d)], C) = one + g[n] /\ Len(LeavesOf[c]) = two + h[m]
      BY <3>1, <3>2, <3>10
    <3> QED BY <3>7, <3>9, <3>11, <3>12
  <2>8. ASSUME NEW v \in ToSet(Visits[At(c, d)])
        PROVE  v.depth \in Nat /\ v.depth < d + Nesting[c] /\ (v \in C => v.node \in ToSet(LeavesOf[c]))
    <3>1. /\ c.key # "" => c \in ToSet(LeavesOf[c])
          /\ \A k \in NodesBelow(c) : ToSet(LeavesOf[k]) \subseteq ToSet(LeavesOf[c])
      <4>1. PICK l : l = Len(Subtrees(c))
        OBVIOUS
      <4>2. ToSet(LeavesOf[c])
              = (IF c.key = "" THEN {} ELSE {c}) \cup UNION {ToSet(LeavesOf[k]) : k \in NodesBelow(c)}
        BY <4>1, LeavesSpread
      <4> QED BY <4>2
    <3>2. CASE v = At(c, d)
      <4>1. v.depth = d /\ v.node = c
        BY <3>2 DEF At
      <4>2. d < d + Nesting[c]
        BY <2>4
      <4> QED BY <2>6, <3>1, <3>2, <4>1, <4>2
    <3>3. ASSUME NEW i \in 1 .. n, v \in ToSet(Visits[At(p[i], d + 1)])
          PROVE  v.depth \in Nat /\ v.depth < d + Nesting[c] /\ (v \in C => v.node \in ToSet(LeavesOf[c]))
      <4>1. p[i] \in NodesBelow(c)
        BY <2>2
      <4>2. /\ v.depth \in Nat /\ v.depth < (d + 1) + Nesting[p[i]]
            /\ v \in C => v.node \in ToSet(LeavesOf[p[i]])
        BY <2>3, <2>5, <3>3, <4>1 DEF WalkBound, C
      <4>3. (d + 1) + Nesting[p[i]] <= d + Nesting[c]
        BY <2>4, <4>1
      <4>4. v.depth < d + Nesting[c]
        BY <2>4, <4>1, <4>2, <4>3
      <4> QED BY <3>1, <4>1, <4>2, <4>4
    <3>4. v = At(c, d) \/ \E i \in 1 .. n : v \in ToSet(Visits[At(p[i], d + 1)])
      <4>1. ToSet(Visits[At(c, d)]) = {At(c, d)} \cup UNION {ToSet(Visits[At(p[i], d + 1)]) : i \in 1 .. n}
        BY <2>1, VisitsReach DEF p
      <4> QED BY <4>1
    <3> QED BY <3>2, <3>3, <3>4
  <2> QED BY <2>7, <2>8
<1> HIDE DEF S
<1>2. Condition \subseteq S
  BY <1>1, TreeInduction
<1> QED BY <1>2 DEF S

\* A tree without a fault has one form at every node, so that no child is passed by.
LEMMA FaultlessList ==
  ASSUME NEW out, NEW s \in Seq(Condition), FirstFault(out, s) = "ok"
  PROVE  \A i \in DOMAIN s : NodeFault(out)[s[i]] = "ok"
<1> DEFINE n == Len(s)
           faults == [i \in DOMAIN s |-> NodeFault(out)[s[i]]]
<1>1. n \in Nat /\ DOMAIN s = 1 .. n
  BY LenProperties
<1>2. DOMAIN faults = 1 .. n /\ \A i \in 1 .. n : faults[i] = NodeFault(out)[s[i]]
  BY <1>1
<1>3. FirstOf(faults) = "ok"
  BY DEF FirstFault
<1> HIDE DEF n, faults
<1>4. \A i \in 1 .. n : faults[i] = "ok"
  BY <1>1, <1>2, <1>3, FirstOfIs
<1> QED BY <1>1, <1>2, <1>4

LEMMA OneForm ==
  ASSUME NEW out, NEW c \in Condition, NodeFault(out)[c] = "ok"
  PROVE  /\ \A x, y \in Forms(c) : x = y
         /\ Forms(c) = {} \/ \E form \in {"key", "and", "or", "not"} : Forms(c) = {form}
<1>1. Forms(c) \subseteq {"key", "and", "or", "not"}
  BY DEF Forms
<1>2. IsFiniteSet({"key", "and", "or", "not"})
  <2>1. IsFiniteSet({"key"})
    BY FS_Singleton
  <2>2. IsFiniteSet({"key"} \cup {"and"})
    BY <2>1, FS_AddElement
  <2>3. IsFiniteSet(({"key"} \cup {"and"}) \cup {"or"})
    BY <2>2, FS_AddElement
  <2>4. IsFiniteSet((({"key"} \cup {"and"}) \cup {"or"}) \cup {"not"})
    BY <2>3, FS_AddElement
  <2>5. {"key", "and", "or", "not"} = (({"key"} \cup {"and"}) \cup {"or"}) \cup {"not"}
    OBVIOUS
  <2> QED BY <2>4, <2>5
<1>3. IsFiniteSet(Forms(c)) /\ Cardinality(Forms(c)) \in Nat
  BY <1>1, <1>2, FS_Subset, FS_CardinalityType
<1>4. ~(Cardinality(Forms(c)) > 1)
  BY FaultOfNode
<1>5. ASSUME NEW x \in Forms(c), NEW y \in Forms(c), x # y PROVE FALSE
  <2>1. IsFiniteSet({x}) /\ Cardinality({x}) = 1
    BY FS_Singleton
  <2>2. y \notin {x} /\ {x} \cup {y} \subseteq Forms(c)
    BY <1>5
  <2>3. Cardinality({x} \cup {y}) = 2
    <3>1. PICK s : s = {x}
      OBVIOUS
    <3>2. IsFiniteSet(s) /\ Cardinality(s) = 1 /\ y \notin s
      BY <2>1, <2>2, <3>1
    <3>3. Cardinality(s \cup {y}) = Cardinality(s) + 1
      BY <3>2, FS_AddElement
    <3> QED BY <3>1, <3>2, <3>3
  <2>4. Cardinality({x} \cup {y}) <= Cardinality(Forms(c))
    BY <1>3, <2>2, FS_Subset
  <2> QED BY <1>3, <1>4, <2>3, <2>4
<1> QED BY <1>1, <1>5

LEMMA Faultless ==
  ASSUME NEW out, NEW c \in Condition, NodeFault(out)[c] = "ok"
  PROVE  /\ Pursued(c) = Subtrees(c)
         /\ c.key # "" => Subtrees(c) = <<>>
         /\ \A k \in NodesBelow(c) : NodeFault(out)[k] = "ok"
<1>1. c.and \in Seq(Condition) /\ c.or \in Seq(Condition) /\ c.not \in Seq(Condition)
  BY ConditionAssumption
<1>2. /\ "key" \in Forms(c) <=> c.key # ""
      /\ "and" \in Forms(c) <=> c.and # <<>>
      /\ "or" \in Forms(c) <=> c.or # <<>>
      /\ "not" \in Forms(c) <=> c.not # <<>>
  BY DEF Forms
<1>3. \A s \in Seq(Condition) : s \o <<>> = s /\ <<>> \o s = s
  OBVIOUS
<1>4. <<>> \in Seq(Condition)
  OBVIOUS
<1>7. \A x, y \in Forms(c) : x = y
  BY OneForm
<1>5. Pursued(c) = Subtrees(c) /\ (c.key # "" => Subtrees(c) = <<>>)
  <2>1. CASE c.and = <<>> /\ c.or = <<>> /\ c.not = <<>>
    <3>1. Subtrees(c) = <<>>
      BY <1>3, <1>4, <2>1 DEF Subtrees
    <3> QED BY <2>1, <3>1 DEF Pursued
  <2>2. CASE c.and # <<>>
    <3>1. c.key = "" /\ c.or = <<>> /\ c.not = <<>>
      BY <1>2, <1>7, <2>2
    <3>2. Subtrees(c) = c.and
      BY <1>1, <1>3, <3>1 DEF Subtrees
    <3> QED BY <2>2, <3>1, <3>2 DEF Pursued
  <2>3. CASE c.or # <<>>
    <3>1. c.key = "" /\ c.and = <<>> /\ c.not = <<>>
      BY <1>2, <1>7, <2>3
    <3>2. Subtrees(c) = c.or
      BY <1>1, <1>3, <3>1 DEF Subtrees
    <3> QED BY <2>3, <3>1, <3>2 DEF Pursued
  <2>4. CASE c.not # <<>>
    <3>1. c.key = "" /\ c.and = <<>> /\ c.or = <<>>
      BY <1>2, <1>7, <2>4
    <3>2. c.and \o c.or = <<>>
      BY <1>3, <1>4, <3>1
    <3>3. Subtrees(c) = c.not
      BY <1>1, <1>3, <3>2 DEF Subtrees
    <3> QED BY <3>1, <3>3 DEF Pursued
  <2> QED BY <2>1, <2>2, <2>3, <2>4
<1>6. ASSUME NEW k \in NodesBelow(c) PROVE NodeFault(out)[k] = "ok"
  <2>1. PICK i \in DOMAIN Subtrees(c) : k = Subtrees(c)[i]
    BY DEF NodesBelow, ToSet
  <2>2. Subtrees(c) # <<>> /\ Subtrees(c) \in Seq(Condition)
    <3>1. Subtrees(c) \in Seq(Condition)
      BY SubtreesOf
    <3>2. PICK none : none = <<>>
      OBVIOUS
    <3>3. DOMAIN none = {}
      BY <3>2
    <3> QED BY <2>1, <3>1, <3>2, <3>3
  <2>3. c.key = ""
    BY <1>5, <2>2
  <2>4. FirstFault(out, Subtrees(c)) = "ok"
    <3>1. ASSUME NEW form \in {"and", "or", "not"}, Forms(c) = {form} PROVE Subtrees(c) = c[form]
      <4>1. CASE form = "and"
        BY <1>2, <1>5, <3>1, <4>1 DEF Pursued
      <4>2. CASE form = "or"
        BY <1>2, <1>5, <3>1, <4>2 DEF Pursued
      <4>3. CASE form = "not"
        BY <1>2, <1>5, <3>1, <4>3 DEF Pursued
      <4> QED BY <4>1, <4>2, <4>3
    <3>2. Forms(c) # {} /\ Forms(c) # {"key"}
      <4>1. Forms(c) # {"key"}
        BY <1>2, <2>3
      <4>2. Forms(c) # {}
        BY <1>2, <1>5, <2>2 DEF Pursued
      <4> QED BY <4>1, <4>2
    <3>3. PICK form \in {"and", "or", "not"} : Forms(c) = {form}
      BY <3>2, OneForm
    <3> QED BY <3>1, <3>3, FaultOfNode
  <2> QED BY <2>1, <2>2, <2>4, FaultlessList
<1> QED BY <1>5, <1>6

\* On a tree without a fault the walk counts every leaf and goes as deep as the tree.
WalkWhole(c) ==
  \A d \in Nat :
    /\ CountOf(Visits[At(c, d)], CountedVisits) = Len(LeavesOf[c])
    /\ \E v \in ToSet(Visits[At(c, d)]) : v.depth + 1 = d + Nesting[c]
    /\ \A x \in ToSet(LeavesOf[c]) : \E v \in ToSet(Visits[At(c, d)]) : v \in CountedVisits /\ v.node = x

LEMMA WalkIsWhole ==
  ASSUME NEW out
  PROVE  \A c \in Condition : NodeFault(out)[c] = "ok" => WalkWhole(c)
<1> DEFINE S == {c \in Condition : NodeFault(out)[c] = "ok" => WalkWhole(c)}
           C == CountedVisits
<1>1. ASSUME NEW c \in Condition, NodesBelow(c) \subseteq S PROVE c \in S
  <2> SUFFICES ASSUME NodeFault(out)[c] = "ok", NEW d \in Nat
               PROVE  /\ CountOf(Visits[At(c, d)], C) = Len(LeavesOf[c])
                      /\ \E v \in ToSet(Visits[At(c, d)]) : v.depth + 1 = d + Nesting[c]
                      /\ \A x \in ToSet(LeavesOf[c]) : \E v \in ToSet(Visits[At(c, d)]) : v \in C /\ v.node = x
    BY DEF WalkWhole
  <2>1. PICK n : n = Len(Subtrees(c))
    OBVIOUS
  <2> DEFINE s == Subtrees(c)
             x == [i \in 1 .. n |-> CountOf(Visits[At(s[i], d + 1)], C)]
             y == [i \in 1 .. n |-> Len(LeavesOf[s[i]])]
  <2>2. Pursued(c) = s /\ (c.key # "" => s = <<>>) /\ \A k \in NodesBelow(c) : NodeFault(out)[k] = "ok"
    BY Faultless
  <2>3. \A k \in NodesBelow(c) : WalkWhole(k)
    BY <1>1, <2>2
  <2>4. /\ n \in Nat /\ DOMAIN s = 1 .. n
        /\ \A i \in 1 .. n : s[i] \in NodesBelow(c)
        /\ \A k \in NodesBelow(c) : \E i \in 1 .. n : k = s[i]
    BY <2>1, SubtreesOf, LenProperties DEF NodesBelow, ToSet
  <2>5. d + 1 \in Nat
    OBVIOUS
  <2>6. At(c, d) \in C <=> c.key # ""
    BY <2>2, CountedAt
  <2>7. At(c, d).node = c /\ At(c, d).depth = d
    BY DEF At
  <2>8. ToSet(Visits[At(c, d)]) = {At(c, d)} \cup UNION {ToSet(Visits[At(s[i], d + 1)]) : i \in 1 .. n}
    <3>1. ToSet(Visits[At(c, d)])
            = {At(c, d)} \cup UNION {ToSet(Visits[At(Pursued(c)[i], d + 1)]) : i \in 1 .. n}
      BY <2>1, <2>2, VisitsReach
    <3> QED BY <2>2, <3>1
  <2>9. ToSet(LeavesOf[c])
          = (IF c.key = "" THEN {} ELSE {c}) \cup UNION {ToSet(LeavesOf[k]) : k \in NodesBelow(c)}
    BY <2>1, LeavesSpread
  <2> HIDE DEF S, C, s
  <2>10. CountOf(Visits[At(c, d)], C) = Len(LeavesOf[c])
    <3>1. PICK g : /\ SumsUp(g, x, n)
                   /\ CountOf(Visits[At(c, d)], C) = (IF At(c, d) \in C THEN 1 ELSE 0) + g[n]
      <4>1. \A i \in 1 .. n : x[i] = CountOf(Visits[At(Pursued(c)[i], d + 1)], C)
        BY <2>2
      <4>2. n = Len(Pursued(c))
        BY <2>1, <2>2 DEF s
      <4> HIDE DEF x, y
      <4> QED BY <4>1, <4>2, VisitsCount
    <3>2. PICK h : SumsUp(h, y, n) /\ Len(LeavesOf[c]) = (IF c.key = "" THEN 0 ELSE 1) + h[n]
      BY <2>1, LeavesSpread DEF s
    <3>3. \A i \in 1 .. n : x[i] = y[i]
      <4> SUFFICES ASSUME NEW i \in 1 .. n PROVE x[i] = y[i]
        OBVIOUS
      <4>1. CountOf(Visits[At(s[i], d + 1)], C) = Len(LeavesOf[s[i]])
        BY <2>3, <2>4, <2>5 DEF WalkWhole, C
      <4> QED BY <4>1
    <3> HIDE DEF x, y
    <3>4. g[n] = h[n]
      <4>1. SumsUp(g, x, n) /\ SumsUp(h, y, n) /\ n \in Nat
        BY <2>4, <3>1, <3>2
      <4> QED BY <3>3, <4>1, SumsEqual
    <3>5. PICK one, two : /\ one = (IF At(c, d) \in C THEN 1 ELSE 0)
                          /\ two = (IF c.key = "" THEN 0 ELSE 1)
      OBVIOUS
    <3>6. one = two
      BY <2>6, <3>5
    <3>7. CountOf(Visits[At(c, d)], C) = one + g[n] /\ Len(LeavesOf[c]) = two + h[n]
      BY <3>1, <3>2, <3>5
    <3> QED BY <3>4, <3>6, <3>7
  <2>11. \E v \in ToSet(Visits[At(c, d)]) : v.depth + 1 = d + Nesting[c]
    <3>1. CASE Nesting[c] = 1
      BY <2>7, <2>8, <3>1
    <3>2. ASSUME NEW k \in NodesBelow(c), Nesting[c] = 1 + Nesting[k]
          PROVE  \E v \in ToSet(Visits[At(c, d)]) : v.depth + 1 = d + Nesting[c]
      <4>1. PICK v \in ToSet(Visits[At(k, d + 1)]) : v.depth + 1 = (d + 1) + Nesting[k]
        BY <2>3, <2>5 DEF WalkWhole
      <4>2. v \in ToSet(Visits[At(c, d)])
        BY <2>4, <2>8
      <4>3. Nesting[k] \in Nat
        BY NestingIs
      <4>4. (d + 1) + Nesting[k] = d + Nesting[c]
        BY <3>2, <4>3
      <4> QED BY <4>1, <4>2, <4>4
    <3> QED BY <3>1, <3>2, NestingIs
  <2>12. ASSUME NEW z \in ToSet(LeavesOf[c])
         PROVE  \E v \in ToSet(Visits[At(c, d)]) : v \in C /\ v.node = z
    <3>1. CASE z = c /\ c.key # ""
      BY <2>6, <2>7, <2>8, <3>1
    <3>2. ASSUME NEW k \in NodesBelow(c), z \in ToSet(LeavesOf[k])
          PROVE  \E v \in ToSet(Visits[At(c, d)]) : v \in C /\ v.node = z
      <4>1. PICK v \in ToSet(Visits[At(k, d + 1)]) : v \in C /\ v.node = z
        BY <2>3, <2>5, <3>2 DEF WalkWhole, C
      <4>2. v \in ToSet(Visits[At(c, d)])
        BY <2>4, <2>8
      <4> QED BY <4>1, <4>2
    <3> QED BY <2>9, <3>1, <3>2
  <2> QED BY <2>10, <2>11, <2>12
<1> HIDE DEF S
<1>2. Condition \subseteq S
  BY <1>1, TreeInduction
<1> QED BY <1>2 DEF S

(***************************************************************************)
(* What Check walks over and what is in a filter, over a list of trees.    *)
(***************************************************************************)
LEMMA ListOfVisits ==
  ASSUME NEW conds \in Seq(Condition), NEW n, n = Len(conds)
  PROVE  /\ n \in Nat /\ DOMAIN conds = 1 .. n
         /\ Visited(conds) \in Seq(Visit)
         /\ \E g : /\ SumsUp(g, [i \in 1 .. n |-> CountOf(Visits[At(conds[i], 1)], CountedVisits)], n)
                   /\ Cardinality(CountedIn(Visited(conds))) = g[n]
         /\ ToSet(Visited(conds)) = UNION {ToSet(Visits[At(conds[i], 1)]) : i \in 1 .. n}
<1> DEFINE lists == [i \in DOMAIN conds |-> VisitsOf(conds[i])]
           W == Seq(Visit)
           x == [i \in 1 .. n |-> CountOf(Visits[At(conds[i], 1)], CountedVisits)]
<1>1. n \in Nat /\ DOMAIN conds = 1 .. n /\ \A i \in 1 .. n : conds[i] \in Condition
  BY LenProperties, ElementOfSeq
<1>2. lists = [i \in 1 .. n |-> Visits[At(conds[i], 1)]]
  BY <1>1 DEF VisitsOf, At
<1>3. \A i \in 1 .. n : Visits[At(conds[i], 1)] \in W
  BY <1>1, VisitsType
<1>4. Visited(conds) = FlattenSeq(lists)
  BY DEF Visited
<1> HIDE DEF lists, W
<1>5. lists \in [1 .. n -> W] /\ DOMAIN lists = 1 .. n /\ \A i \in 1 .. n : lists[i] = Visits[At(conds[i], 1)]
  BY <1>2, <1>3
<1>6. lists \in Seq(W) /\ n = Len(lists)
  BY <1>1, <1>5
<1>7. lists \in Seq(Seq(Visit))
  BY <1>6 DEF W
<1>8. Visited(conds) \in Seq(Visit)
  BY <1>4, <1>7, FlattenSeqType
<1>9. Counts(x, n, lists, CountedVisits)
  BY <1>5 DEF Counts
<1> HIDE DEF x
<1>10. PICK g : SumsUp(g, x, n) /\ CountOf(FlattenSeq(lists), CountedVisits) = g[n]
  BY <1>6, <1>7, <1>9, CountOfFlatten
<1>11. Cardinality(CountedIn(Visited(conds))) = g[n]
  BY <1>4, <1>8, <1>10, CountedInIs DEF CountOf
<1>12. ToSet(Visited(conds)) = UNION {ToSet(lists[i]) : i \in DOMAIN lists}
  BY <1>4, <1>7, FlattenElements
<1>13. {ToSet(lists[i]) : i \in DOMAIN lists} = {ToSet(Visits[At(conds[i], 1)]) : i \in 1 .. n}
  BY <1>5
<1> QED BY <1>1, <1>8, <1>10, <1>11, <1>12, <1>13 DEF x

LEMMA ListOfLeaves ==
  ASSUME NEW conds \in Seq(Condition), NEW n, n = Len(conds)
  PROVE  /\ AllLeaves(conds) \in Seq(Condition)
         /\ \E h : /\ SumsUp(h, [i \in 1 .. n |-> Len(LeavesOf[conds[i]])], n)
                   /\ Len(AllLeaves(conds)) = h[n]
         /\ ToSet(AllLeaves(conds)) = UNION {ToSet(LeavesOf[conds[i]]) : i \in 1 .. n}
<1> DEFINE lists == [i \in DOMAIN conds |-> LeavesOf[conds[i]]]
           W == Seq(Condition)
<1>1. n \in Nat /\ DOMAIN conds = 1 .. n /\ \A i \in 1 .. n : conds[i] \in Condition
  BY LenProperties, ElementOfSeq
<1>2. lists = [i \in 1 .. n |-> LeavesOf[conds[i]]]
  BY <1>1
<1>3. \A i \in 1 .. n : LeavesOf[conds[i]] \in W
  BY <1>1, LeavesType
<1>4. AllLeaves(conds) = FlattenSeq(lists)
  BY DEF AllLeaves
<1> HIDE DEF lists, W
<1>5. lists \in [1 .. n -> W] /\ DOMAIN lists = 1 .. n /\ \A i \in 1 .. n : lists[i] = LeavesOf[conds[i]]
  BY <1>2, <1>3
<1>6. lists \in Seq(W) /\ n = Len(lists)
  BY <1>1, <1>5
<1>7. lists \in Seq(Seq(Condition))
  BY <1>6 DEF W
<1>8. AllLeaves(conds) \in Seq(Condition)
  BY <1>4, <1>7, FlattenSeqType
<1>9. PICK h : SumsUp(h, [i \in 1 .. n |-> Len(lists[i])], n) /\ Len(FlattenSeq(lists)) = h[n]
  BY <1>6, <1>7, LenOfFlatten
<1>10. [i \in 1 .. n |-> Len(lists[i])] = [i \in 1 .. n |-> Len(LeavesOf[conds[i]])]
  BY <1>5
<1>11. ToSet(AllLeaves(conds)) = UNION {ToSet(lists[i]) : i \in DOMAIN lists}
  BY <1>4, <1>7, FlattenElements
<1>12. {ToSet(lists[i]) : i \in DOMAIN lists} = {ToSet(LeavesOf[conds[i]]) : i \in 1 .. n}
  BY <1>5
<1> QED BY <1>4, <1>8, <1>9, <1>10, <1>11, <1>12

(***************************************************************************)
(* The limits.                                                             *)
(***************************************************************************)
LEMMA ExceedsMore ==
  ASSUME NEW limit \in Int, NEW n \in Nat, NEW m \in Nat, n <= m, Exceeds(n, limit)
  PROVE  Exceeds(m, limit)
BY DEF Exceeds

\* The sums that Check and the size of the filter come down to.
LEMMA WalkOfList ==
  ASSUME NEW conds \in Seq(Condition)
  PROVE  /\ Cardinality(CountedIn(Visited(conds))) \in Nat /\ Len(AllLeaves(conds)) \in Nat
         /\ Cardinality(CountedIn(Visited(conds))) <= Len(AllLeaves(conds))
         /\ \A out : FirstFault(out, conds) = "ok"
              => Cardinality(CountedIn(Visited(conds))) = Len(AllLeaves(conds))
<1>1. PICK n : n = Len(conds)
  OBVIOUS
<1> DEFINE x == [i \in 1 .. n |-> CountOf(Visits[At(conds[i], 1)], CountedVisits)]
           y == [i \in 1 .. n |-> Len(LeavesOf[conds[i]])]
<1>2. n \in Nat /\ DOMAIN conds = 1 .. n /\ \A i \in 1 .. n : conds[i] \in Condition
  BY <1>1, LenProperties, ElementOfSeq
<1>3. PICK g : SumsUp(g, x, n) /\ Cardinality(CountedIn(Visited(conds))) = g[n]
  BY <1>1, ListOfVisits
<1>4. PICK h : SumsUp(h, y, n) /\ Len(AllLeaves(conds)) = h[n]
  BY <1>1, ListOfLeaves
<1>5. \A i \in 1 .. n : x[i] <= y[i]
  <2> SUFFICES ASSUME NEW i \in 1 .. n PROVE x[i] <= y[i]
    OBVIOUS
  <2>1. CountOf(Visits[At(conds[i], 1)], CountedVisits) <= Len(LeavesOf[conds[i]])
    BY <1>2, WalkIsBound DEF WalkBound
  <2> QED BY <2>1
<1>6. ASSUME NEW out, FirstFault(out, conds) = "ok" PROVE \A i \in 1 .. n : x[i] = y[i]
  <2> SUFFICES ASSUME NEW i \in 1 .. n PROVE x[i] = y[i]
    OBVIOUS
  <2>1. NodeFault(out)[conds[i]] = "ok"
    BY <1>2, <1>6, FaultlessList
  <2>2. WalkWhole(conds[i])
    BY <1>2, <2>1, WalkIsWhole
  <2>3. CountOf(Visits[At(conds[i], 1)], CountedVisits) = Len(LeavesOf[conds[i]])
    BY <2>2 DEF WalkWhole
  <2> QED BY <2>3
<1> HIDE DEF x, y
<1>7. SumsUp(g, x, n) /\ SumsUp(h, y, n) /\ n \in 0 .. n /\ n \in Nat
  BY <1>2, <1>3, <1>4
<1>8. g[n] \in Nat /\ h[n] \in Nat
  BY <1>7 DEF SumsUp
<1>9. g[n] <= h[n]
  <2>1. 0 \in Nat /\ 0 + n <= n /\ \A i \in 1 .. n : x[i] <= y[0 + i]
    BY <1>2, <1>5
  <2> QED BY <1>7, <2>1, SumsBelow
<1>10. ASSUME NEW out, FirstFault(out, conds) = "ok" PROVE g[n] = h[n]
  <2>1. \A i \in 1 .. n : x[i] = y[i]
    BY <1>6, <1>10
  <2> QED BY <1>7, <2>1, SumsEqual
<1> QED BY <1>3, <1>4, <1>8, <1>9, <1>10

\* What Check refuses is over a limit, or nests as deep as it may.
LEMMA RefusedIsTooComplex ==
  ASSUME NEW lim \in [depth : Int, conditions : Int, values : Int], NEW conds \in Seq(Condition),
         ~Within(lim, conds)
  PROVE  TooComplex(lim, conds) \/ AtFullDepth(lim, conds)
<1> DEFINE visits == Visited(conds)
           leaves == AllLeaves(conds)
<1>1. PICK n : n = Len(conds)
  OBVIOUS
<1>2. n \in Nat /\ DOMAIN conds = 1 .. n /\ \A i \in 1 .. n : conds[i] \in Condition
  BY <1>1, LenProperties, ElementOfSeq
<1>3. visits \in Seq(Visit) /\ ToSet(visits) = UNION {ToSet(Visits[At(conds[i], 1)]) : i \in 1 .. n}
  BY <1>1, ListOfVisits
<1>4. ToSet(leaves) = UNION {ToSet(LeavesOf[conds[i]]) : i \in 1 .. n}
  BY <1>1, ListOfLeaves
<1>5. ~FewEnough(lim, visits)
  BY DEF Within
<1>6. DOMAIN visits = 1 .. Len(visits) /\ \A i \in DOMAIN visits : visits[i] \in Visit
  BY <1>3, LenProperties, ElementOfSeq
<1> HIDE DEF visits, leaves
<1>7. lim.depth \in Int /\ lim.conditions \in Int
  OBVIOUS
<1>8. ASSUME NEW i \in DOMAIN visits
      PROVE  /\ visits[i].depth \in Nat
             /\ \E j \in 1 .. n : visits[i].depth <= Nesting[conds[j]]
             /\ i \in CountedIn(visits) => visits[i].node \in ToSet(leaves)
  <2>1. visits[i] \in ToSet(visits)
    BY DEF ToSet
  <2>2. PICK j \in 1 .. n : visits[i] \in ToSet(Visits[At(conds[j], 1)])
    BY <1>3, <2>1
  <2>3. WalkBound(conds[j]) /\ 1 \in Nat
    BY <1>2, WalkIsBound
  <2>4. /\ visits[i].depth \in Nat /\ visits[i].depth < 1 + Nesting[conds[j]]
        /\ visits[i] \in CountedVisits => visits[i].node \in ToSet(LeavesOf[conds[j]])
    BY <2>2, <2>3 DEF WalkBound
  <2>5. Nesting[conds[j]] \in Nat
    BY <1>2, NestingIs
  <2>6. visits[i].depth <= Nesting[conds[j]]
    BY <2>4, <2>5
  <2>7. i \in CountedIn(visits) => visits[i] \in CountedVisits
    BY <1>6 DEF CountedIn, CountedVisits
  <2>8. ToSet(LeavesOf[conds[j]]) \subseteq ToSet(leaves)
    BY <1>4
  <2> QED BY <2>4, <2>6, <2>7, <2>8
<1>9. CASE \E i \in DOMAIN visits : Exceeds(visits[i].depth, lim.depth)
  <2>1. PICK i \in DOMAIN visits : Exceeds(visits[i].depth, lim.depth)
    BY <1>9
  <2>2. PICK j \in 1 .. n : visits[i].depth <= Nesting[conds[j]]
    BY <1>8
  <2>3. Nesting[conds[j]] \in Nat /\ visits[i].depth \in Nat
    BY <1>2, <1>8, NestingIs
  <2>4. Exceeds(Nesting[conds[j]], lim.depth)
    BY <1>7, <2>1, <2>2, <2>3, ExceedsMore
  <2>5. Exceeds(GroupDepth(conds[j]), lim.depth) \/ (lim.depth > 0 /\ GroupDepth(conds[j]) = lim.depth)
    BY <1>7, <2>3, <2>4 DEF Exceeds, GroupDepth
  <2> QED BY <1>2, <2>5 DEF TooComplex, AtFullDepth
<1>10. CASE Exceeds(Cardinality(CountedIn(visits)), lim.conditions)
  <2>1. PICK a, b : a = Cardinality(CountedIn(visits)) /\ b = Len(leaves)
    OBVIOUS
  <2>2. a \in Nat /\ b \in Nat /\ a <= b
    BY <2>1, WalkOfList DEF visits, leaves
  <2>3. Exceeds(b, lim.conditions)
    BY <1>7, <1>10, <2>1, <2>2, ExceedsMore
  <2> QED BY <2>1, <2>3 DEF TooComplex, leaves
<1>11. ASSUME NEW i \in CountedIn(visits),
              \/ Exceeds(Len(visits[i].node.values), lim.values)
              \/ Exceeds(Len(visits[i].node.pairs), lim.values)
       PROVE  TooComplex(lim, conds)
  <2>1. visits[i].node \in ToSet(leaves)
    BY <1>8 DEF CountedIn
  <2>2. PICK j \in DOMAIN leaves : leaves[j] = visits[i].node
    BY <2>1 DEF ToSet
  <2>3. \E m \in {Len(leaves[j].values), Len(leaves[j].pairs)} : Exceeds(m, lim.values)
    BY <1>11, <2>2
  <2> QED BY <2>3 DEF TooComplex, leaves
<1> QED BY <1>5, <1>9, <1>10, <1>11 DEF FewEnough

\* What Check lets pass and the compiler accepts is within them.
LEMMA CompiledIsWithin ==
  ASSUME NEW lim \in [depth : Int, conditions : Int, values : Int], NEW conds \in Seq(Condition),
         Within(lim, conds), NEW out, FirstFault(out, conds) = "ok"
  PROVE  ~TooComplex(lim, conds)
<1> DEFINE visits == Visited(conds)
           leaves == AllLeaves(conds)
<1>1. PICK n : n = Len(conds)
  OBVIOUS
<1>2. n \in Nat /\ DOMAIN conds = 1 .. n /\ \A i \in 1 .. n : conds[i] \in Condition
  BY <1>1, LenProperties, ElementOfSeq
<1>3. visits \in Seq(Visit) /\ ToSet(visits) = UNION {ToSet(Visits[At(conds[i], 1)]) : i \in 1 .. n}
  BY <1>1, ListOfVisits
<1>4. ToSet(leaves) = UNION {ToSet(LeavesOf[conds[i]]) : i \in 1 .. n}
  BY <1>1, ListOfLeaves
<1>5. FewEnough(lim, visits)
  BY DEF Within
<1>6. \A i \in 1 .. n : WalkWhole(conds[i])
  BY <1>2, FaultlessList, WalkIsWhole
<1> HIDE DEF visits, leaves
<1>7. ASSUME NEW j \in 1 .. n PROVE ~Exceeds(GroupDepth(conds[j]), lim.depth)
  <2>1. PICK v \in ToSet(Visits[At(conds[j], 1)]) : v.depth + 1 = 1 + Nesting[conds[j]]
    BY <1>6 DEF WalkWhole
  <2>2. v.depth \in Nat
    BY <1>2, WalkIsBound DEF WalkBound
  <2>3. Nesting[conds[j]] \in Nat
    BY <1>2, NestingIs
  <2>4. v.depth = Nesting[conds[j]]
    BY <2>1, <2>2, <2>3
  <2>5. v \in ToSet(visits)
    BY <1>3
  <2>6. PICK i \in DOMAIN visits : visits[i] = v
    BY <2>5 DEF ToSet
  <2>7. ~Exceeds(Nesting[conds[j]], lim.depth)
    BY <1>5, <2>4, <2>6 DEF FewEnough
  <2>8. lim.depth \in Int
    OBVIOUS
  <2> QED BY <2>3, <2>7, <2>8 DEF Exceeds, GroupDepth
<1>8. Cardinality(CountedIn(visits)) = Len(leaves)
  BY WalkOfList DEF visits, leaves
<1>9. ASSUME NEW j \in DOMAIN leaves
      PROVE  ~Exceeds(Len(leaves[j].values), lim.values) /\ ~Exceeds(Len(leaves[j].pairs), lim.values)
  <2>1. leaves[j] \in ToSet(leaves)
    BY DEF ToSet
  <2>2. PICK i \in 1 .. n : leaves[j] \in ToSet(LeavesOf[conds[i]])
    BY <1>4, <2>1
  <2>3. PICK v \in ToSet(Visits[At(conds[i], 1)]) : v \in CountedVisits /\ v.node = leaves[j]
    <3>1. WalkWhole(conds[i]) /\ 1 \in Nat
      BY <1>6
    <3>2. \A x \in ToSet(LeavesOf[conds[i]]) :
             \E v \in ToSet(Visits[At(conds[i], 1)]) : v \in CountedVisits /\ v.node = x
      BY <3>1 DEF WalkWhole
    <3> QED BY <2>2, <3>2
  <2>4. v \in ToSet(visits)
    BY <1>3
  <2>5. PICK k \in DOMAIN visits : visits[k] = v
    BY <2>4 DEF ToSet
  <2>6. k \in CountedIn(visits)
    BY <2>3, <2>5 DEF CountedIn, CountedVisits
  <2> QED BY <1>5, <2>3, <2>5, <2>6 DEF FewEnough
<1>10. ~Exceeds(Len(leaves), lim.conditions)
  BY <1>5, <1>8 DEF FewEnough
<1> QED BY <1>2, <1>7, <1>9, <1>10 DEF TooComplex, leaves

\* Check comes first, and its verdict stands.
Checked ==
  /\ request \in Request /\ filter = request.conds
  /\ request.kind = "limits" =>
       /\ phase = "where" \/ outcome = "ok" => Within(request.limits, request.conds)
       /\ outcome = "ErrTooComplex" => ~Within(request.limits, request.conds)
       /\ outcome = "ok" => result = "ok"
  /\ phase # "done" => outcome = "running"

LEMMA NextChecked == ASSUME Checked, Recorded, [RequestNext]_<<vars, own>> PROVE Checked'
<1>1. CASE CompileWithLimits
  BY <1>1 DEF CompileWithLimits, Entering, Proceed, Answer, Finish, vars, Checked
<1>2. CASE CompileWithJoins
  BY <1>2 DEF CompileWithJoins, Entering, Proceed, vars, Checked
<1>3. CASE ValuesQuery
  BY <1>3 DEF ValuesQuery, Entering, Proceed, Answer, Finish, vars, Checked
<1>4. CASE AggregateQuery
  BY <1>4 DEF AggregateQuery, Entering, Proceed, Answer, Finish, vars, Checked
<1>5. CASE Render
  <2>1. phase = "where" /\ UNCHANGED <<request, phase, outcome>>
    BY <1>5 DEF Render, own
  <2>2. filter' = filter
    BY <1>5 DEF Render, Next, Skip, Malformed, Descend, UnknownField, BadOperator, HooksFail, OpenSearch,
                SearchColumn, RenderLeaf, Close, Return, Fail, vars
  <2>3. outcome = "running"
    BY <2>1 DEF Checked
  <2> QED BY <2>1, <2>2, <2>3 DEF Checked
<1>6. CASE RenderFails
  BY <1>6 DEF RenderFails, Answer, Finish, vars, Checked, Recorded
<1>7. CASE ReturnWhere
  BY <1>7 DEF ReturnWhere, Rendered, Answer, Finish, vars, Checked
<1>8. CASE OrderJoins
  BY <1>8 DEF OrderJoins, Rendered, Answer, Finish, vars, Checked
<1>9. CASE UNCHANGED <<vars, own>>
  BY <1>9 DEF vars, own, Checked
<1> QED BY <1>1, <1>2, <1>3, <1>4, <1>5, <1>6, <1>7, <1>8, <1>9 DEF RequestNext

\* Whatever the limits and the filter: one over a documented limit never becomes SQL,
\* also when another form of a node hides the part that takes it over, and one within
\* them is refused only if its groups nest as deep as the limit allows, which the
\* walk of Check takes for one level more (guardrails.go:5-11, 62-63).
THEOREM LimitsKept == RequestSpec => []LimitsHold
<1>1. RequestInit => Checked
  BY DEF RequestInit, Checked
<1>2. Checked /\ Recorded /\ [RequestNext]_<<vars, own>> => Checked'
  BY NextChecked
<1>3. RequestSpec => []Recorded
  BY RequestInvariant, PTL
<1>4. RequestSpec => []ReportsFirstFault
  BY RendersAsCompile, FaultsReported, PTL
<1>5. ASSUME Checked, ReportsFirstFault PROVE LimitsHold
  <2>1. SUFFICES ASSUME request.kind = "limits"
                 PROVE  /\ outcome = "ok" => ~TooComplex(request.limits, filter)
                        /\ outcome = "ErrTooComplex" =>
                             TooComplex(request.limits, filter) \/ AtFullDepth(request.limits, filter)
    BY DEF LimitsHold
  <2>2. /\ request.limits \in [depth : Int, conditions : Int, values : Int]
        /\ filter = request.conds /\ filter \in Seq(Condition)
    BY <1>5, RequestAssumption, FilterAssumption DEF Checked
  <2>3. outcome = "ErrTooComplex" => TooComplex(request.limits, filter) \/ AtFullDepth(request.limits, filter)
    BY <1>5, <2>1, <2>2, RefusedIsTooComplex DEF Checked
  <2>4. ASSUME outcome = "ok" PROVE ~TooComplex(request.limits, filter)
    <3>1. Within(request.limits, filter) /\ result = "ok"
      BY <1>5, <2>1, <2>4 DEF Checked
    <3>2. FirstFault(exclude, filter) = "ok"
      BY <1>5, <3>1 DEF ReportsFirstFault
    <3> QED BY <2>2, <3>1, <3>2, CompiledIsWithin
  <2> QED BY <2>3, <2>4
<1> QED BY <1>1, <1>2, <1>3, <1>4, <1>5, PTL DEF RequestSpec
(***************************************************************************)
(* Errors.                                                                 *)
(***************************************************************************)
LEMMA MisaskedIs ==
  /\ request.kind = "values" => (Misasked <=> request.agg.exclude \notin DOMAIN Registry)
  /\ request.kind = "aggregate" => (Misasked <=> AggregationFault(request.agg) # "ok")
  /\ request.kind \notin {"values", "aggregate"} => ~Misasked
  /\ AggregationFault(request.agg) \in {"ok", "invalid", "ErrUnknownField"}
<1>1. AggregationFault(request.agg) \in {"ok", "invalid", "ErrUnknownField"}
  BY DEF AggregationFault
<1>2. (AggregationFault(request.agg) # "ok") <=>
        \/ request.agg.func \notin AggFunc
        \/ request.agg.groupBy \notin DOMAIN Registry \cup {""}
        \/ request.agg.func # "count" /\ request.agg.metric = ""
        \/ request.agg.metric \notin DOMAIN Registry \cup {""}
        \/ request.agg.func \in {"sum", "avg"} /\ Registry[request.agg.metric].type \notin {"int", "float"}
  BY DEF AggregationFault
<1> QED BY <1>1, <1>2 DEF Misasked

\* What is known of the answer while and after it is found.
Answering ==
  /\ phase \in {"enter", "where", "done"}
  /\ phase = "enter" => result = "running" /\ args = <<>> /\ sql = <<>>
  /\ phase = "where" => ~Misasked
  /\ phase # "done" => plan = <<>> /\ outcome = "running"
  /\ outcome # "ok" => plan = <<>>
  /\ phase = "done" /\ Misasked => outcome \in {"invalid", "ErrUnknownField"} /\ args = <<>> /\ sql = <<>>
  /\ phase = "done" /\ ~Misasked =>
       \/ outcome = "ErrTooComplex"
       \/ result \notin {"running", "ok"} /\ outcome = result
       \/ result = "ok" /\ outcome \in {"ok", "undefined", "cyclic"}

\* An answer found before anything is rendered.
LEMMA AnswersAtOnce ==
  ASSUME Answering, phase = "enter", NEW what, Answer(what),
         \/ what = "ErrTooComplex" /\ ~Misasked
         \/ what \in {"invalid", "ErrUnknownField"} /\ Misasked
  PROVE  Answering'
<1>1. /\ phase' = "done" /\ outcome' = what /\ plan' = plan
      /\ args' = args /\ sql' = sql /\ request' = request
  BY DEF Answer, Finish, vars
<1>2. Misasked' = Misasked
  BY <1>1 DEF Misasked
<1> QED BY <1>1, <1>2 DEF Answering

LEMMA ProceedsAsked ==
  ASSUME Answering, phase = "enter", ~Misasked, NEW keys, NEW exprs, Proceed(keys, exprs)
  PROVE  Answering'
<1>1. /\ phase' = "where" /\ outcome' = outcome /\ plan' = plan /\ request' = request
  BY DEF Proceed
<1>2. Misasked' = Misasked
  BY <1>1 DEF Misasked
<1> QED BY <1>1, <1>2 DEF Answering

LEMMA AnswersAtEnd ==
  ASSUME Answering, phase = "where", NEW what, Finish(what), what # "ok" => plan' = plan,
         \/ result \notin {"running", "ok"} /\ what = result
         \/ result = "ok" /\ what \in {"ok", "undefined", "cyclic"}
  PROVE  Answering'
<1>1. phase' = "done" /\ outcome' = what /\ request' = request /\ result' = result
  BY DEF Finish, vars
<1>2. Misasked' = Misasked
  BY <1>1 DEF Misasked
<1> QED BY <1>1, <1>2 DEF Answering

LEMMA NextAnswering == ASSUME Answering, [RequestNext]_<<vars, own>> PROVE Answering'
<1>1. CASE CompileWithJoins
  <2>1. phase = "enter" /\ request.kind = "where" /\ Proceed({}, <<>>)
    BY <1>1 DEF CompileWithJoins, Entering
  <2> QED BY <2>1, MisaskedIs, ProceedsAsked
<1>2. CASE CompileWithLimits
  <2>1. /\ phase = "enter" /\ request.kind = "limits"
        /\ Proceed({}, <<>>) \/ Answer("ErrTooComplex")
    BY <1>2 DEF CompileWithLimits, Entering
  <2> QED BY <2>1, MisaskedIs, ProceedsAsked, AnswersAtOnce
<1>3. CASE ValuesQuery
  <2>1. phase = "enter" /\ request.kind = "values"
    BY <1>3 DEF ValuesQuery, Entering
  <2>2. CASE request.agg.exclude \in DOMAIN Registry
    <3>1. PICK keys, exprs : Proceed(keys, exprs)
      BY <1>3, <2>2 DEF ValuesQuery
    <3> QED BY <2>1, <2>2, <3>1, MisaskedIs, ProceedsAsked
  <2>3. CASE request.agg.exclude \notin DOMAIN Registry
    <3>1. Answer("ErrUnknownField")
      BY <1>3, <2>3 DEF ValuesQuery
    <3> QED BY <2>1, <2>3, <3>1, MisaskedIs, AnswersAtOnce
  <2> QED BY <2>2, <2>3
<1>4. CASE AggregateQuery
  <2>1. phase = "enter" /\ request.kind = "aggregate"
    BY <1>4 DEF AggregateQuery, Entering
  <2>2. CASE AggregationFault(request.agg) = "ok"
    <3>1. PICK keys, exprs : Proceed(keys, exprs)
      BY <1>4, <2>2 DEF AggregateQuery
    <3> QED BY <2>1, <2>2, <3>1, MisaskedIs, ProceedsAsked
  <2>3. CASE AggregationFault(request.agg) # "ok"
    <3>1. Answer(AggregationFault(request.agg))
      BY <1>4, <2>3 DEF AggregateQuery
    <3> QED BY <2>1, <2>3, <3>1, MisaskedIs, AnswersAtOnce
  <2> QED BY <2>2, <2>3
<1>5. CASE Render
  <2>1. phase = "where" /\ UNCHANGED <<request, phase, plan, outcome>>
    BY <1>5 DEF Render, own
  <2>2. Misasked' = Misasked
    BY <2>1 DEF Misasked
  <2> QED BY <2>1, <2>2 DEF Answering
<1>6. CASE RenderFails
  <2>1. phase = "where" /\ result \notin {"running", "ok"} /\ Finish(result) /\ plan' = plan
    BY <1>6 DEF RenderFails, Answer
  <2> QED BY <2>1, AnswersAtEnd
<1>7. CASE ReturnWhere
  <2>1. phase = "where" /\ result = "ok" /\ Finish("ok")
    BY <1>7 DEF ReturnWhere, Rendered, Answer
  <2> QED BY <2>1, AnswersAtEnd
<1>8. CASE OrderJoins
  <2>1. /\ phase = "where" /\ result = "ok"
        /\ \/ Finish("ok")
           \/ Answer("undefined")
           \/ Answer("cyclic")
    BY <1>8 DEF OrderJoins, Rendered
  <2> QED BY <2>1, AnswersAtEnd DEF Answer
<1>9. CASE UNCHANGED <<vars, own>>
  <2>1. UNCHANGED <<request, phase, plan, outcome, result, args, sql>>
    BY <1>9 DEF vars, own
  <2>2. Misasked' = Misasked
    BY <2>1 DEF Misasked
  <2> QED BY <2>1, <2>2 DEF Answering
<1> QED BY <1>1, <1>2, <1>3, <1>4, <1>5, <1>6, <1>7, <1>8, <1>9 DEF RequestNext

\* Whatever is asked, what fails first is the answer and comes alone: the request
\* itself before its filter, the filter before the joins, and no error with a plan
\* (projection.go:51-75, joins.go:28-38, aggregate.go:59-125).
THEOREM FirstErrorIsAnswer == RequestSpec => []FirstErrorAnswers
<1>1. RequestInit => Answering
  BY DEF RequestInit, Init, Answering
<1>2. Answering /\ [RequestNext]_<<vars, own>> => Answering'
  BY NextAnswering
<1>3. RequestSpec => []ReportsFirstFault
  BY RendersAsCompile, FaultsReported, PTL
<1>4. ASSUME Answering, ReportsFirstFault PROVE FirstErrorAnswers
  <2>1. PICK fault : fault = FirstFault(exclude, filter)
    OBVIOUS
  <2>2. result # "running" => result = fault
    BY <1>4, <2>1 DEF ReportsFirstFault
  <2> QED BY <1>4, <2>1, <2>2 DEF Answering, FirstErrorAnswers
<1> QED BY <1>1, <1>2, <1>3, <1>4, PTL DEF RequestSpec
=============================================================================
