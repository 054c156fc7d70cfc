# filtersql: a verification development

filtersql compiles structured filters, sent by clients as JSON, to SQL `WHERE`
fragments with bound arguments, for four databases, against a registry that
says which fields exist and which operators each accepts. It orders the JOINs
the filters need, pages, counts and aggregates. This directory holds TLA+
modules that model its core, the TLC configurations that check them, and proofs
checked by TLAPS. Paths below are relative to the repository root.

Run TLC with `tlc -config <cfg> <module>`, the proofs with `tlapm <module>.tla`.

## 1. The system

| Component | Source | State it keeps | Operations |
|---|---|---|---|
| Filter compiler | `compile.go`, `registry.go`, `errors.go` | `Query`: arguments, joins recorded, excluded field; the Go call stack | `Compile`, `CompileExcluding`; inside, `renderTop`, `renderCond`, `renderGroup`, `renderLeaf`, `resolveSearch`, `resolve*` |
| Types, coercion, hooks | `types.go`, `coerce.go`, `validators.go` | none | operator table and gate, `toString`, `toFloat`, `toBool`, `first`, `applyHooks` |
| Dialects | `dialect.go`, `dialects/*.go` | none; they bind through `Query.Arg` | `Placeholder`, `Like`, `ArrayContains`, `MapHasKeys`, `MapHasKeyValues`, `ScalarIn`, `RelativeTime`, `Aggregate`, `OrderTerm` |
| Join ordering | `joins.go` | the search: state of every key, emitted joins | `orderJoins`, `CompileWithJoins` |
| Builder and HAVING | `builder.go`, `having.go` | one `Query` shared by several fragments | `Arg`, `Where`, `WhereExcluding`, `Keyset`, `Having`, `OrderBy`, `Limit`, `CompileWhereHaving` |
| Guardrails | `guardrails.go` | a leaf counter during the walk | `Limits.Check`, `CompileWithLimits` |
| Facets, aggregation | `projection.go`, `aggregate.go` | none | `Project`, `ValuesQuery`, `AggregateQuery`, `FacetCounts` |
| Sorting, paging | `order.go`, `pagination.go` | the cursor, held by the client between calls | `OrderBy`, `KeysetWhere`, `EncodeCursor`, `DecodeCursor`, `LimitOffset` |
| Typed queries | `bind/typed.go` | the query under construction; columns and field paths per row type | `For`, `Where`, `Sort`, `After`, `Limit`, `All`, `Count`, `ScanAll` |
| Registry validation | `validate.go` | none | `Validate` |
| Registry from struct tags | `bind/fromstruct.go` | none | `FromStruct` |
| Schema endpoint | `registry.go` | none | `Schema` |
| Cookbook, example | `cookbook/`, `example/` | an in-memory database | HTTP handlers around the library |

How they interact. A caller passes a filter tree to the registry. The compiler
walks it depth first; at a leaf it passes the gates (known key, allowed
operator, hooks), coerces the values and asks the dialect for text; the dialect
calls back into the `Query` to bind arguments, which numbers them. Text goes
back up the call stack and is joined and parenthesized; arguments stay in the
`Query`, in the order in which they were bound, also when a later step fails.
The joins a leaf's field needs are recorded beside. `CompileWithJoins` and the
facet queries then give the recorded joins to `orderJoins`. The builder runs
the same compiler several times over one `Query`. The typed queries drive the
builder, run the statement, and turn the last row into a cursor which comes
back with the next request.

Everything in one call is sequential Go on one goroutine over values of its
own; a registry is read only. What is concurrent is the database between two
calls of a paging client. What makes the code hard is therefore not threads but
*text and arguments that travel on different ways*, *recursion over trees and
graphs of any shape*, *nine types times twenty-four operators times four
databases*, and *errors half way*.

What each component owes its callers:

* compiler - the text asks of every row what the filter asks; placeholders and
  arguments agree in number and order; the joins reported are those of the
  columns mentioned; a fault anywhere is reported, the first one, and nothing
  else is; compilation ends;
* types and hooks - a value is bound as its type demands or refused; hooks see
  it first;
* dialects - the four texts for one operator mean the same;
* join ordering - what is required comes first, everything reachable is there
  and nothing else, errors are real, the search ends;
* builder - fragments rendered in textual order have arguments in that order;
  the exclusion of one fragment does not leak into the next;
* guardrails - what passes the limits really is within them;
* facets - the joins cover the projection and the surviving filters;
* paging - a walk over the pages meets every row that was there throughout
  exactly once, and ends;
* validation - what passes it never fails in `orderJoins`;
* struct tags - the registry has what the tags declare and nothing else, faults
  are reported at the start, and the column of a value is the field that says so.

## 2. The modules

| Module | Models | Extends / instantiates |
|---|---|---|
| `JoinPlan` | what `orderJoins` promises: one step from the inputs to a plan or an error | |
| `JoinOrder` | `orderJoins`, `joins.go:44-93`, call by call | `INSTANCE JoinPlan` |
| `JoinOrderProofs` | theorems about `JoinOrder` | `JoinOrder` |
| `FilterTypes` | `types.go`, `coerce.go`, `validators.go`, the gates of `registry.go` | |
| `Dialects` | the renderers of the four dialects, `Query.Arg` | `FilterTypes` |
| `Resolve` | `resolve*` of `compile.go`: one operator on one column | `Dialects` |
| `Compile` | the recursion of `compile.go` as a state machine | `Resolve` |
| `SqlMeaning` | the databases (external): three-valued logic, precedence, the predicates the dialects emit | `Compile` |
| `FilterFaults` | what is wrong with a filter, from the operators' documentation | `Compile` |
| `FilterMeaning` | what a filter asks of a row, likewise; what that presupposes of the databases | `SqlMeaning`, `FilterFaults` |
| `SequenceLemmas` | facts about sequences and recursion | |
| `CompileProofs` | what every renderer shows and reads; theorems about `Compile` | `FilterFaults`, the lemmas |
| `MeaningProofs` | that the compiled text means what the filter asks | `CompileProofs`, `FilterMeaning` |
| `Builder` | `builder.go`, `having.go`, the text of `keysetInto`: several fragments over one `Query` | `Compile`, `INSTANCE SortOrder` |
| `BuilderMeaning` | what such a statement means to a database | `Builder`, `FilterMeaning` |
| `BuilderProofs` | theorems about `Builder` | `BuilderMeaning`, `MeaningProofs` |
| `Requests` | `CompileWithJoins`, `guardrails.go`, `projection.go`, `aggregate.go`, `validate.go`: one call from its arguments to its answer | `FilterFaults`, `INSTANCE JoinPlan` |
| `RequestProofs` | theorems about `Requests` | `Requests`, `MeaningProofs` |
| `SortOrder` | `order.go`, `OrderTerm`, `keysetInto` as a predicate, and the order a database makes of them | |
| `PageScan` | what paging promises: one scan of a table in order while others write | `SortOrder` |
| `Paging` | `TypedSelect.All` and `Count`, the cursors, the client that walks, the other clients | `SortOrder` |
| `PagingContract` | the contract of the keyset method, and the properties under it | `Paging`, `INSTANCE PageScan` |
| `PagingProofs` | theorems about `Paging` under the contract | `PagingContract` |
| `StructTags` | `bind/fromstruct.go`, `For`, `infoFor` and `scanRows` of `bind/typed.go` | |
| `StructMeaning` | what the tags of a type say | `StructTags` |
| `StructProofs` | theorems about `StructTags` | `StructMeaning`, the lemmas |
| `MCJoinOrder`, `MCFilters`, `MCValues`, `MCTrees`, `MCOperators`, `MCPromises`, `MCBuilder`, `MCPaging`, `MCSorts`, `MCStructs` | instances for TLC | |

### Join ordering

`JoinOrder` has the variables of the Go function: `state`, `order`, and a stack
of frames for the active calls of the closure `dfs`, each with the `Requires`
its loop has still to visit; `todo` is the loop over the needed keys. A key is a
number, its rank among the key strings, so that `sort.Strings` is `<=` on them.
`AlreadyDone`, `CycleFound`, `UndefinedFound`, `Enter` are the four ways a call
of `dfs` can begin; `Leave` is its end; `Return` is the end of `orderJoins`. A
definition's `Requires` is a set: the sorted copy that the code loops over with
duplicates visits a duplicate a second time when it is already done, which
changes nothing.

`JoinPlan` says the same without an algorithm: a plan is a sequence of exactly
the reachable keys, each once, each after what it requires; an error needs the
fault it names in the reachable graph. A cycle is a *knot*, a set of keys each
of which requires one of the set, which needs no paths and no recursion.

### The compiler

A call of the Go code is a record on `stack`: its form (`top`, `and`, `or`,
`not`, `search`), the node it renders, the children (`rest`) or the columns
(`cols`) still to visit, the text so far, and how many non-empty parts are in it
(`live`). `from` is auxiliary: how many arguments were bound when it began.
Each action is one child of the innermost call or one return:

| Action | Code |
|---|---|
| `Skip` | empty nodes, leaves without operator or of the excluded field |
| `Malformed` | a node with more than one form |
| `Descend` | `renderGroup`, the negation of `renderCond` |
| `UnknownField`, `BadOperator`, `HooksFail` | the gates of `renderLeaf` |
| `RenderLeaf` | `resolve`, the arguments, the joins |
| `OpenSearch`, `SearchColumn` | `resolveSearch` |
| `Close`, `Return` | a nested call returns; `renderTop` returns |

SQL text is a sequence of tokens: connectives, parentheses and whole
predicates. A predicate token has its relation, its column, what it inlines and
*the numbers of the placeholders it shows, in textual order*. A Postgres
placeholder prints its number, the others print `?`. Arguments are tagged with
how the driver sends them: a string, a number, one list, a JSON path, an escaped
needle.

A client value is tagged with its Go kind, since the coercions branch on it.
Strings are opaque; the constants `Lower`, `TrimSpace`, `ParseFloat`,
`FormatNumber`, `ParseInterval` stand for what the standard library (or
`parseInterval`) computes from them. A transform is a partial function, a
validator a set.

`SqlMeaning` is an evaluator of bound text on a row. It is written from the
databases' rules and not from filtersql: `NOT` before `AND` before `OR`, NULL
makes a comparison unknown, `json_each` yields nothing for NULL, MySQL compares
a lower-cased column with the needle it is given. `FilterMeaning` is written
from the documentation of the operators. `MeansTheFilter` compares the two on
every row. Both are recursive functions, on texts and on trees, so that they can be
reasoned about.

### The builder

`Builder` runs the machine of `Compile` once for each fragment, over the shared
`args` and `exclude`. The caller is part of the model: it asks for fragments in
any order that keeps `WHERE` before `HAVING`, leaves out one that failed, and
joins those that came out by `AND` (`Glue`), as the README of the library shows.
`Arg`, `Where`, `WhereExcluding`, `Keyset`, `Having` and `WhereAndHaving` begin
a fragment; `Render` is a step of the compiler; `Rendered` puts the text where
it belongs; `Restore` is the part of `WhereExcluding` after the rendering, which
runs also when it failed; `Fails` gives up the text of that fragment, and of a
`CompileWhereHaving` that fails in its second half also that of the first.
`saved` is the local variable of that name, `asked` the record of what came out.
A seek predicate is written over what its sorts select (`SelectExpr`): a row has a
cell for a `ValueExpr` as it has one for a column, and the order of the statement is
by those cells. `OrderBy` and `Limit` bind nothing and change nothing.

### Requests

A request is one call: its kind, the filter, the join definitions, limits, the
aggregation. `phase` goes from the look at the request (`CompileWithJoins`,
`CompileWithLimits`, `ValuesQuery`, `AggregateQuery`) through the rendering of the
filter to the answer; `needed` is the map of join keys that is filled on the
way, `plan` the joins emitted, `outcome` the answer or its error. Ordering the
joins is one step, to any plan that `JoinPlan` allows, because `JoinOrder`
implements it: the composition rests on that theorem. `FacetCounts` is an
aggregation with a fixed form. `Visits` are the nodes the walk of `Limits.Check`
comes to, with their depth, and `CountedIn` those its one counter counts;
`TooComplex` is what `guardrails.go:5-11` says of a filter, where depth is that of
the groups (`GroupDepth`).
`Validates` is what `Validate` accepts.

### Paging

The state is the client's (`token`, `met`), the database's (`table`) and the
call's (`fetched`). A call is two steps, `Query` and `Deliver`, and the other
clients may write between them as between two calls; a statement reads one
snapshot. A database may return any sequence that `ORDER BY` and `LIMIT` allow
(`Answers`). `Count` is a statement of its own. A cursor goes through JSON:
`Float64` is what comes back of an integer. `Refuse` is a sort or cursor that
`keysetInto` or `OrderBy` reports.

`PageScan` is one scan of a table in order: it reads what comes next, all of it
up to the last row it takes, and ends only with nothing left. In the refinement
the scan has read a page when the statement has; the delivery is a stutter.
`Contract` says when the implementation holds: the sort keys are known, no row
leaves them NULL, two rows differ in one of them, and - which the library's
documentation does not say - a value survives a float64 and the sort expression
is the column. Requests that break the contract are in the instances too; of
them only what does not rest on it is claimed.

### Struct tags

`FromStruct` and `infoFor` are two recursive walks over a type, with different
rules; `StructTags` runs them one after the other over one stack of calls
(`type`, `next` field, path `at`) and then scans a row. A type is a sequence of
fields with what reflection sees: embedded or not, pointers, exported, Go kind,
the parsed tags; the row type may be a pointer to a struct, which `For` takes and
a scan then panics on. A panic is a phase. What embeds what is well-founded
(`DeclaredBefore`): Go excludes a type that embeds itself by value, and one that
embeds a pointer to itself, which Go allows, is outside the model.

## 3. The runs

| Run | Module, cfg | Asks | Size |
|---|---|---|---|
| `join_order` | `MCJoinOrder`, `JoinOrder.cfg` | on every graph over three keys - undefined keys, cycles, self-loops and diamonds among them - and every set of needed keys: is it a dependency order of exactly the reachable joins, or a deserved error; does it end? | 20,639 states |
| `trees` | `MCTrees`, `Trees.cfg` | every kind of request over trees of depth three: grouping, parentheses, first error, joins, placeholders, limits, join ordering, which error answers, the end | 65,572 states, about 2 min |
| `operators` | `MCOperators`, `Operators.cfg` | every operator of every type in the four dialects, alone, negated and under `or`; malformed nodes and unknown fields | 430,444 states, 1-2 min |
| `builder` | `MCBuilder`, `Builder.cfg` | statements of three fragments over one `Query`, failing ones among them | 250,952 states, 1 min |
| `paging` | `MCPaging`, `Paging.cfg` | a walk over the pages while others insert, delete and update; sorts with NULL in four dialects; refusals | 293,524 states, 2 min |
| `structs` | `MCStructs`, `Structs.cfg` | every struct type of one or two fields out of 29, ten of them embedded structs: registry, columns, scanning | 17,690 states |

and six that check one sentence of the documentation each and find it violated
(section 6).

**Properties of `join_order`.** `EmittedInOrder`: at every moment, also before an
error, what is emitted stands after what it requires, once. `OnlyReachable`:
nothing is visited that the needed keys do not reach. `ImplementsPlan`: the
refinement of `JoinPlan`. `Terminates`.

**Properties of `trees` and `operators`.** `MeansTheFilter`: text and arguments,
put together the way the driver does it, are true, false, unknown or absent on a
row exactly where the filter is. `ReportsFirstFault`: the outcome is the first
fault in reading order, or "ok" if there is none; an excluded field, a sibling
or a group hides and adds nothing. `JoinsOfMentionedColumns`: the joins reported
are those of the fields whose columns the text mentions, no more and no less.
`PlaceholdersInOrder`: the text shows the arguments `1 .. Len(args)`, once each,
in that order. In `trees` also, of the whole request: `JoinsServeTheStatement`,
the joins emitted are a dependency order of what the projection, the metric and
the filters that came out need, and of nothing else; `LimitsHold`, no filter
over a documented limit becomes SQL, also where the walk of `Check` and the
compiler's differ, and one within the limits is refused for them only if its groups
nest exactly as deep as they may, which is where the code is stricter than its
documentation (section 6); `ValidatedNeverFailsOnJoins`; `FirstErrorAnswers`, the
request is answered by what fails first - the projection or aggregation, the guard,
the first fault of the filter, the joins, in this order - and by nothing beside;
`Answered`, every request comes to an answer. `MeansTheFilter` reads a pair with
several values as the choice `registry.go:171` documents; the dialects demand all of
them, and the instances keep to filters and rows for which that is the same
(section 6).

**Properties of `builder`.** `StatementInOrder`: the whole statement shows the
arguments of the shared `Query`, one each, in order, if no fragment failed.
`WhereMeansItsParts`: the rows selected are those that every part selects - its
own filter without what it excludes itself, its own cursor, its own value -
whatever was rendered or failed before it. With numbered placeholders this holds
also after a failure: the arguments of the dropped fragment stay behind, but
nobody shows them. `HavingApart`: nothing but aggregates in `HAVING`, and none in
the `WHERE` of `CompileWhereHaving`, at any depth. `Builder.Where` does not look at
the kind of a field, and nothing is said of it.

**Properties of `paging`.** `MetInOrder`: the pages together are strictly in
order, so nothing comes twice, also a row that is written to. `NothingSkipped`:
a row that was there throughout is in a page or still ahead. `CountAgrees`: if
nobody writes, the pages hold as many rows as `Count` says. `ImplementsScan`: the
refinement of `PageScan`. `NullsWhereAsked`: NULL stands first or last as asked,
in every dialect. `WalkEnds`: every walk ends, whatever others write, since a
table has only so many rows to put ahead of it. Between `Count` and a page others
may write, and then the two need not agree (`bind/typed.go:295`): `CountAgrees` says
nothing of such a walk.

**Properties of `structs`.** `FirstTagFault`: the error is that of the first tag
at fault, a key that comes twice through embedding included, and there is none
otherwise. `RegistryOfTheTags`: the registry has exactly what the tags declare,
whatever the order of the options. Both speak of types that embed no struct with the
tag `"-"` (`NoBaseIsSkipped`): the comment at `fromstruct.go:26` has such a field
skipped, and the code enters it (section 6). `CursorKeysAreRead`: on a type with both
kinds of tags, a sort key whose field is a column is read into the row, so that
a page has a cursor; embedded times are the exception (section 6).
`RowFitsTags`: every column is scanned into a field that carries its name, at
any depth of embedding. `Started`.

**Bounds.** The join graph over three keys has every shape a search can meet
locally: a key already done, on the path, new, undefined; two paths to one key;
a cycle behind a finished branch. The proofs remove the bound. In `trees` the
leaves are chosen for what they do to the text around them - one predicate,
several joined by `AND`, several joined by `OR`, none, an error - so depth three
of groups of two meets every pair of parent and child forms, with an empty,
single or multiple child in every place; top-level lists have one or two members
because `renderTop` treats them by the same loop as a group. Of the deepest
groups those of two groups are restricted to three fields. The requests have four
join keys in five graphs: a chain, a cycle, a chain that ends in an undefined key, a
key undefined that a field needs, none at all; the limits lie on both sides of
what the trees reach. In `operators` every type is there, each with the operators
of its type, the null tests and two operators it may not accept; values of every
Go kind, numeric strings, padded strings, mixed case, lists of zero to three;
rows vary one column at a time since a leaf reads one (a search field two).

`Calls = 3` fragments meet every pair of neighbours after every first one, and
a failure before, between and after; the theorem removes the bound. Seek
predicates have up to three sorts. In `paging` three identifiers, each with two
versions, make every position relative to a cursor: before it, at it, after it,
moved over it, gone. `MaxMet` bounds the pages so that a faulty walk that never
ends has finitely many states; the code's walk never comes to it (with a larger
value the state space is the same). `Mantissa` is 4 where float64 has 2^53: the
rounding rule is the same. Page sizes 0, 1 and 2 make pages that are short, full
and one over. Two fields per struct, of which either may be embedded two deep,
meet every order of plain, embedded, faulty and repeated.

**What the instances keep out**, because the databases themselves decide or
refuse it and no document of the repository says what is meant: timestamps that
are no timestamps (bound as they come, refused by the database); NULL in array
and map columns; a negated key-value test on a row without the key, which is
unknown in Postgres and MySQL and true in SQLite and ClickHouse. A struct that
embeds a pointer to itself makes both walks of `StructTags` recurse without end
and is excluded by an assumption.

And what the code does otherwise than a document says, where the property is of
everything else: a map that holds one of several different values asked of one of
its keys (`ValuesAgree`; `several_values` asks it), a key-value test all of whose
pairs are empty, one value given twice to `_contains` in SQLite (`repeated_values`
asks it), and an embedded struct tagged `filter:"-"`.

**Fairness.** `JoinOrder!FairSpec`, `Requests!FairRequestSpec` and
`StructTags!FairSpec` have weak fairness of the next-state relation (in the last
up to the point where the program is ready; whether a row is ever scanned is the
caller's business): one goroutine in straight-line code takes its next step, and
nothing stronger is used. `Paging!FairSpec` has weak fairness of `Walk` alone,
the calls of the paging client: it goes on asking while it has a cursor. Nobody
has to write, to stop writing, or to count. The specifications stop when the
function has returned or the walk is over, so `CHECK_DEADLOCK` is off in every
configuration.

**The faulty operators.** `LeavePrepends`, `ReturnedBare`, `RestoreOnSuccess`,
`FetchPageOnly` and the like stand beside the definition they are a plausible
mistake of. No action uses them; substituted for the definition, each makes a
property fail, which shows that the property can.

## 4. The proofs

Everything below holds for every value of the constants that satisfies the
assumptions named in the modules: `KeyAssumption` (keys are numbers),
`TargetAssumption`, `ConditionAssumption`, `FilterAssumption`,
`RegistryAssumption` (the shapes Go's types guarantee), `IntervalAssumption` (what
`parseInterval` lets through), `TreesAreFinite` (a value
decoded from JSON nests finitely deep), `CallsAssumption` and `SeekAssumption` of
the builder, `JoinsAssumption` and `RequestAssumption` of requests,
`NullAssumption`, `RequestAssumption` and `FiniteRows` of paging,
`StructAssumption` and `DeclaredBefore` of the struct tags. TLC evaluates them in
the runs.

Some theorems have hypotheses besides. "The joins reported are *exactly* those
of the columns in the text" presupposes that a column tells which joins it needs
(`ColumnsTellJoins`; an expression, `ExprsTellJoins`): if two fields share a column
and differ in their joins, the text does not say which was meant. It presupposes
also that what was rendered mentions its column at all, which a `NOT ()` does not
(`AllSaySomething`, section 6). "No aggregate in WHERE", said of columns,
presupposes that no column belongs to a field of each kind (`HavingColumnsApart`).
A registry breaks these only by declaring one column twice. `MCTrees!JoinsAreTold`
and `MCBuilder!ColumnsApart` have TLC evaluate them on the registries of the runs.
Without any hypothesis it holds that no join is missing (`JoinsSuffice`) and that
`HAVING` reads columns of aggregates only (`HavingReadsAggregates`).

"The text means what the filter asks" presupposes that the filters ask nothing that
the databases decide each in its own way or refuse (`AllDecided`, of every leaf that
could be compiled): the cells of a column are of its field's type or NULL; a string
compared with a timestamp spells one; in SQLite no array or map is NULL, and no value
is given twice to `_contains`; in Postgres and MySQL a map has the keys whose values
are asked for; no map holds one of several different values asked of one key
(`ValuesAgree`); and a key-value test lists a value (`SaysSomething`). These are what
section 3 says the instances keep out, and three of them are in section 6: without
them the statement is false, and `repeated_values` and `several_values` show two
ways. So of a pair with several different values the theorem says only what becomes
of rows that hold none of them. Of a statement the same is presupposed of the values and
cursors that the client compares itself (`FragmentsDecided`): they are of the kind of
the column or expression they are compared with. "The registry is what the tags
declare" presupposes that no embedded struct has the tag `"-"` (`NoBaseIsSkipped`,
evaluated in `MCStructs`). `MCTrees`, `MCOperators` and `MCBuilder` have TLC
evaluate the hypotheses on their filters and rows.

| Theorem | States |
|---|---|
| `JoinOrderProofs!TypeCorrect` | `Spec => []TypeOK` |
| `JoinOrderProofs!ReachableOnly` | `Spec => []OnlyReachable` |
| `JoinOrderProofs!InOrderAlways` | `Spec => []EmittedInOrder` |
| `JoinOrderProofs!Implementation` | `Spec => ImplementsPlan` |
| `CompileProofs!PlaceholdersCorrect` | `Spec => []PlaceholdersInOrder` |
| `CompileProofs!JoinsSuffice` | `Spec => []NoJoinMissing` |
| `CompileProofs!JoinsExact` | `Spec => []JoinsOfMentionedColumns`, under its hypotheses |
| `CompileProofs!FaultsReported` | `Spec => []ReportsFirstFault` |
| `CompileProofs!CompilerIsTyped` | `Spec => []TypeOK` |
| `MeaningProofs!FilterIsMeant` | `Spec => []MeansTheFilter`, under its hypothesis |
| `BuilderProofs!PartsAreMeant` | `BuilderSpec => []WhereMeansItsParts`, under its hypothesis |
| `BuilderProofs!StatementsInOrder` | `BuilderSpec => []StatementInOrder` |
| `BuilderProofs!HavingReadsAggregates` | `BuilderSpec => []AggregatesInHaving` |
| `BuilderProofs!AggregatesApart` | `BuilderSpec => []HavingApart`, under its hypothesis |
| `RequestProofs!RendersAsCompile` | `RequestSpec => Spec`: a request renders its filter as `Compile` does |
| `RequestProofs!RequestPlaceholders` | `RequestSpec => []PlaceholdersInOrder` |
| `RequestProofs!RequestMeansItsFilter` | `RequestSpec => []MeansTheFilter`, under its hypothesis |
| `RequestProofs!ValidatedRegistry` | `RequestSpec => []ValidatedNeverFailsOnJoins` |
| `RequestProofs!JoinsServe` | `RequestSpec => []JoinsServeTheStatement`, under its hypotheses |
| `RequestProofs!LimitsKept` | `RequestSpec => []LimitsHold` |
| `RequestProofs!FirstErrorIsAnswer` | `RequestSpec => []FirstErrorAnswers` |
| `PagingProofs!PagesInOrder` | `Spec => []MetInOrder` |
| `PagingProofs!NoRowSkipped` | `Spec => []NothingSkipped` |
| `PagingProofs!Implementation` | `Spec => ImplementsScan` |
| `PagingProofs!WalkIsTyped` | `Spec => []TypeOK` |
| `PagingProofs!NullsInPlace` | `Spec => []NullsWhereAsked` |
| `PagingProofs!CountIsRight` | `Spec => []CountAgrees` |
| `StructProofs!FirstFaultReported` | `Spec => []FirstTagFault`, under its hypothesis |
| `StructProofs!RegistryComplete` | `Spec => []RegistryOfTheTags`, under its hypothesis |
| `StructProofs!CursorKeysRead` | `Spec => []CursorKeysAreRead` |
| `StructProofs!RowFits` | `Spec => []RowFitsTags` |

**`orderJoins`.** None of the properties is inductive. The invariant `Search`
adds what the search knows: the calls on the stack form a path, each entered
from the loop of the one before (`Path`); the keys marked "visiting" are exactly
those on the stack, once each (`Visiting`); what a call requires is done, or
still to be visited, or the call inside it (`Progress`); `order` holds exactly
the keys that are done (`Emitted`); and no knot lies among the done keys
(`KnotFree`). When the search ends, the done keys are the reachable ones, so a
plan excludes a cycle. That a reported cycle is real (`CycleIsReal`) is
`Path`: from the frame of the key met again to the top of the stack, each
requires the next, a knot. The refinement maps `order` to `plan` once the result
is "ok"; every other step is a stutter.

**The compiler's placeholders.** The property of the final text is proved from
one of every active call (`Rendering` in `CompileProofs`): its text shows exactly
the arguments bound from its own beginning to the beginning of the call inside
it, for the innermost to now. Ranges that touch can be put together
(`ShowsConcat`), a word shows nothing, and parentheses and `NOT` change nothing;
so a part that joins its call's text, and a call that returns to the one that
made it, keep the invariant. At the leaves, `ResolveRenders` says that whatever
the operator, the field, the values and the dialect, a text shows the arguments
bound for it, in their order: each renderer of each dialect is one predicate
over `k` arguments (`OneRenders`) or `AND`-joined predicates over groups of one
or two (`JoinedRenders`). That the arguments of a failed call stay behind is no
exception, for an error ends the compilation.

**Joins.** Every renderer reads one column, the one it is given (`Reads`), so the
text of a leaf is over the columns of its field. The invariant `Recording` names a
set of fields: the joins recorded are theirs; every column in the text of an active
call is one of theirs; and each has a column in the text of some active call other
than a search. A search is the exception since its text is only put into the
outer call's, and its joins only recorded, when its last column is done. When the
last call returns, the fields are those the text mentions.

**Faults.** The reference says of a tree what is wrong with it first, by recursion
over the node (`NodeFault`); the compiler has a stack. `Left` is the first fault in
what an active call has still to render, the call inside it not counted, and
`ComesUpon` says that the first fault of the whole filter is that of the innermost
call that has one left. A step takes one child from the innermost call, which has
a fault exactly if its gates, its hooks or its values fail (`FaultOfNode`, `Fits`):
then the compilation ends with it, or nothing was lost. That the reference is
defined on every tree is a lemma about recursion over anything that falls
(`TreeRecursion`), from the assumption that trees end.

**The compiler's types.** `TypeOK` says of a text that every token is one its dialect
writes (`Symbols`: the connectives, what all four share, and its own) over a column
of the registry. For that each renderer is typed by its dialect (`CompileProofs`),
and `Typed` says of every active call that its columns are the registry's and that
what it has still to visit is a suffix of its node's conditions. The invariant is
proved beside `Rendering`, which knows what the innermost call looks like.

**Meaning.** The proof has four parts. *Reading*: the grammar of `SqlMeaning` cuts a
text at its last `OR` outside parentheses, else at its last `AND`. A text is
`Balanced` if no prefix closes more than it opens and all of it closes what it opens;
two balanced texts joined by `OR` are worth the `Or3` of both, however many `OR` they
have themselves, since `Or3` is associative; joined by `AND` they are worth the `And3`
only if neither has an `OR` outside parentheses (`Grouped`). `Neat` is both.
*Placeholders*: a text that shows `1 .. n` in order finds the n-th argument at its
n-th place by either numbering, so what a statement is worth (`Bound`) is what the
text is worth with the arguments as the compiler numbered them (`Told`, `Worth`), and
that no later argument changes. *Operators*: for every operator, type, dialect and
cell, the renderer's predicates say of the cell what the documentation says, with
NULL, with the coerced value, and under negation; tests of several keys are `AND`-ed
texts, parenthesized where they are negated. *The tree*: the invariant `Telling` says
of every active call that its text, what the calls inside it will give, and what it
has still to visit together ask what its conditions ask (`CallTells`), where each form
combines by its own connective (`Blend`), and that the text is `Neat`, except in the
one call that is about to parenthesize it (`Composed`). `Typed`, `Rendering` and
`Reading` are the invariants it leans on. A request renders as `Compile` does, so it
inherits the theorem.

**What a statement selects.** `Meant` says of the statement so far that the rows its
`WHERE` selects are those that all recorded parts select (`Covers`), and of a fragment
in progress that the compiler's invariants hold of it (`UnderWay`), with the
exclusion it was called with: `saved` is what `WhereExcluding` puts back. A part is
true of a row or not, and `And2` of what is not an error selects what both select. For
a cursor, an alternative of the seek predicate is `AND` over equalities and one
comparison, and their `OR` is the lexicographic order that the statement sorts by
(`SeekSelects`); NULL makes a comparison unknown and selects nothing, on both sides.

**The builder.** Between two fragments the two texts together show the
arguments bound so far (`Apart`). While one is rendered they show those bound when
it began (`base`), and the compiler's invariant, which was stated for any base,
says the same of the rest; when the fragment is done, `Glue` appends one range to
the other (`Sound`). The seek predicate is proved from its two nested loops: an
alternative over `i` sorts shows `i` arguments (`AlternativeRenders`), and a chain
of alternatives puts their ranges together. Nothing is claimed after a failure:
its arguments stay in the `Query`.

**HAVING.** What `RequireKind` lets pass has only conditions on fields of one kind,
at any depth (`OfKind`, which is closed under taking children); the compiler reads
no columns but those of the conditions it is given (`Reading`, stated for any such
set of conditions). So what it renders for `HAVING` is over aggregates, and
`Separate` carries that from fragment to fragment.

**Joins of a request.** `Selected` says which fields the projection names and that
`needed` are their joins; with `Recording` for the filter, `Planned` makes the plan
a dependency order of all that these reach. It is finite because the definitions
are, so the model has a plan for it.

**Limits.** The walk of `Check` looks at one form of a node, the size of a filter
is over all of them. So the walk finds at most what is there: of every tree, no
more leaves, no deeper nodes, no other values (`WalkBound`); what it refuses is over
a limit, or deeper by the one level that a leaf counts for. The converse needs the compiler: a filter that has more than one form in
a node has a fault, and the compiler reports it (`ReportsFirstFault`); where there
is none, the walk finds all that is there (`WalkWhole`). Both are proved by induction over
the tree, a least counterexample by depth (`TreeInduction`).

**First errors.** A request that asks for what is not there ends before its filter is
looked at, so nothing is bound; from there to the end of the rendering the outcome is
the compiler's, of which `ReportsFirstFault` is proved; and only what was rendered
without an error comes to the joins. The invariant says this phase by phase.

**Validation.** A request only ever wants joins of fields of the registry:
`Recorded` for the filter, `Wants` for the projection and the metric. `Validate`
has looked at all of those at once, and what a part of the joins reaches the
whole reaches (reachability is monotone); an undefined join, or a knot,
that a request could meet, `Validate` has met.

**Paging.** `Before` is lexicographic by the direction of each key, whatever the
dialect, as long as no value is NULL (`PlainAhead`), hence a strict order, total
on rows of different identifier; and the cursor of a row, sent through JSON, seeks
exactly what comes after the row (`SeekIsAfter`). The invariant `Inv` says of
the walk: its cursor is that of the last row met (`TokenOfLast`), what it met is
in order and was sought (`MetReached`), the answer on its way holds unread rows in
order and all that stayed, up to its last one if the limit cut it off
(`AnswerHolds`), and every row that stayed has been met or lies ahead of all that
was (`StayersMet`). Writes keep it because it speaks of the rows that stayed only.
It holds under the contract; since a walk asks all its pages of one request
(`RequestStays`), the contract holds throughout or not at all. Every `Query` is
then a `Read` of the scan (`QueryReads`), a write is a write, and the rest
stutters. `NullsWhereAsked` does not rest on the contract: an answer that is sorted
by `Before` has NULL where the first term of `ORDER BY` puts it, and that term is
looked at dialect by dialect (`NullsStand`). `CountAgrees` does: as long as nobody
writes what was met is what was there (`Undisturbed`), and once the walk has ended
all of it was met, each row once, so the number of both is the same.

**Struct tags.** Both walks are proved over their stack of calls: each call is at a
field of its type or at its end, and a call inside another is for the field that
the outer one has just left (`Walking`). What a type holds is defined by recursion
over what it embeds (`Filters`) and is the concatenation of what its fields hold
(`FiltersAre`); `Cut` says where in it each field's share begins. `Reading` then
names, for every active call, where the fields of its type begin in those of the
whole type (`Placed`), so the walk has a position in reading order: the tags before
it are in the registry as they declare themselves and none is at fault (`TagsTo`).
The next tag at fault is therefore the first, and at the end all are in. What a tag
declares is proved from its options one at a time, the last of a name winning
(`ParsedTo`). For the columns, the path of every active call leads to its type
(`Paths`), hence the path kept for a column to a field with its tag (`Indexed`);
two columns have different paths, since one field has one tag, and so no value is
scanned over another. `Keyed` says of the same walk that it is done with every sort
key it has passed. The two walks enter different fields, so this is not a matter of
positions: an embedded struct that the first walk enters the second enters too,
and one that only the second enters (a time) is the exception in `CursorKey`.

`SequenceLemmas` has facts about sequences whose elements have no common type
(tokens and arguments differ by dialect), `FlattenSeqType`, which needs the
recursive function inside `FlattenSeq`, and `TreeRecursion`, which says of a
function defined by recursion over trees that it exists and is what its definition
says. The library's induction theorems cannot be used here, so all of these are
proved by a least counterexample (`Least`).

**Only model-checked:** `Terminates` of the join ordering, `WalkEnds` of the paging,
`Answered` and `Started`: liveness under fairness is out of the provers' reach. That
SQL's grammar reads a text as `Evaluate` does, and that the databases decide a
predicate as `Test` does, is taken from their manuals and not proved of them.

## 5. Not modelled, and why

`Schema` lists the same `EffectiveOperators` the gate uses, in sorted order, and
keeps no state. The cookbook and the example are demonstrations: HTTP handlers
that call what is modelled here. Quoting of identifiers and the layout of the text
are left out. How a needle is escaped, an array literal or a JSON path written, is
below the level of tokens: it is one string function per dialect, in which
nothing happens in steps. `Validate` returns a list of problems in sorted order and
`Limits.Check` names the first limit: the models have the verdict, not the wording.
Base64 around a cursor, the snake case of a name, the lists inside tag options and
what `database/sql` converts a value to are left out. `structInfoCache` holds what
the walk computes from the type alone; two goroutines may compute it twice, to
the same value.

## 6. What the runs found

* `repeated_values` - SQLite's `_contains` counts the *distinct* values present
  and compares with how many were *given* (`dialects/sqlite.go:47`): with a value
  given twice it selects no row.
* `several_values` - a pair with two values demands both of one key
  (`dialects/postgres.go:87`, alike in the others), which no row can satisfy and the
  negation of which every row does; `registry.go:171` documents a choice,
  `tag "env" in ("prod","stage")`.
* `hooked_pairs` - hooks run on `Values` only (`compile.go:146`); values inside
  `Pairs` are bound as they came, though the README says hooks run on every value.
* `big_ids` - a cursor's number comes back as a float64 (`pagination.go:54`): with
  unique integer keys above 2^53 a page repeats rows, which `bind/typed.go:166`
  excludes for sorts with a unique key.
* `unsorted` - a limited query without a sort hands out a cursor with no keys
  (`bind/typed.go:266`), and that leads to the first page again, for ever; the
  README says "next" is the cursor of the following page.
* `display_order` - a sort key with a `ValueExpr` is ordered and sought by the
  expression, and the cursor holds the column (`bind/typed.go:324`), although
  `registry.go:127` says order and cursor can never disagree.

Seen while modelling, and described here without a run of their own:

* Independent joins are not in lexicographic order when one of them is also
  required by another (`joins.go:79` against the comment at `joins.go:26`):
  needed 2 and 3, where 3 requires 1, come out as 2, 1, 3.
* `_not_has_key_values` over pairs that list no values compiles to `NOT ()`
  (`compile.go:430`), which no database reads; `README.md:115` promises that empty
  branches collapse. It has the joins of its field reported too, though it reads no
  column. `SaysSomething` excludes it in the meaning and in `JoinsExact`.
* The walk of `Limits.Check` counts a leaf as a level (`guardrails.go:30`), where
  `guardrails.go:9` speaks of "and/or/not nesting depth": with `MaxDepth` 1 one `and`
  of two leaves is refused. `LimitsHold` names the filters it concerns
  (`AtFullDepth`), and `MCTrees` has them.
* A fragment of the builder that fails leaves its arguments in the `Query`. A caller
  who goes on without it is safe with numbered placeholders and misaligned with
  "?". The README's example drops the errors (`where, _ := b.Where(filters)`).
* `aggregate.go:39` says a metric is ignored for a bare count; its joins are
  nevertheless required and an unknown one is refused.
* `MaxValues` counts `Values` and pairs, not the values inside a pair.
* A negative limit is no limit in `TypedSelect.All`.
* `filter:"-"` on an embedded struct does not skip it (`fromstruct.go:70-80` before
  `:83`), though the comment at `fromstruct.go:26` calls it "skip this field"; `NoBaseIsSkipped` excludes it.
* `FromStruct` takes an embedded `time.Time` for a field, `infoFor` enters it
  (`bind/typed.go:49`) and loses its column, so a page sorted by it has no cursor.
* A row type with an embedded *pointer* passes `For` and panics on the first row
  (`bind/typed.go:112`), as do a row type that is itself a pointer and a tagged field
  that is not exported.

## 7. State of the plan

Modelled and checked: every component that decides something, in the order
joins, compiler, paging, builder, requests, struct tags. Proved: the theorems of
section 4. Left, and why it has its place here and not above:

1. `Literals` - `escapeLike`, array literals and `parseInterval` on characters
   against a reference definition over bounded strings.
