------------------------------ MODULE Compile -------------------------------
(***************************************************************************)
(* Registry.compile (compile.go): one filter tree rendered to SQL text and *)
(* bind arguments by renderTop, renderCond, renderGroup, renderLeaf and    *)
(* resolveSearch, against one Query that counts the arguments.             *)
(*                                                                         *)
(* The recursion is a stack of frames, one per active call: "top" and      *)
(* "and" / "or" loop over conditions, "not" renders one, "search" loops    *)
(* over the columns of a search field.  An action renders the next child   *)
(* of the innermost call, or returns from it.                              *)
(***************************************************************************)
EXTENDS Resolve, FiniteSets

CONSTANTS
  Value,      \* the values clients send
  Target,     \* the dialects to compile for
  Condition,  \* the nodes a filter is made of
  Filter,     \* the filters: sequences of conditions
  Excludable  \* what callers pass as exclude; "" excludes nothing

ASSUME TargetAssumption == Target \subseteq Dialect

KeyValue == [key : Text, values : Seq(Text)]

\* Nodes are built from nodes.
ASSUME ConditionAssumption ==
  Condition \subseteq
    [key : STRING, op : STRING, values : Seq(Value), pairs : Seq(KeyValue),
     and : Seq(Condition), or : Seq(Condition), not : Seq(Condition)]

\* The nodes right below a node, whatever its forms, and how deep it nests.
Subtrees(c) == c.and \o c.or \o c.not

Nesting[c \in Condition] ==
  1 + Max({0} \cup {Nesting[Subtrees(c)[i]] : i \in DOMAIN Subtrees(c)})

\* A tree ends.
ASSUME TreesAreFinite ==
  \A c \in Condition :
    Nesting[c] \in Nat /\ \A i \in DOMAIN Subtrees(c) : Nesting[Subtrees(c)[i]] < Nesting[c]

ASSUME FilterAssumption == Filter \subseteq Seq(Condition)

ASSUME RegistryAssumption ==
  \A k \in DOMAIN Registry :
    /\ Registry[k].search \in Seq(STRING)
    /\ \A v \in DOMAIN Registry[k].transform : Registry[k].transform[v] \in Value

VARIABLES
  dialect,   \* q.d
  filter,    \* conds
  exclude,   \* q.exclude
  stack,     \* active calls, outermost first
  args,      \* q.args
  joinKeys,  \* q.joinKeys
  sql,       \* the text returned
  result     \* "running", "ok", or the error returned

vars == <<dialect, filter, exclude, stack, args, joinKeys, sql, result>>

(***************************************************************************)
(* A call: the node it renders, the children it has still to visit, and    *)
(* the text of those that were not empty, already joined.  from is         *)
(* auxiliary: how many arguments were bound when the call began.           *)
(***************************************************************************)
Empty ==
  [key |-> "", op |-> "", values |-> <<>>, pairs |-> <<>>, and |-> <<>>, or |-> <<>>, not |-> <<>>]

Call(form, node, rest, cols) ==
  [form |-> form, node |-> node, rest |-> rest, cols |-> cols,
   text |-> <<>>, live |-> 0, from |-> Len(args)]

Init ==
  /\ dialect \in Target
  /\ filter \in Filter
  /\ exclude \in Excludable
  /\ args = <<>>
  /\ stack = <<[form |-> "top", node |-> Empty, rest |-> filter, cols |-> <<>>,
                text |-> <<>>, live |-> 0, from |-> 0]>>
  /\ joinKeys = {}
  /\ sql = <<>>
  /\ result = "running"

Inner == stack[Len(stack)]
Below == SubSeq(stack, 1, Len(stack) - 1)

\* What separates the parts of a call.
Separator(form) == IF form \in {"or", "search"} THEN Word("OR") ELSE Word("AND")

\* The call with one more part; an empty part is dropped.
Plus(call, part) ==
  IF part = <<>> THEN call
  ELSE [call EXCEPT !.text = IF call.live = 0 THEN part
                             ELSE @ \o <<Separator(call.form)>> \o part,
                    !.live = @ + 1]

\* Faulty: a group of several parts is not parenthesized.
ReturnedBare(call) ==
  CASE call.live = 0 -> <<>>
    [] call.live > 0 /\ call.form = "not" -> Negated(call.text)
    [] OTHER -> call.text

\* What a nested call returns: the parts, parenthesized if they are several.
Returned(call) ==
  CASE call.live = 0 -> <<>>
    [] call.live > 0 /\ call.form = "not" -> Negated(call.text)
    [] call.live = 1 /\ call.form # "not" -> call.text
    [] OTHER -> <<Word("(")>> \o call.text \o <<Word(")")>>

(***************************************************************************)
(* The forms a node sets: exactly one is legal, none is skipped.           *)
(***************************************************************************)
Forms(c) ==
  (IF c.key # "" THEN {"key"} ELSE {}) \cup (IF c.and # <<>> THEN {"and"} ELSE {})
  \cup (IF c.or # <<>> THEN {"or"} ELSE {}) \cup (IF c.not # <<>> THEN {"not"} ELSE {})

\* The child the innermost call passes to renderCond next, its field, and the
\* call once it has passed it.
Visiting == result = "running" /\ Inner.rest # <<>>
Node == Head(Inner.rest)
Field == Registry[Node.key]

\* Faulty: the loop drops the last child instead of the first.
OnwardFromTheEnd == [Inner EXCEPT !.rest = Front(@)]

Onward == [Inner EXCEPT !.rest = Tail(@)]

Fail(error, bound) ==
  /\ result' = error
  /\ args' = args \o bound
  /\ UNCHANGED <<dialect, filter, exclude, stack, joinKeys, sql>>

\* Faulty: the excluded field is not skipped.
SilentIgnoresExclude ==
  \/ Forms(Node) = {}
  \/ Forms(Node) = {"key"} /\ Node.op = ""

\* An empty node, a leaf without operator, or a leaf of the excluded field.
Silent ==
  \/ Forms(Node) = {}
  \/ Forms(Node) = {"key"} /\ (Node.op = "" \/ (exclude # "" /\ Node.key = exclude))

\* Faulty: the loop stays on the node it skips.
SkipStays ==
  /\ Visiting
  /\ Silent
  /\ UNCHANGED vars

Skip ==
  /\ Visiting
  /\ Silent
  /\ stack' = Append(Below, Onward)
  /\ UNCHANGED <<dialect, filter, exclude, args, joinKeys, sql, result>>

\* renderCond refuses a node with more than one form.
Malformed ==
  /\ Visiting
  /\ Cardinality(Forms(Node)) > 1
  /\ Fail("ErrInvalidCondition", <<>>)

\* renderGroup, and the negation case of renderCond: a call over the children.
Descend ==
  /\ Visiting
  /\ \E form \in {"and", "or", "not"} :
       /\ Forms(Node) = {form}
       /\ stack' = Below \o <<Onward, Call(form, Node, Node[form], <<>>)>>
  /\ UNCHANGED <<dialect, filter, exclude, args, joinKeys, sql, result>>

(***************************************************************************)
(* renderLeaf: the gates, in their order.                                  *)
(***************************************************************************)
AtLeaf == Visiting /\ Forms(Node) = {"key"} /\ ~Silent
Known == Node.key \in DOMAIN Registry
Admitted == AtLeaf /\ Known /\ Allows(Field, Node.op) /\ HooksPass(Field, Node.values)

UnknownField == AtLeaf /\ ~Known /\ Fail("ErrUnknownField", <<>>)

BadOperator == AtLeaf /\ Known /\ ~Allows(Field, Node.op) /\ Fail("ErrBadOperator", <<>>)

HooksFail ==
  /\ AtLeaf /\ Known /\ Allows(Field, Node.op)
  /\ ~HooksPass(Field, Node.values)
  /\ Fail("ErrBadValue", <<>>)

Hooked == [Node EXCEPT !.values = AfterHooks(Field, @)]

\* Faulty: the joins are recorded also when no text came out.
RecordAlways(key, text) == joinKeys' = joinKeys \cup Registry[key].joins

\* Faulty: the joins of the leaf replace those recorded before.
RecordReplaces(key, text) ==
  joinKeys' = IF text = <<>> THEN joinKeys ELSE Registry[key].joins

\* The joins of a field are recorded when its leaf came out as some text.
Record(key, text) ==
  joinKeys' = IF text = <<>> THEN joinKeys ELSE joinKeys \cup Registry[key].joins

\* A leaf over the one column of its field.
RenderLeaf ==
  /\ Admitted
  /\ Field.search = <<>>
  /\ LET r == Resolve(dialect, Field, Column(Node.key), Hooked, Len(args)) IN
     \/ ~r.ok /\ Fail("ErrBadValue", r.args)
     \/ /\ r.ok
        /\ args' = args \o r.args
        /\ stack' = Append(Below, Plus(Onward, r.text))
        /\ Record(Node.key, r.text)
        /\ UNCHANGED <<dialect, filter, exclude, sql, result>>

(***************************************************************************)
(* resolveSearch: the leaf over each column in turn, joined by OR.         *)
(***************************************************************************)
OpenSearch ==
  /\ Admitted
  /\ Field.search # <<>>
  /\ stack' = Below \o <<Onward, Call("search", Hooked, <<>>, Field.search)>>
  /\ UNCHANGED <<dialect, filter, exclude, args, joinKeys, sql, result>>

SearchColumn ==
  /\ result = "running"
  /\ Inner.cols # <<>>
  /\ LET c == Inner.node
         r == Resolve(dialect, Registry[c.key], Head(Inner.cols), c, Len(args)) IN
     \/ ~r.ok /\ Fail("ErrBadValue", r.args)
     \/ /\ r.ok
        /\ args' = args \o r.args
        /\ stack' = Append(Below, Plus([Inner EXCEPT !.cols = Tail(@)], r.text))
        /\ UNCHANGED <<dialect, filter, exclude, joinKeys, sql, result>>

(***************************************************************************)
(* Returns.                                                                *)
(***************************************************************************)
Finished == result = "running" /\ Inner.rest = <<>> /\ Inner.cols = <<>>

\* A nested call returns its text to the call that made it.
Close ==
  /\ Finished
  /\ Len(stack) > 1
  /\ LET text == Returned(Inner) IN
     /\ stack' = Append(SubSeq(stack, 1, Len(stack) - 2), Plus(stack[Len(stack) - 1], text))
     /\ IF Inner.form = "search" THEN Record(Inner.node.key, text) ELSE joinKeys' = joinKeys
  /\ UNCHANGED <<dialect, filter, exclude, args, sql, result>>

\* renderTop returns its text without parentheses.
Return ==
  /\ Finished
  /\ Len(stack) = 1
  /\ sql' = Inner.text
  /\ result' = "ok"
  /\ UNCHANGED <<dialect, filter, exclude, stack, args, joinKeys>>

Next ==
  \/ Skip \/ Malformed \/ Descend
  \/ UnknownField \/ BadOperator \/ HooksFail
  \/ RenderLeaf \/ OpenSearch \/ SearchColumn
  \/ Close \/ Return

Spec == Init /\ [][Next]_vars

(***************************************************************************)
(* Types.                                                                  *)
(***************************************************************************)
\* The conditions a call loops over.
Children(call) ==
  CASE call.form = "top" -> filter
    [] call.form = "search" -> <<>>
    [] OTHER -> call.node[call.form]

\* The columns that a leaf on the field reads.
ColumnsOf(key) == IF Registry[key].search = <<>> THEN {Column(key)} ELSE ToSet(Registry[key].search)

\* What a dialect writes: connectives, what all dialects share, and its own.
Shared ==
  {"AND", "OR", "NOT", "(", ")", "=", "!=", ">", ">=", "<", "<=", "IN", "NOT IN",
   "BETWEEN", "BETWEEN now", "IS NULL", "IS NOT NULL"}

Own ==
  [clickhouse |-> {"ILIKE", "hasAll", "hasAny", "mapContains", "[] ="},
   postgres |-> {"ILIKE", "@>", "&&", "?", "?&", "= ANY", "<> ALL", "->> ="},
   sqlite |-> {"LIKE ESCAPE", "count distinct =", "EXISTS value IN", "EXISTS key", "IN json_each",
               "NOT IN json_each", "EXISTS key value"},
   mysql |-> {"LOWER LIKE", "JSON_CONTAINS", "JSON_OVERLAPS", "JSON_CONTAINS_PATH", "JSON_EXTRACT ="}]

Symbols(d) == Shared \cup Own[d]
ColumnNames == UNION {ColumnsOf(k) : k \in DOMAIN Registry}

\* A token of d mentions a column of the registry, or none.
Token(d) == [sym : Symbols(d), col : ColumnNames \cup {""}, lit : Seq(Int), slots : Seq(Nat)]

\* Types.  A text is written with what its dialect knows and the registry has,
\* and what a call has still to visit is the end of its conditions.
TypeOK ==
  /\ dialect \in Target
  /\ exclude \in Excludable
  /\ \A i \in DOMAIN stack :
       /\ stack[i].form \in {"top", "and", "or", "not", "search"}
       /\ IsSuffix(stack[i].rest, Children(stack[i]))
       /\ stack[i].text \in Seq(Token(dialect))
       /\ stack[i].live \in Nat
       /\ stack[i].from \in 0 .. Len(args)
  /\ stack # <<>>
  /\ sql \in Seq(Token(dialect))
  /\ result \in {"running", "ok", "ErrInvalidCondition", "ErrUnknownField", "ErrBadOperator", "ErrBadValue"}

(***************************************************************************)
(* Placeholders.  The text shows the arguments lo + 1 .. hi, each once and *)
(* in that order.  A driver gives the i-th "?" the i-th argument, and $n   *)
(* the n-th: both find the argument that was bound for the predicate only  *)
(* if this holds of the whole text with 0 and Len(args).                   *)
(***************************************************************************)
Places(text) == UNION {{<<i, j>> : j \in DOMAIN text[i].slots} : i \in DOMAIN text}
Shown(text, p) == text[p[1]].slots[p[2]]
Precedes(p, q) == p[1] < q[1] \/ (p[1] = q[1] /\ p[2] < q[2])

InOrder(text, lo, hi) ==
  /\ {Shown(text, p) : p \in Places(text)} = (lo + 1) .. hi
  /\ \A p, q \in Places(text) : Precedes(p, q) => Shown(text, p) < Shown(text, q)

\* In the text returned, the placeholders are those of the arguments returned,
\* one each, in the same order (dialect.go:74-81, compile.go throughout).
PlaceholdersInOrder == result = "ok" => InOrder(sql, 0, Len(args))

(***************************************************************************)
(* Joins.                                                                  *)
(***************************************************************************)
\* The joins reported are exactly those of the fields whose columns the text
\* mentions: none is missing for a column that is read, none is there for a
\* filter that came out empty or was excluded (registry.go:54-56).
JoinsOfMentionedColumns ==
  result = "ok" =>
    joinKeys = UNION {Registry[key].joins :
                 key \in {k \in DOMAIN Registry : \E i \in DOMAIN sql : sql[i].col \in ColumnsOf(k)}}

(***************************************************************************)
(* What "exactly" presupposes: that a column tells which joins it needs,   *)
(* and that what was rendered mentions its column.  A negated test of keys *)
(* none of which has a value does not - it becomes "NOT ()" (README.md).   *)
(***************************************************************************)
ColumnsTellJoins ==
  \A k, l \in DOMAIN Registry :
    /\ "" \notin ColumnsOf(k)
    /\ ColumnsOf(k) \cap ColumnsOf(l) # {} => Registry[k].joins = Registry[l].joins

SaysSomething(c) ==
  c.op = "_not_has_key_values" /\ c.pairs # <<>> => KeyValues(c.pairs) # <<>>

AllSaySomething == \A c \in Condition : SaysSomething(c)
=============================================================================
