---------------------------- MODULE FilterFaults ----------------------------
(***************************************************************************)
(* What is wrong with a filter tree, read off the operators' documentation *)
(* (types.go:33-63, errors.go:9-32) and not off the renderer, and that the *)
(* compiler reports exactly that.                                          *)
(***************************************************************************)
EXTENDS Compile

\* A leaf that takes no part: no operator, or the field left out.
Mute(out, c) == c.op = "" \/ (out # "" /\ c.key = out)

(***************************************************************************)
(* A leaf.  ValuesFit is what its type and operator ask of its values.     *)
(***************************************************************************)
ReadableAs(t, v) ==
  CASE t \in {"int", "float"} -> IsFloat(v)
    [] t = "bool" -> IsBool(v)
    [] OTHER -> IsString(v)

ValuesFit(f, c) ==
  LET vs == AfterHooks(f, c.values) IN
  /\ HooksPass(f, c.values)
  /\ c.op \in Membership \cup Containment => \A i \in DOMAIN vs : ReadableAs(f.type, vs[i])
  /\ c.op \in Equality \cup Ordering \cup Matching => ReadableAs(f.type, First(vs))
  /\ c.op \in Relative => IsInterval(First(vs))
  /\ c.op = "_between" => Len(vs) = 2 /\ \A i \in 1 .. 2 : ReadableAs(f.type, vs[i])
  /\ c.op \in Equality \cup Membership \cup Matching /\ f.type \in {"string", "id", "enum"} =>
       \A i \in DOMAIN vs : (i = 1 \/ c.op \in Membership) => ValidEnum(f, AsString(vs[i]))

LeafFault(out, c) ==
  IF Mute(out, c) THEN "ok"
  ELSE IF c.key \notin DOMAIN Registry THEN "ErrUnknownField"
  ELSE IF ~Allows(Registry[c.key], c.op) THEN "ErrBadOperator"
  ELSE IF ~ValuesFit(Registry[c.key], c) THEN "ErrBadValue" ELSE "ok"

(***************************************************************************)
(* The tree, in reading order, a node before its children.                 *)
(***************************************************************************)
FirstOf(faults) ==
  LET bad == {i \in DOMAIN faults : faults[i] # "ok"} IN
  IF bad = {} THEN "ok" ELSE faults[Min(bad)]

\* Every node; as a definition of its own, TLC evaluates it once.
AnyNode == Condition

NodeFault(out) ==
  LET fault[c \in AnyNode] ==
        IF Cardinality(Forms(c)) > 1 THEN "ErrInvalidCondition"
        ELSE IF Forms(c) = {"key"} THEN LeafFault(out, c)
        ELSE FirstOf([i \in DOMAIN Subtrees(c) |-> fault[Subtrees(c)[i]]])
  IN fault

FirstFault(out, conds) == FirstOf([i \in DOMAIN conds |-> NodeFault(out)[conds[i]]])

\* A filter compiles exactly when no leaf that takes part has a fault, and the
\* error returned is that of the first fault in reading order (errors.go:9-32):
\* a sibling, an excluded field or a wrapping group never hides or adds one.
ReportsFirstFault == result # "running" => result = FirstFault(exclude, filter)
=============================================================================
