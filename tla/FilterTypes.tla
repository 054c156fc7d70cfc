---------------------------- MODULE FilterTypes -----------------------------
(***************************************************************************)
(* What a registry and a filter tree are made of: the types and the        *)
(* operators each accepts (types.go), a field and its operator gate        *)
(* (registry.go), the per-field hooks (validators.go), and the coercion of *)
(* the values a client sends (coerce.go).                                  *)
(*                                                                         *)
(* A string is opaque.  What the standard library would compute from one   *)
(* is given by the constants: which strings are numbers or intervals, and  *)
(* how strings are lower-cased and numbers printed.                        *)
(***************************************************************************)
EXTENDS Integers, Sequences

CONSTANTS
  Text,           \* strings
  Lower,          \* strings.ToLower: a function on Text
  TrimSpace,      \* strings.TrimSpace: a function on Text
  ParseFloat,     \* strconv.ParseFloat: from the strings that are numbers
  FormatNumber,   \* strconv.FormatInt / FormatFloat: from numbers to Text
  ParseInterval,  \* parseInterval: from the strings that are intervals
  Registry        \* a function from filter keys to fields

\* Digits and one of four units (compile.go:366-393).
ASSUME IntervalAssumption ==
  \A s \in DOMAIN ParseInterval : ParseInterval[s] \in [n : Nat \ {0}, unit : {"m", "h", "d", "w"}]

(***************************************************************************)
(* Types and operators.  An unknown type accepts nothing.                  *)
(***************************************************************************)
Equality == {"_eq", "_ne"}
Membership == {"_in", "_nin"}
Ordering == {"_gt", "_gte", "_lt", "_lte"}
Matching == {"_like", "_starts_with", "_ends_with"}
Relative == {"_last", "_within"}
Containment == {"_contains", "_contains_any", "_not_contains", "_not_contains_any"}
KeyTests == {"_has_keys", "_not_has_keys"}
KeyValueTests == {"_has_key_values", "_not_has_key_values"}
NullTests == {"_is_null", "_is_not_null"}

NumberOperators == Equality \cup Membership \cup Ordering \cup {"_between"}

TypeOperators ==
  [string    |-> Equality \cup Membership \cup Matching,
   id        |-> Equality \cup Membership,
   int       |-> NumberOperators,
   float     |-> NumberOperators,
   bool      |-> Equality,
   timestamp |-> {"_eq", "_between"} \cup Ordering \cup Relative,
   enum      |-> Equality \cup Membership,
   array     |-> Containment,
   map       |-> KeyTests \cup KeyValueTests]

Operators(t) == IF t \in DOMAIN TypeOperators THEN TypeOperators[t] ELSE {}

\* Only and Except are sets; the empty set is "not given".
EffectiveOperators(f) ==
  {op \in Operators(f.type) \cup (IF f.nullable THEN NullTests ELSE {}) :
     /\ f.only = {} \/ op \in f.only
     /\ op \notin f.except}

Allows(f, op) == op \in EffectiveOperators(f)

ValidEnum(f, s) == f.enum = {} \/ s \in f.enum

\* The Column of a field defaults to its key.
Column(key) == IF Registry[key].column = "" THEN key ELSE Registry[key].column

(***************************************************************************)
(* Client values, tagged with their Go type: "str", "num" (float64),       *)
(* "int", "bool", "nil", or "other" (what %v prints of anything else).     *)
(***************************************************************************)
Nil == <<"nil", "">>

First(vals) == IF vals = <<>> THEN Nil ELSE vals[1]

\* toString fails on nil only.
IsString(v) == v[1] # "nil"
AsString(v) ==
  CASE v[1] \in {"str", "other"} -> v[2]
    [] v[1] \in {"num", "int"} -> FormatNumber[v[2]]
    [] v[1] = "bool" -> IF v[2] THEN "true" ELSE "false"

\* toFloat takes numbers and the strings that spell one.
IsFloat(v) == v[1] \in {"num", "int"} \/ (v[1] = "str" /\ TrimSpace[v[2]] \in DOMAIN ParseFloat)
AsFloat(v) == IF v[1] = "str" THEN ParseFloat[TrimSpace[v[2]]] ELSE v[2]

\* toBool takes booleans, float64 numbers and six strings - not a Go int.
Yes == {"true", "1", "yes"}
No == {"false", "0", "no"}

IsBool(v) ==
  \/ v[1] \in {"bool", "num"}
  \/ v[1] = "str" /\ Lower[TrimSpace[v[2]]] \in Yes \cup No
AsBool(v) ==
  CASE v[1] = "bool" -> v[2]
    [] v[1] = "num" -> v[2] # 0
    [] v[1] = "str" -> Lower[TrimSpace[v[2]]] \in Yes

\* A timestamp interval is read from the string form of the value.
IsInterval(v) == IsString(v) /\ TrimSpace[AsString(v)] \in DOMAIN ParseInterval
Interval(v) == ParseInterval[TrimSpace[AsString(v)]]

(***************************************************************************)
(* Hooks.  A transform is a partial function on values, undefined where it *)
(* returns an error; a validator is the set of values it lets through.     *)
(* They run over Values; Pairs are not touched.                            *)
(***************************************************************************)
HooksPass(f, vals) ==
  \A i \in DOMAIN vals :
    vals[i] \in DOMAIN f.transform /\ f.transform[vals[i]] \in f.validate

AfterHooks(f, vals) == [i \in DOMAIN vals |-> f.transform[vals[i]]]
=============================================================================
