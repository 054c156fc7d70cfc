---------------------------- MODULE MCOperators -----------------------------
(***************************************************************************)
(* Every operator of every type in every dialect, alone, negated and       *)
(* beside another filter.                                                  *)
(*                                                                         *)
(* What the databases decide differently or refuse is left out of the      *)
(* filters here: timestamps that are no timestamps, array values given     *)
(* twice, keys that a map does not hold (all "labels" hold those asked     *)
(* for), and key-value filters without values.  Of several values asked of *)
(* a key no map holds one, or they are the same: what it means that a map  *)
(* holds one of them is the subject of a run of its own.                   *)
(***************************************************************************)
EXTENDS MCValues

AllOperators == UNION {TypeOperators[t] : t \in DOMAIN TypeOperators} \cup NullTests

\* Operators of the field's type, its null tests, and two it may not accept.
OperatorsFor(k) == Operators(MCRegistry[k].type) \cup NullTests \cup {"_like", "_contains"}

ValueLists ==
  {<<>>} \cup {<<v>> : v \in Vals}
  \cup {<<Str(s), Str(t)>> : s, t \in {"a", "ab", "t1", "t2"}}
  \cup {<<Num(5), Num(7)>>, <<Num(7), Str("5")>>, <<Num(5), Str("a")>>, <<Str("7"), Nil>>,
        <<Str("a"), <<"bool", TRUE>>>>, <<Num(5), Num(7), Num(0)>>}

PairLists ==
  {<<>>, <<Pair("env", <<>>)>>, <<Pair("env", <<"a">>)>>, <<Pair("env", <<"a", "a">>)>>,
   <<Pair("env", <<"7", "ab">>)>>, <<Pair("env", <<"a">>), Pair("team", <<"a", "7">>)>>,
   <<Pair("env", <<"a">>), Pair("team", <<"b">>)>>, <<Pair("team", <<>>), Pair("env", <<"b">>)>>}

Decidable(c) ==
  LET t == Registry[c.key].type
      twice == \E i, j \in DOMAIN c.values : i # j /\ IsString(c.values[i]) /\ IsString(c.values[j])
                 /\ AsString(c.values[i]) = AsString(c.values[j])
  IN /\ t = "timestamp" /\ c.op \notin Relative =>
          \A i \in DOMAIN c.values : IsString(c.values[i]) => AsString(c.values[i]) \in DOMAIN Instant
     /\ t = "array" => ~twice
     /\ c.op \in KeyTests => c.key = "tags"
     /\ c.op \in KeyValueTests => c.key = "labels"
     /\ SaysSomething(c)

ValueFilters ==
  UNION {{LeafOf(k, op, vs) : op \in OperatorsFor(k), vs \in ValueLists} :
           k \in DOMAIN MCRegistry \ {"tags", "labels", "notes"}}
PairFilters ==
  UNION {{PairsLeaf(k, op, ps) : op \in OperatorsFor(k), ps \in PairLists} : k \in {"tags", "labels"}}

Asked == {c \in ValueFilters \cup PairFilters : Decidable(c)}
Other == LeafOf("size", "_gt", <<Num(5)>>)

\* An unknown field, and a node that is a leaf and a negation.
Refused == {LeafOf("w", "_eq", <<Num(5)>>), [Other EXCEPT !.not = <<Other>>]}

\* Written over a test so that TLC enumerates and sorts the set once.
MCCondition ==
  {c \in {Other} \cup Refused \cup Asked \cup {NotOf(a) : a \in Asked} \cup {OrOf(<<Other, a>>) : a \in Asked \cup Refused} :
     Cardinality(Forms(c)) >= 1}
MCFilter ==
  {<<c, Other>> : c \in Asked \cup Refused \cup {NotOf(c) : c \in Asked}}
  \cup {<<OrOf(<<Other, c>>)>> : c \in Asked \cup Refused}

\* What the theorem on the meaning presupposes holds here.
ASSUME OperatorsAreDecided == AllDecided
=============================================================================
