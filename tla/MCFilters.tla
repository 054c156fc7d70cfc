----------------------------- MODULE MCFilters ------------------------------
(***************************************************************************)
(* Building blocks for the instances: fields, nodes and strings.           *)
(***************************************************************************)
EXTENDS FilterMeaning

\* No hooks: every value passes unchanged.
PassThrough(vals) == [v \in vals |-> v]

FieldOf(t, vals) ==
  [type |-> t, column |-> "", enum |-> {}, nullable |-> FALSE, only |-> {}, except |-> {},
   search |-> <<>>, transform |-> PassThrough(vals), validate |-> vals, joins |-> {}]

LeafOf(key, op, values) == [Empty EXCEPT !.key = key, !.op = op, !.values = values]
PairsLeaf(key, op, pairs) == [Empty EXCEPT !.key = key, !.op = op, !.pairs = pairs]
AndOf(s) == [Empty EXCEPT !.and = s]
OrOf(s) == [Empty EXCEPT !.or = s]
NotOf(c) == [Empty EXCEPT !.not = <<c>>]

Str(t) == <<"str", t>>
Num(n) == <<"num", n>>

\* Groups of two different ones of the given nodes, in both orders, and their negations.
Twos(S) == {s \in S \X S : s[1] # s[2]}
Groups(S) ==
  {AndOf(s) : s \in Twos(S)} \cup {OrOf(s) : s \in Twos(S)} \cup {NotOf(a) : a \in S}
=============================================================================
