---------------------------- MODULE MCPromises ------------------------------
(***************************************************************************)
(* Filters for the runs on what the documentation promises: array values   *)
(* given twice, a choice among the values of a pair, and hooks over the    *)
(* values of pairs.                                                        *)
(***************************************************************************)
EXTENDS MCValues

RepeatedValues == {<<LeafOf("words", "_contains", <<v, w>>)>> : v, w \in {Str("a"), Str("b")}}
SeveralValues ==
  {<<PairsLeaf("labels", op, <<Pair("env", vs)>>)>> : op \in KeyValueTests, vs \in {<<"a">>, <<"a", "b">>}}
HookedPairs == {<<PairsLeaf("notes", "_has_key_values", <<Pair("env", <<t>>)>>)>> : t \in {"a", "ab"}}

MCCondition == {f[1] : f \in RepeatedValues \cup SeveralValues \cup HookedPairs}
=============================================================================
