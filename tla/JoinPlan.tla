------------------------------ MODULE JoinPlan ------------------------------
(***************************************************************************)
(* What orderJoins (joins.go) promises its callers, without its algorithm. *)
(*                                                                         *)
(* A registry field names the joins it needs; a join names the joins it    *)
(* Requires.  From the definitions and a set of needed keys a caller gets  *)
(* either a plan - every join reachable from the needed ones, once each,   *)
(* after everything it Requires - or an error, and an error only when the  *)
(* reachable part of the graph really has the fault it reports.            *)
(***************************************************************************)
EXTENDS Integers, Sequences

CONSTANT Key  \* the join keys that definitions and fields may name

VARIABLES
  defs,    \* Joins: a function from the defined keys to their Requires
  needed,  \* the keys the caller asks for
  result,  \* "running", then "ok" or the kind of error
  plan     \* the keys whose join SQL is emitted, in order

vars == <<defs, needed, result, plan>>

(***************************************************************************)
(* The graph.  Requires(d, k) is what k depends on; an undefined key has   *)
(* no definition to depend on anything.                                    *)
(***************************************************************************)
Requires(d, k) == IF k \in DOMAIN d THEN d[k] ELSE {}

\* S contains the dependencies of its members.
Closed(d, S) == \A k \in S : Requires(d, k) \subseteq S

\* The keys reachable from n: the least closed set that contains n.
Reach(d, n) ==
  {k \in Key : \A S \in SUBSET Key : n \subseteq S /\ Closed(d, S) => k \in S}

\* Every member of C depends on a member of C: in a finite graph, C holds a cycle.
Knot(d, C) == C # {} /\ \A k \in C : Requires(d, k) \cap C # {}

Undefined(d, n) == \E k \in Reach(d, n) : k \notin DOMAIN d
Cyclic(d, n) == \E C \in SUBSET Reach(d, n) : Knot(d, C)

(***************************************************************************)
(* A sequence of keys is a dependency order when no key is repeated and    *)
(* each comes after everything it requires.                                *)
(***************************************************************************)
Elements(s) == {s[i] : i \in DOMAIN s}

DependenciesFirst(d, s) ==
  \A i \in DOMAIN s : \A r \in Requires(d, s[i]) : \E j \in DOMAIN s : j < i /\ s[j] = r

Once(s) == \A i, j \in DOMAIN s : s[i] = s[j] => i = j

ValidPlan(d, n, s) ==
  /\ s \in Seq(Key)
  /\ Elements(s) = Reach(d, n)
  /\ DependenciesFirst(d, s)
  /\ Once(s)

(***************************************************************************)
(* The specification: one step, from the inputs to a plan or an error.     *)
(***************************************************************************)
Graph == UNION {[D -> SUBSET Key] : D \in SUBSET Key}

Init ==
  /\ defs \in Graph
  /\ needed \in SUBSET Key
  /\ result = "running"
  /\ plan = <<>>

Succeed ==
  /\ result = "running"
  /\ ~Undefined(defs, needed)
  /\ ~Cyclic(defs, needed)
  /\ result' = "ok"
  /\ ValidPlan(defs, needed, plan')
  /\ UNCHANGED <<defs, needed>>

Fail ==
  /\ result = "running"
  /\ \/ Undefined(defs, needed) /\ result' = "undefined"
     \/ Cyclic(defs, needed) /\ result' = "cyclic"
  /\ UNCHANGED <<defs, needed, plan>>

Next == Succeed \/ Fail

Spec == Init /\ [][Next]_vars
=============================================================================
