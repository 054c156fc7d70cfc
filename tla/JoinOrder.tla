----------------------------- MODULE JoinOrder ------------------------------
(***************************************************************************)
(* orderJoins (joins.go): a depth-first search over the join definitions   *)
(* that emits a join when its Requires are all emitted.                    *)
(*                                                                         *)
(* The recursion of the closure dfs is an explicit stack: a frame is one   *)
(* active call, with the Requires its loop has still to visit.  One action *)
(* per way a call of dfs can go: it returns at once, it fails, it starts   *)
(* its loop, it ends.  Both loops (over sortedKeys(needed), and over the   *)
(* sorted Requires) visit the least key first.  A join key is represented  *)
(* by its rank in the lexicographic order of the key strings, so that      *)
(* sort.Strings is the order of the numbers.                               *)
(***************************************************************************)
EXTENDS Integers, Sequences

CONSTANT Key  \* join keys, by lexicographic rank

ASSUME KeyAssumption == Key \subseteq Nat

VARIABLES
  defs,    \* defs: join key -> Requires; a key outside its domain is undefined
  needed,  \* needed
  todo,    \* keys the loop over sortedKeys(needed) has not visited
  stack,   \* active calls of dfs, outermost first
  state,   \* state: "new", "visiting" or "done"
  order,   \* order: the joins emitted so far
  result   \* "running", "ok", or the error returned

vars == <<defs, needed, todo, stack, state, order, result>>

Frame == [key : Key, reqs : SUBSET Key]
Graph == UNION {[D -> SUBSET Key] : D \in SUBSET Key}

\* Faulty: every defined join is ordered, not only the needed ones.
InitAllJoins ==
  /\ defs \in Graph
  /\ needed \in SUBSET Key
  /\ todo = DOMAIN defs
  /\ stack = <<>>
  /\ state = [k \in Key |-> "new"]
  /\ order = <<>>
  /\ result = "running"

\* Faulty: only the needed keys have a state.
InitNeededOnly ==
  /\ defs \in Graph
  /\ needed \in SUBSET Key
  /\ todo = needed
  /\ stack = <<>>
  /\ state = [k \in needed |-> "new"]
  /\ order = <<>>
  /\ result = "running"

Init ==
  /\ defs \in Graph
  /\ needed \in SUBSET Key
  /\ todo = needed
  /\ stack = <<>>
  /\ state = [k \in Key |-> "new"]
  /\ order = <<>>
  /\ result = "running"

(***************************************************************************)
(* The loop that runs now: over the Requires of the innermost call, or     *)
(* over the needed keys when no call is active.                            *)
(***************************************************************************)
Pending == IF stack = <<>> THEN todo ELSE stack[Len(stack)].reqs

\* k is the key that the running loop passes to dfs next.
Calls(k) ==
  /\ result = "running"
  /\ k \in Pending
  /\ \A j \in Pending : k <= j

\* The running loop has passed k to dfs.
Visited(k) ==
  IF stack = <<>>
  THEN todo' = todo \ {k} /\ stack' = stack
  ELSE /\ todo' = todo
       /\ stack' = [stack EXCEPT ![Len(stack)].reqs = @ \ {k}]

\* Faulty: the loop stays on an emitted key.
AlreadyDoneStays(k) ==
  /\ Calls(k)
  /\ state[k] = "done"
  /\ UNCHANGED vars

\* dfs(k): k is already emitted.
AlreadyDone(k) ==
  /\ Calls(k)
  /\ state[k] = "done"
  /\ Visited(k)
  /\ UNCHANGED <<defs, needed, state, order, result>>

\* Faulty: a key on the path counts as emitted.
CycleIgnored(k) ==
  /\ Calls(k)
  /\ state[k] = "visiting"
  /\ Visited(k)
  /\ UNCHANGED <<defs, needed, state, order, result>>

\* dfs(k): k is on the path from a root, the error "cyclic join dependency".
CycleFound(k) ==
  /\ Calls(k)
  /\ state[k] = "visiting"
  /\ result' = "cyclic"
  /\ UNCHANGED <<defs, needed, todo, stack, state, order>>

\* dfs(k): no definition, the error "undefined join key".
UndefinedFound(k) ==
  /\ Calls(k)
  /\ state[k] = "new"
  /\ k \notin DOMAIN defs
  /\ result' = "undefined"
  /\ UNCHANGED <<defs, needed, todo, stack, state, order>>

\* dfs(k): mark k and start the loop over its Requires.
Enter(k) ==
  /\ Calls(k)
  /\ state[k] = "new"
  /\ k \in DOMAIN defs
  /\ state' = [state EXCEPT ![k] = "visiting"]
  /\ LET frame == [key |-> k, reqs |-> defs[k]] IN
     IF stack = <<>>
     THEN todo' = todo \ {k} /\ stack' = <<frame>>
     ELSE /\ todo' = todo
          /\ stack' = Append([stack EXCEPT ![Len(stack)].reqs = @ \ {k}], frame)
  /\ UNCHANGED <<defs, needed, order, result>>

\* Faulty: a join is put before those emitted earlier.
LeavePrepends ==
  /\ result = "running"
  /\ stack # <<>>
  /\ Pending = {}
  /\ LET k == stack[Len(stack)].key IN
     /\ state' = [state EXCEPT ![k] = "done"]
     /\ order' = <<k>> \o order
  /\ stack' = SubSeq(stack, 1, Len(stack) - 1)
  /\ UNCHANGED <<defs, needed, todo, result>>

\* The innermost call has visited its Requires: emit its key and return.
Leave ==
  /\ result = "running"
  /\ stack # <<>>
  /\ Pending = {}
  /\ LET k == stack[Len(stack)].key IN
     /\ state' = [state EXCEPT ![k] = "done"]
     /\ order' = Append(order, k)
  /\ stack' = SubSeq(stack, 1, Len(stack) - 1)
  /\ UNCHANGED <<defs, needed, todo, result>>

\* All needed keys are visited: return the SQL of the emitted joins.
Return ==
  /\ result = "running"
  /\ stack = <<>>
  /\ todo = {}
  /\ result' = "ok"
  /\ UNCHANGED <<defs, needed, todo, stack, state, order>>

Next ==
  \/ \E k \in Key : AlreadyDone(k) \/ CycleFound(k) \/ UndefinedFound(k) \/ Enter(k)
  \/ Leave
  \/ Return

Spec == Init /\ [][Next]_vars

(***************************************************************************)
(* The search is one thread of straight-line Go: it takes its next step.   *)
(***************************************************************************)
FairSpec == Spec /\ WF_vars(Next)

TypeOK ==
  /\ defs \in Graph
  /\ needed \in SUBSET Key
  /\ todo \in SUBSET Key
  /\ stack \in Seq(Frame)
  /\ state \in [Key -> {"new", "visiting", "done"}]
  /\ order \in Seq(Key)
  /\ result \in {"running", "ok", "cyclic", "undefined"}

(***************************************************************************)
(* The promise.                                                            *)
(***************************************************************************)
Plan == INSTANCE JoinPlan WITH plan <- IF result = "ok" THEN order ELSE <<>>

\* Every step of the search is a step of the promise or changes nothing the
\* caller sees: a plan is a dependency order of exactly the reachable joins,
\* and an error names a fault the reachable graph has (joins.go:24-27).
ImplementsPlan == Plan!Spec

\* At every moment of the search the joins already emitted come after their
\* Requires and are emitted once, also when the search fails later.
EmittedInOrder == Plan!DependenciesFirst(defs, order) /\ Plan!Once(order)

\* Nothing is emitted or visited that the needed keys do not reach: a join
\* that no live filter depends on never enters the statement.
OnlyReachable ==
  \A k \in Key : state[k] # "new" => k \in Plan!Reach(defs, needed)

\* The search ends on every graph, cyclic and dangling ones included.
Terminates == <>(result # "running")
=============================================================================
