--------------------------- MODULE JoinOrderProofs --------------------------
(***************************************************************************)
(* Proofs about orderJoins (joins.go) for every set of join keys, every    *)
(* graph over them - cyclic and dangling ones included - and every set of  *)
(* needed keys.                                                            *)
(***************************************************************************)
EXTENDS JoinOrder, SequenceTheorems, TLAPS

(***************************************************************************)
(* What the actions do to the stack, without Append and EXCEPT.            *)
(***************************************************************************)

\* Passing a key to dfs takes it out of the running loop and nothing else.
LEMMA VisitedStack ==
  ASSUME TypeOK, NEW k, Visited(k)
  PROVE  /\ todo' \in SUBSET Key
         /\ stack' \in Seq(Frame)
         /\ Len(stack') = Len(stack)
         /\ \A i \in 1 .. Len(stack) : stack'[i].key = stack[i].key
         /\ \A i \in 1 .. Len(stack) - 1 : stack'[i] = stack[i]
         /\ stack # <<>> => stack'[Len(stack)].reqs = stack[Len(stack)].reqs \ {k}
<1>1. CASE stack = <<>>
  BY <1>1 DEF Visited, TypeOK
<1>2. CASE stack # <<>>
  <2> DEFINE top == [stack[Len(stack)] EXCEPT !.reqs = @ \ {k}]
  <2>1. stack \in Seq(Frame) /\ Len(stack) \in 1 .. Len(stack)
    BY <1>2, EmptySeq DEF TypeOK
  <2>2. stack[Len(stack)] \in Frame
    BY <2>1, ElementOfSeq
  <2>3. top \in Frame /\ top.key = stack[Len(stack)].key /\ top.reqs = stack[Len(stack)].reqs \ {k}
    BY <2>2 DEF Frame
  <2>4. stack' = [stack EXCEPT ![Len(stack)] = top] /\ todo' = todo
    BY <1>2 DEF Visited
  <2> HIDE DEF top
  <2>5. /\ stack' \in Seq(Frame)
        /\ Len(stack') = Len(stack)
        /\ \A j \in 1 .. Len(stack) : stack'[j] = IF j = Len(stack) THEN top ELSE stack[j]
    BY <2>1, <2>3, <2>4, ExceptSeq
  <2>6. todo' \in SUBSET Key
    BY <2>4 DEF TypeOK
  <2> QED BY <2>1, <2>3, <2>5, <2>6
<1> QED BY <1>1, <1>2

\* Starting a loop adds a call with all the Requires of its key.
LEMMA EnterStack ==
  ASSUME TypeOK, NEW k \in Key, Enter(k)
  PROVE  /\ stack' \in Seq(Frame)
         /\ Len(stack') = Len(stack) + 1
         /\ stack'[Len(stack) + 1] = [key |-> k, reqs |-> defs[k]]
         /\ \A i \in 1 .. Len(stack) : stack'[i].key = stack[i].key
         /\ \A i \in 1 .. Len(stack) - 1 : stack'[i] = stack[i]
         /\ stack # <<>> => stack'[Len(stack)].reqs = stack[Len(stack)].reqs \ {k}
<1> DEFINE frame == [key |-> k, reqs |-> defs[k]]
<1>1. frame \in Frame
  BY DEF TypeOK, Enter, Graph, Frame
<1>2. CASE stack = <<>>
  <2>1. stack' = <<frame>>
    BY <1>2 DEF Enter
  <2>2. Len(stack) = 0 /\ <<frame>> \in Seq(Frame) /\ Len(<<frame>>) = 1
    BY <1>1, <1>2
  <2> QED BY <1>2, <2>1, <2>2
<1>3. CASE stack # <<>>
  <2> DEFINE top == [stack[Len(stack)] EXCEPT !.reqs = @ \ {k}]
             passed == [stack EXCEPT ![Len(stack)] = top]
  <2>1. stack \in Seq(Frame) /\ Len(stack) \in 1 .. Len(stack)
    BY <1>3, EmptySeq DEF TypeOK
  <2>2. stack[Len(stack)] \in Frame
    BY <2>1, ElementOfSeq
  <2>3. top \in Frame /\ top.key = stack[Len(stack)].key /\ top.reqs = stack[Len(stack)].reqs \ {k}
    BY <2>2 DEF Frame
  <2>4. stack' = Append(passed, frame)
    BY <1>3 DEF Enter
  <2> HIDE DEF top
  <2>5. /\ passed \in Seq(Frame)
        /\ Len(passed) = Len(stack)
        /\ \A j \in 1 .. Len(stack) : passed[j] = IF j = Len(stack) THEN top ELSE stack[j]
    BY <2>1, <2>3, ExceptSeq
  <2> HIDE DEF passed, frame
  <2>6. /\ stack' \in Seq(Frame)
        /\ Len(stack') = Len(passed) + 1
        /\ \A i \in 1 .. Len(passed) : stack'[i] = passed[i]
        /\ stack'[Len(passed) + 1] = frame
    BY <1>1, <2>4, <2>5, AppendProperties
  <2> QED BY <2>1, <2>3, <2>5, <2>6 DEF frame
<1> QED BY <1>2, <1>3

\* Returning from dfs drops the innermost call.
LEMMA LeaveStack ==
  ASSUME TypeOK, Leave
  PROVE  /\ Len(stack) \in Nat \ {0}
         /\ stack' \in Seq(Frame)
         /\ Len(stack') = Len(stack) - 1
         /\ \A i \in 1 .. Len(stack) - 1 : stack'[i] = stack[i]
<1>1. stack \in Seq(Frame) /\ Len(stack) \in Nat \ {0}
  BY EmptySeq DEF TypeOK, Leave
<1>2. \A i \in 1 .. Len(stack) - 1 : stack[i] \in Frame
  BY <1>1, ElementOfSeq
<1>3. stack' = SubSeq(stack, 1, Len(stack) - 1)
  BY DEF Leave
<1> DEFINE n == Len(stack) - 1
<1>4. n \in Int /\ 1 \in Int /\ \A i \in 1 .. n : stack[i] \in Frame
  BY <1>1, <1>2
<1> HIDE DEF n
<1>5. /\ SubSeq(stack, 1, n) \in Seq(Frame)
      /\ Len(SubSeq(stack, 1, n)) = IF 1 <= n THEN n - 1 + 1 ELSE 0
      /\ \A i \in 1 .. n - 1 + 1 : SubSeq(stack, 1, n)[i] = stack[1 + i - 1]
  BY <1>4, SubSeqProperties
<1>6. n \in Nat /\ n = Len(stack) - 1 /\ stack' = SubSeq(stack, 1, n)
  BY <1>1, <1>3 DEF n
<1>7. \A i \in 1 .. n : i \in 1 .. n - 1 + 1 /\ 1 + i - 1 = i
  BY <1>6
<1>8. Len(stack') = n /\ \A i \in 1 .. n : stack'[i] = stack[i]
  BY <1>5, <1>6, <1>7
<1> QED BY <1>1, <1>5, <1>6, <1>8

\* Emitting appends the key of the innermost call.
LEMMA LeaveOrder ==
  ASSUME TypeOK, Leave
  PROVE  LET k == stack[Len(stack)].key IN
         /\ k \in Key
         /\ order' \in Seq(Key)
         /\ Len(order') = Len(order) + 1
         /\ order'[Len(order) + 1] = k
         /\ \A i \in 1 .. Len(order) : order'[i] = order[i]
<1>1. Len(stack) \in 1 .. Len(stack) /\ stack \in Seq(Frame)
  BY LeaveStack DEF TypeOK
<1>2. stack[Len(stack)] \in Frame
  BY <1>1, ElementOfSeq
<1>3. stack[Len(stack)].key \in Key
  BY <1>2 DEF Frame
<1>4. order \in Seq(Key) /\ order' = Append(order, stack[Len(stack)].key)
  BY DEF TypeOK, Leave
<1> QED BY <1>3, <1>4, AppendProperties

(***************************************************************************)
(* The inductive invariant.                                                *)
(***************************************************************************)
\* The active calls are a path of the graph, on distinct keys, all visiting.
Path ==
  /\ \A i \in 1 .. Len(stack) :
       /\ stack[i].key \in DOMAIN defs
       /\ stack[i].reqs \subseteq defs[stack[i].key]
       /\ state[stack[i].key] = "visiting"
  /\ \A i \in 1 .. Len(stack) - 1 : stack[i + 1].key \in defs[stack[i].key]
  /\ \A i, j \in 1 .. Len(stack) : stack[i].key = stack[j].key => i = j

\* A key is visiting only while its call is active.
Visiting == \A k \in Key : state[k] = "visiting" => \E i \in 1 .. Len(stack) : stack[i].key = k

\* What a loop has passed to dfs is done, or is the call the loop waits for.
Progress ==
  /\ todo \subseteq needed
  /\ \A k \in needed \ todo : state[k] = "done" \/ (stack # <<>> /\ k = stack[1].key)
  /\ \A i \in 1 .. Len(stack) : \A r \in defs[stack[i].key] \ stack[i].reqs :
       state[r] = "done" \/ (i < Len(stack) /\ r = stack[i + 1].key)

\* The keys done are defined and are those emitted.
Emitted ==
  \A k \in Key :
    /\ state[k] = "done" <=> \E i \in 1 .. Len(order) : order[i] = k
    /\ state[k] = "done" => k \in DOMAIN defs /\ \A r \in defs[k] : state[r] = "done"

\* No key of a set in which every key requires another of the set is ever done.
KnotFree == \A C \in SUBSET Key : Plan!Knot(defs, C) => \A k \in C : state[k] # "done"

Search == TypeOK /\ Path /\ Visiting /\ Progress /\ Emitted /\ KnotFree /\ OnlyReachable

LEMMA InitSearch == Init => Search
<1> SUFFICES ASSUME Init PROVE Search
  OBVIOUS
<1>1. TypeOK
  BY EmptySeq DEF Init, TypeOK
<1>2. Len(stack) = 0 /\ Len(order) = 0
  BY DEF Init
<1> QED BY <1>1, <1>2 DEF Init, TypeOK, Search, Path, Visiting, Progress, Emitted, KnotFree, OnlyReachable

\* Every call starts on a key that the needed keys reach.
LEMMA PendingReached ==
  ASSUME Search, NEW k \in Key, Calls(k)
  PROVE  k \in Plan!Reach(defs, needed)
<1> SUFFICES ASSUME NEW S \in SUBSET Key, needed \subseteq S, Plan!Closed(defs, S)
             PROVE  k \in S
  BY DEF Plan!Reach
<1>1. CASE stack = <<>>
  BY <1>1 DEF Search, Progress, Calls, Pending
<1>2. CASE stack # <<>>
  <2> DEFINE top == stack[Len(stack)]
  <2>1. Len(stack) \in 1 .. Len(stack) /\ stack \in Seq(Frame)
    BY <1>2, EmptySeq DEF Search, TypeOK
  <2>2. top \in Frame
    BY <2>1, ElementOfSeq
  <2>3. top.key \in Key /\ top.key \in DOMAIN defs /\ k \in defs[top.key] /\ state[top.key] # "new"
    BY <1>2, <2>1, <2>2 DEF Search, Path, Calls, Pending, Frame
  <2>4. top.key \in S
    BY <2>3 DEF Search, OnlyReachable, Plan!Reach
  <2> QED BY <2>3, <2>4 DEF Plan!Closed, Plan!Requires
<1> QED BY <1>1, <1>2

(***************************************************************************)
(* Each step keeps it.                                                     *)
(***************************************************************************)
\* A step that changes neither the search nor its inputs.
LEMMA StillSearch ==
  ASSUME Search, UNCHANGED <<defs, needed, todo, stack, state, order>>,
         result' \in {"running", "ok", "cyclic", "undefined"}
  PROVE  Search'
<1>1. TypeOK'
  BY DEF Search, TypeOK
<1> QED BY <1>1 DEF Search, Path, Visiting, Progress, Emitted, KnotFree, OnlyReachable

LEMMA AlreadyDoneSearch ==
  ASSUME Search, NEW k \in Key, AlreadyDone(k)
  PROVE  Search'
<1>1. TypeOK /\ Visited(k) /\ state[k] = "done" /\ UNCHANGED <<defs, needed, state, order, result>>
  BY DEF Search, AlreadyDone
<1>2. /\ todo' \in SUBSET Key
      /\ stack' \in Seq(Frame)
      /\ Len(stack') = Len(stack)
      /\ \A i \in 1 .. Len(stack) : stack'[i].key = stack[i].key
      /\ \A i \in 1 .. Len(stack) - 1 : stack'[i] = stack[i]
      /\ stack # <<>> => stack'[Len(stack)].reqs = stack[Len(stack)].reqs \ {k}
  BY <1>1, VisitedStack
<1>3. Len(stack) \in Nat /\ (stack # <<>> <=> Len(stack) # 0) /\ (stack' # <<>> <=> Len(stack) # 0)
  BY <1>1, <1>2, EmptySeq DEF TypeOK
<1>4. \A i \in 1 .. Len(stack) : stack'[i].reqs \subseteq stack[i].reqs
                                /\ stack[i].reqs \ stack'[i].reqs \subseteq {k}
  BY <1>2, <1>3
<1>5. TypeOK'
  BY <1>1, <1>2 DEF TypeOK
<1>6. Path'
  BY <1>1, <1>2, <1>3, <1>4 DEF Search, Path
<1>7. Visiting'
  BY <1>1, <1>2 DEF Search, Visiting
<1>8. Progress'
  <2>1. todo' \subseteq todo /\ todo \ todo' \subseteq {k}
    BY <1>1 DEF Visited
  <2>2. (\A j \in needed \ todo : state[j] = "done" \/ (stack # <<>> /\ j = stack[1].key))'
    BY <1>1, <1>2, <1>3, <2>1 DEF Search, Progress
  <2>3. (\A i \in 1 .. Len(stack) : \A r \in defs[stack[i].key] \ stack[i].reqs :
          state[r] = "done" \/ (i < Len(stack) /\ r = stack[i + 1].key))'
    BY <1>1, <1>2, <1>3, <1>4 DEF Search, Progress
  <2> QED BY <1>1, <2>1, <2>2, <2>3 DEF Search, Progress
<1>9. Emitted' /\ KnotFree' /\ OnlyReachable'
  BY <1>1 DEF Search, Emitted, KnotFree, OnlyReachable
<1> QED BY <1>5, <1>6, <1>7, <1>8, <1>9 DEF Search

LEMMA EnterSearch ==
  ASSUME Search, NEW k \in Key, Enter(k)
  PROVE  Search'
<1> DEFINE n == Len(stack)
<1>1. /\ TypeOK /\ Calls(k) /\ state[k] = "new" /\ k \in DOMAIN defs
      /\ state' = [state EXCEPT ![k] = "visiting"]
      /\ UNCHANGED <<defs, needed, order, result>>
  BY DEF Search, Enter
<1>2. /\ stack' \in Seq(Frame)
      /\ Len(stack') = n + 1
      /\ stack'[n + 1] = [key |-> k, reqs |-> defs[k]]
      /\ \A i \in 1 .. n : stack'[i].key = stack[i].key
      /\ \A i \in 1 .. n - 1 : stack'[i] = stack[i]
      /\ stack # <<>> => stack'[n].reqs = stack[n].reqs \ {k}
  BY <1>1, EnterStack
<1>3. n \in Nat /\ (stack # <<>> <=> n # 0) /\ stack' # <<>>
  BY <1>1, <1>2, EmptySeq DEF TypeOK
<1>4. /\ state'[k] = "visiting"
      /\ \A j \in Key \ {k} : state'[j] = state[j]
      /\ state' \in [Key -> {"new", "visiting", "done"}]
  BY <1>1 DEF TypeOK
<1>5. \A i \in 1 .. n : stack[i].key \in Key /\ stack[i].key # k
  <2>1. \A i \in 1 .. n : stack[i] \in Frame
    BY <1>1, ElementOfSeq DEF TypeOK
  <2> QED BY <1>1, <2>1 DEF Search, Path, Frame
<1>6. n # 0 => k \in stack[n].reqs
  BY <1>1, <1>3 DEF Calls, Pending
<1>7. n = 0 => k \in todo /\ todo' = todo \ {k}
  BY <1>1, <1>3 DEF Calls, Pending, Enter
<1>8. n # 0 => todo' = todo
  BY <1>3 DEF Enter
<1> HIDE DEF n
<1>9. TypeOK'
  BY <1>1, <1>2, <1>4, <1>7, <1>8 DEF TypeOK
<1>10. Path'
  <2>1. \A i \in 1 .. n : /\ stack'[i].key \in DOMAIN defs
                          /\ stack'[i].reqs \subseteq defs[stack'[i].key]
                          /\ state'[stack'[i].key] = "visiting"
    BY <1>2, <1>3, <1>4, <1>5 DEF Search, Path, n
  <2>2. stack'[n + 1].key = k /\ stack'[n + 1].reqs = defs[k]
    BY <1>2
  <2>3. \A i \in 1 .. n : stack'[i + 1].key \in defs[stack'[i].key]
    <3> SUFFICES ASSUME NEW i \in 1 .. n PROVE stack'[i + 1].key \in defs[stack'[i].key]
      OBVIOUS
    <3>1. CASE i = n
      BY <1>2, <1>3, <1>6, <2>2, <3>1 DEF Search, Path, n
    <3>2. CASE i # n
      <4>1. i \in 1 .. n - 1 /\ i + 1 \in 1 .. n
        BY <1>3, <3>2
      <4> QED BY <1>2, <4>1 DEF Search, Path, n
    <3> QED BY <3>1, <3>2
  <2>4. \A i, j \in 1 .. n + 1 : stack'[i].key = stack'[j].key => i = j
    BY <1>2, <1>3, <1>5, <2>2 DEF Search, Path, n
  <2>5. \A i \in 1 .. n + 1 : i \in 1 .. n \/ i = n + 1
    BY <1>3
  <2>6. Len(stack') = n + 1 /\ Len(stack') - 1 = n /\ defs' = defs
    BY <1>1, <1>2, <1>3
  <2>7. \A i \in 1 .. n + 1 : /\ stack'[i].key \in DOMAIN defs
                          /\ stack'[i].reqs \subseteq defs[stack'[i].key]
                          /\ state'[stack'[i].key] = "visiting"
    BY <1>1, <1>4, <2>1, <2>2, <2>5
  <2>8. \A i \in 1 .. Len(stack') - 1 : stack'[i + 1].key \in defs'[stack'[i].key]
    BY <2>3, <2>6
  <2> QED BY <2>4, <2>6, <2>7, <2>8 DEF Path
<1>11. Visiting'
  <2> SUFFICES ASSUME NEW j \in Key, state'[j] = "visiting"
               PROVE  \E i \in 1 .. n + 1 : stack'[i].key = j
    BY <1>2 DEF Visiting
  <2>1. CASE j = k
    BY <1>2, <1>3, <2>1
  <2>2. CASE j # k
    <3>1. PICK i \in 1 .. n : stack[i].key = j
      BY <1>4, <2>2 DEF Search, Visiting, n
    <3> QED BY <1>2, <1>3, <3>1
  <2> QED BY <2>1, <2>2
<1>12. Progress'
  <2>1. todo' \subseteq needed
    BY <1>7, <1>8 DEF Search, Progress
  <2>2. \A j \in needed : state[j] = "done" => state'[j] = "done"
    BY <1>1, <1>4 DEF TypeOK
  <2>3. ASSUME NEW j \in needed \ todo'
        PROVE  state'[j] = "done" \/ j = stack'[1].key
    <3>1. CASE n = 0
      BY <1>2, <1>3, <1>7, <2>2, <3>1 DEF Search, Progress
    <3>2. CASE n # 0
      <4>1. 1 \in 1 .. n
        BY <1>3, <3>2
      <4> QED BY <1>2, <1>3, <1>8, <2>2, <3>2, <4>1 DEF Search, Progress
    <3> QED BY <3>1, <3>2
  <2>4. ASSUME NEW i \in 1 .. n + 1, NEW r \in defs[stack'[i].key] \ stack'[i].reqs
        PROVE  state'[r] = "done" \/ (i < n + 1 /\ r = stack'[i + 1].key)
    <3>1. i # n + 1
      BY <1>2, <2>4
    <3>2. i \in 1 .. n /\ i < n + 1
      BY <1>3, <3>1
    <3>3. CASE i = n /\ r = k
      BY <1>2, <3>2, <3>3
    <3>4. CASE ~(i = n /\ r = k)
      <4>1. r \in defs[stack[i].key] \ stack[i].reqs
        BY <1>2, <1>3, <2>4, <3>2, <3>4
      <4>2. state[r] = "done" \/ (i < n /\ r = stack[i + 1].key)
        BY <3>2, <4>1 DEF Search, Progress, n
      <4>3. CASE state[r] = "done"
        <5>1. r \in Key
          <6>1. defs[stack[i].key] \subseteq Key
            BY <1>1, <3>2 DEF Search, Path, TypeOK, Graph, n
          <6> QED BY <4>1, <6>1
        <5> QED BY <1>1, <1>4, <4>3, <5>1
      <4>4. CASE i < n /\ r = stack[i + 1].key
        BY <1>2, <1>3, <3>2, <4>4
      <4> QED BY <4>2, <4>3, <4>4
    <3> QED BY <3>3, <3>4
  <2> QED BY <1>1, <1>2, <1>3, <2>1, <2>3, <2>4 DEF Progress
<1>13. Emitted' /\ KnotFree'
  <2>1. \A j \in Key : state'[j] = "done" <=> state[j] = "done"
    BY <1>1, <1>4
  <2>2. \A j \in DOMAIN defs : defs[j] \subseteq Key
    BY <1>1 DEF TypeOK, Graph
  <2>3. Emitted'
    BY <1>1, <2>1, <2>2 DEF Search, Emitted
  <2>4. KnotFree'
    BY <1>1, <2>1 DEF Search, KnotFree, Plan!Knot, Plan!Requires
  <2> QED BY <2>3, <2>4
<1>14. OnlyReachable'
  <2>1. k \in Plan!Reach(defs, needed)
    BY <1>1, PendingReached
  <2> QED BY <1>1, <1>4, <2>1 DEF Search, OnlyReachable
<1> QED BY <1>9, <1>10, <1>11, <1>12, <1>13, <1>14 DEF Search

LEMMA LeaveSearch ==
  ASSUME Search, Leave
  PROVE  Search'
<1> DEFINE n == Len(stack)
           k == stack[n].key
           m == Len(order)
<1>1. /\ TypeOK
      /\ stack # <<>> /\ stack[n].reqs = {}
      /\ state' = [state EXCEPT ![k] = "done"]
      /\ UNCHANGED <<defs, needed, todo, result>>
  BY DEF Search, Leave, Pending
<1>2. /\ n \in Nat \ {0}
      /\ stack' \in Seq(Frame)
      /\ Len(stack') = n - 1
      /\ \A i \in 1 .. n - 1 : stack'[i] = stack[i]
  BY <1>1, LeaveStack
<1>3. /\ k \in Key
      /\ order' \in Seq(Key)
      /\ Len(order') = m + 1
      /\ order'[m + 1] = k
      /\ \A i \in 1 .. m : order'[i] = order[i]
      /\ m \in Nat
  BY <1>1, LeaveOrder DEF TypeOK
<1>4. /\ state'[k] = "done"
      /\ \A j \in Key \ {k} : state'[j] = state[j]
      /\ state' \in [Key -> {"new", "visiting", "done"}]
  BY <1>1, <1>3 DEF TypeOK
<1>5. /\ n \in 1 .. n /\ k \in DOMAIN defs /\ state[k] = "visiting"
      /\ \A i \in 1 .. n - 1 : stack[i].key # k
  BY <1>2 DEF Search, Path
<1>6. \A j \in DOMAIN defs : defs[j] \subseteq Key
  BY <1>1 DEF TypeOK, Graph
<1>7. \A r \in defs[k] : state[r] = "done"
  BY <1>1, <1>2, <1>5 DEF Search, Progress
<1>8. \A j \in Key : state[j] = "done" => state'[j] = "done"
  BY <1>4
<1>9. \A i \in 1 .. n : stack[i].key \in Key
  <2>1. \A i \in 1 .. n : stack[i] \in Frame
    BY <1>1, ElementOfSeq DEF TypeOK
  <2> QED BY <2>1 DEF Frame
<1> HIDE DEF k, m
<1>10. TypeOK'
  BY <1>1, <1>2, <1>3, <1>4 DEF TypeOK
<1>11. Path'
  <2>1. \A i \in 1 .. n - 1 : i \in 1 .. n /\ state'[stack[i].key] = state[stack[i].key]
    BY <1>2, <1>4, <1>5, <1>9
  <2>2. \A i \in 1 .. n - 1 - 1 : i \in 1 .. n - 1 /\ i + 1 \in 1 .. n - 1
    BY <1>2
  <2> QED BY <1>1, <1>2, <2>1, <2>2 DEF Search, Path
<1>12. Visiting'
  <2> SUFFICES ASSUME NEW j \in Key, state'[j] = "visiting"
               PROVE  \E i \in 1 .. n - 1 : stack'[i].key = j
    BY <1>2 DEF Visiting
  <2>1. j # k /\ state[j] = "visiting"
    BY <1>4
  <2>2. PICK i \in 1 .. n : stack[i].key = j
    BY <2>1 DEF Search, Visiting
  <2>3. i \in 1 .. n - 1
    BY <1>2, <2>1, <2>2 DEF k
  <2> QED BY <1>2, <2>2, <2>3
<1>13. Progress'
  <2>1. todo' \subseteq needed'
    BY <1>1 DEF Search, Progress
  <2>2. stack' # <<>> <=> n # 1
    BY <1>2, EmptySeq
  <2>3. ASSUME NEW j \in needed \ todo
        PROVE  state'[j] = "done" \/ (n # 1 /\ j = stack'[1].key)
    <3>1. state[j] = "done" \/ j = stack[1].key
      BY <2>3 DEF Search, Progress
    <3>2. j \in Key
      BY <1>1, <2>3 DEF TypeOK
    <3>3. CASE n = 1
      BY <1>4, <1>8, <3>1, <3>2, <3>3 DEF k
    <3>4. CASE n # 1
      <4>1. 1 \in 1 .. n - 1
        BY <1>2, <3>4
      <4> QED BY <1>2, <1>8, <3>1, <3>2, <3>4, <4>1
    <3> QED BY <3>3, <3>4
  <2>4. ASSUME NEW i \in 1 .. n - 1, NEW r \in defs[stack[i].key] \ stack[i].reqs
        PROVE  state'[r] = "done" \/ (i < n - 1 /\ r = stack'[i + 1].key)
    <3>1. i \in 1 .. n
      BY <1>2
    <3>2. stack[i].key \in DOMAIN defs
      BY <3>1 DEF Search, Path
    <3>3. r \in Key
      BY <1>6, <2>4, <3>2
    <3>4. state[r] = "done" \/ r = stack[i + 1].key
      BY <2>4, <3>1 DEF Search, Progress
    <3>5. CASE i = n - 1
      BY <1>2, <1>4, <1>8, <3>3, <3>4, <3>5 DEF k
    <3>6. CASE i # n - 1
      <4>1. i + 1 \in 1 .. n - 1 /\ i < n - 1
        BY <1>2, <3>6
      <4> QED BY <1>2, <1>8, <3>3, <3>4, <4>1
    <3> QED BY <3>5, <3>6
  <2>5. \A i \in 1 .. n - 1 : \A r \in defs[stack'[i].key] \ stack'[i].reqs :
          state'[r] = "done" \/ (i < n - 1 /\ r = stack'[i + 1].key)
    BY <1>2, <2>4
  <2> QED BY <1>1, <1>2, <2>1, <2>2, <2>3, <2>5 DEF Progress
<1>14. Emitted'
  <2> SUFFICES ASSUME NEW j \in Key
               PROVE  /\ state'[j] = "done" <=> \E i \in 1 .. m + 1 : order'[i] = j
                      /\ state'[j] = "done" => j \in DOMAIN defs /\ \A r \in defs[j] : state'[r] = "done"
    BY <1>1, <1>3 DEF Emitted
  <2>1. CASE j = k
    <3>1. state'[j] = "done" /\ m + 1 \in 1 .. m + 1 /\ order'[m + 1] = j
      BY <1>3, <1>4, <2>1
    <3>2. \A r \in defs[j] : state'[r] = "done"
      BY <1>5, <1>6, <1>7, <1>8, <2>1
    <3> QED BY <1>5, <2>1, <3>1, <3>2
  <2>2. CASE j # k
    <3>1. state'[j] = state[j]
      BY <1>4, <2>2
    <3>2. (\E i \in 1 .. m + 1 : order'[i] = j) <=> (\E i \in 1 .. m : order[i] = j)
      BY <1>3, <2>2
    <3>3. state[j] = "done" <=> \E i \in 1 .. m : order[i] = j
      BY DEF Search, Emitted, m
    <3>4. state[j] = "done" => j \in DOMAIN defs /\ \A r \in defs[j] : state[r] = "done"
      BY DEF Search, Emitted
    <3> QED BY <1>6, <1>8, <3>1, <3>2, <3>3, <3>4
  <2> QED BY <2>1, <2>2
<1>15. KnotFree'
  <2> SUFFICES ASSUME NEW C \in SUBSET Key, Plan!Knot(defs, C), NEW j \in C
               PROVE  state'[j] # "done"
    BY <1>1 DEF KnotFree, Plan!Knot, Plan!Requires
  <2>1. \A i \in C : state[i] # "done"
    BY DEF Search, KnotFree
  <2>2. j # k
    <3>1. Plan!Requires(defs, k) = defs[k]
      BY <1>5 DEF Plan!Requires
    <3> QED BY <1>7, <2>1, <3>1 DEF Plan!Knot
  <2> QED BY <1>4, <2>1, <2>2
<1>16. OnlyReachable'
  BY <1>1, <1>4, <1>5 DEF Search, OnlyReachable
<1> QED BY <1>10, <1>11, <1>12, <1>13, <1>14, <1>15, <1>16 DEF Search

LEMMA NextSearch == Search /\ [Next]_vars => Search'
<1> SUFFICES ASSUME Search, [Next]_vars PROVE Search'
  OBVIOUS
<1>1. ASSUME NEW k \in Key, AlreadyDone(k) PROVE Search'
  BY <1>1, AlreadyDoneSearch
<1>2. ASSUME NEW k \in Key, CycleFound(k) PROVE Search'
  BY <1>2, StillSearch DEF CycleFound
<1>3. ASSUME NEW k \in Key, UndefinedFound(k) PROVE Search'
  BY <1>3, StillSearch DEF UndefinedFound
<1>4. ASSUME NEW k \in Key, Enter(k) PROVE Search'
  BY <1>4, EnterSearch
<1>5. CASE Leave
  BY <1>5, LeaveSearch
<1>6. CASE Return
  BY <1>6, StillSearch DEF Return
<1>7. CASE UNCHANGED vars
  BY <1>7, StillSearch DEF vars, Search, TypeOK
<1> QED BY <1>1, <1>2, <1>3, <1>4, <1>5, <1>6, <1>7 DEF Next

LEMMA SpecSearch == Spec => []Search
BY InitSearch, NextSearch, PTL DEF Spec

(***************************************************************************)
(* Theorems.                                                               *)
(***************************************************************************)

\* The search keeps the types of its state: every key has a state, a call is
\* on a key of the registry, and the order holds keys.
THEOREM TypeCorrect == Spec => []TypeOK
BY SpecSearch, PTL DEF Search

\* The search visits only what the needed keys reach (joins.go:79-83): no join
\* that no live filter depends on enters the statement.
THEOREM ReachableOnly == Spec => []OnlyReachable
BY SpecSearch, PTL DEF Search

\* One step keeps the emitted joins in dependency order.
LEMMA NextInOrder ==
  ASSUME Search, EmittedInOrder, [Next]_vars
  PROVE  EmittedInOrder'
<1>1. CASE Leave
  <2> DEFINE k == stack[Len(stack)].key
             m == Len(order)
  <2>1. /\ TypeOK /\ order \in Seq(Key) /\ m \in Nat
        /\ defs' = defs /\ state[k] = "visiting" /\ k \in DOMAIN defs
        /\ \A r \in defs[k] : r \in Key /\ state[r] = "done"
    <3>1. TypeOK /\ stack \in Seq(Frame) /\ Len(stack) \in 1 .. Len(stack) /\ stack[Len(stack)].reqs = {}
      BY <1>1, LeaveStack DEF Search, TypeOK, Leave, Pending
    <3>2. k \in DOMAIN defs /\ state[k] = "visiting" /\ \A r \in defs[k] : state[r] = "done"
      BY <3>1 DEF Search, Path, Progress
    <3>3. order \in Seq(Key) /\ defs[k] \subseteq Key
      BY <3>1, <3>2 DEF TypeOK, Graph
    <3> QED BY <1>1, <3>1, <3>2, <3>3 DEF Leave
  <2>2. /\ k \in Key
        /\ order' \in Seq(Key)
        /\ Len(order') = m + 1
        /\ order'[m + 1] = k
        /\ \A i \in 1 .. m : order'[i] = order[i]
    BY <1>1, <2>1, LeaveOrder
  <2>3. DOMAIN order = 1 .. m /\ DOMAIN order' = 1 .. m + 1
    BY <2>1, <2>2, LenProperties
  <2> HIDE DEF k, m
  <2>4. \A i \in 1 .. m : order[i] # k
    BY <2>1, <2>2 DEF Search, Emitted, m
  <2>5. Plan!Once(order')
    BY <2>1, <2>2, <2>3, <2>4 DEF EmittedInOrder, Plan!Once
  <2>6. Plan!DependenciesFirst(defs, order')
    <3> SUFFICES ASSUME NEW i \in 1 .. m + 1, NEW r \in Plan!Requires(defs, order'[i])
                 PROVE  \E j \in 1 .. m + 1 : j < i /\ order'[j] = r
      BY <2>3 DEF Plan!DependenciesFirst
    <3>1. CASE i = m + 1
      <4>1. r \in defs[k]
        BY <2>1, <2>2, <3>1 DEF Plan!Requires
      <4>2. PICK j \in 1 .. m : order[j] = r
        BY <2>1, <4>1 DEF Search, Emitted, m
      <4> QED BY <2>1, <2>2, <3>1, <4>2
    <3>2. CASE i # m + 1
      <4>1. i \in 1 .. m /\ r \in Plan!Requires(defs, order[i])
        BY <2>1, <2>2, <3>2
      <4>2. PICK j \in 1 .. m : j < i /\ order[j] = r
        BY <2>3, <4>1 DEF EmittedInOrder, Plan!DependenciesFirst
      <4> QED BY <2>1, <2>2, <4>1, <4>2
    <3> QED BY <3>1, <3>2
  <2> QED BY <2>1, <2>5, <2>6 DEF EmittedInOrder
<1>2. CASE UNCHANGED <<defs, order>>
  BY <1>2 DEF EmittedInOrder, Plan!DependenciesFirst, Plan!Once, Plan!Requires
<1>3. Leave \/ UNCHANGED <<defs, order>>
  BY DEF Next, vars, AlreadyDone, CycleFound, UndefinedFound, Enter, Return
<1> QED BY <1>1, <1>2, <1>3

\* At every moment, also when the search fails later, what is emitted stands
\* after what it requires, and once (joins.go:66-76).
THEOREM InOrderAlways == Spec => []EmittedInOrder
<1>1. Init => EmittedInOrder
  <2> SUFFICES ASSUME Init PROVE EmittedInOrder
    OBVIOUS
  <2>1. order = <<>>
    BY DEF Init
  <2> QED BY <2>1 DEF EmittedInOrder, Plan!DependenciesFirst, Plan!Once
<1>2. Search /\ EmittedInOrder /\ [Next]_vars => EmittedInOrder'
  BY NextInOrder
<1> QED BY <1>1, <1>2, SpecSearch, PTL DEF Spec

(***************************************************************************)
(* The search implements the promise of JoinPlan.                          *)
(***************************************************************************)

\* A key found visiting closes a cycle: the calls from its own to the
\* innermost are a set in which every key requires another.
LEMMA CycleIsReal ==
  ASSUME Search, NEW k \in Key, CycleFound(k)
  PROVE  Plan!Cyclic(defs, needed)
<1> DEFINE n == Len(stack)
<1>1. /\ TypeOK /\ Calls(k) /\ state[k] = "visiting" /\ n \in Nat
      /\ \A i \in 1 .. n : stack[i].key \in Key
  <2>1. TypeOK /\ stack \in Seq(Frame) /\ n \in Nat
    BY LenProperties DEF Search, TypeOK
  <2>2. \A i \in 1 .. n : stack[i] \in Frame
    BY <2>1, ElementOfSeq
  <2> QED BY <2>1, <2>2 DEF CycleFound, Frame
<1>2. PICK c \in 1 .. n : stack[c].key = k
  BY <1>1 DEF Search, Visiting
<1>3. n \in 1 .. n /\ k \in defs[stack[n].key]
  <2>1. stack # <<>> /\ n \in 1 .. n
    BY <1>1, <1>2
  <2> QED BY <1>1, <2>1 DEF Search, Path, Calls, Pending
<1> DEFINE C == {stack[i].key : i \in c .. n}
<1>4. C \in SUBSET Plan!Reach(defs, needed)
  <2> SUFFICES ASSUME NEW i \in c .. n PROVE stack[i].key \in Plan!Reach(defs, needed)
    OBVIOUS
  <2>1. i \in 1 .. n
    BY <1>1, <1>2
  <2>2. stack[i].key \in Key /\ state[stack[i].key] = "visiting"
    BY <1>1, <2>1 DEF Search, Path
  <2> QED BY <2>2 DEF Search, OnlyReachable
<1>5. Plan!Knot(defs, C)
  <2>1. k \in C
    BY <1>1, <1>2
  <2>2. ASSUME NEW i \in c .. n
        PROVE  Plan!Requires(defs, stack[i].key) \cap C # {}
    <3>1. i \in 1 .. n /\ Plan!Requires(defs, stack[i].key) = defs[stack[i].key]
      BY <1>1, <1>2 DEF Search, Path, Plan!Requires
    <3>2. CASE i = n
      BY <1>3, <2>1, <3>1, <3>2
    <3>3. CASE i # n
      <4>1. i \in 1 .. n - 1 /\ i + 1 \in c .. n
        BY <1>1, <1>2, <3>1, <3>3
      <4>2. stack[i + 1].key \in defs[stack[i].key]
        BY <4>1 DEF Search, Path
      <4> QED BY <3>1, <4>1, <4>2
    <3> QED BY <3>2, <3>3
  <2> QED BY <2>1, <2>2 DEF Plan!Knot
<1> QED BY <1>4, <1>5 DEF Plan!Cyclic

\* A key without definition that dfs is called on is one that is reached.
LEMMA UndefinedIsReal ==
  ASSUME Search, NEW k \in Key, UndefinedFound(k)
  PROVE  Plan!Undefined(defs, needed)
BY PendingReached DEF UndefinedFound, Plan!Undefined

\* When the loop over the needed keys has ended, the keys done are the keys
\* reached, all defined, on no cycle, and the order is a plan.
LEMMA ReturnIsPlan ==
  ASSUME Search, EmittedInOrder, Return
  PROVE  /\ Plan!ValidPlan(defs, needed, order)
         /\ ~Plan!Undefined(defs, needed)
         /\ ~Plan!Cyclic(defs, needed)
<1> DEFINE Done == {k \in Key : state[k] = "done"}
<1>1. TypeOK /\ needed \subseteq Done
  BY DEF Search, Progress, Return, TypeOK
<1>2. Plan!Closed(defs, Done)
  <2>1. \A k \in DOMAIN defs : defs[k] \subseteq Key
    BY <1>1 DEF TypeOK, Graph
  <2> QED BY <2>1 DEF Search, Emitted, Plan!Closed, Plan!Requires
<1>3. Plan!Reach(defs, needed) = Done
  <2>1. Plan!Reach(defs, needed) \subseteq Done
    BY <1>1, <1>2 DEF Plan!Reach
  <2>2. Done \subseteq Plan!Reach(defs, needed)
    BY DEF Search, OnlyReachable
  <2> QED BY <2>1, <2>2
<1>4. Plan!ValidPlan(defs, needed, order)
  <2>1. order \in Seq(Key) /\ DOMAIN order = 1 .. Len(order) /\ \A i \in 1 .. Len(order) : order[i] \in Key
    BY <1>1, LenProperties, ElementOfSeq DEF TypeOK
  <2>2. Plan!Elements(order) = Done
    BY <2>1 DEF Search, Emitted, Plan!Elements
  <2> QED BY <1>3, <2>1, <2>2 DEF EmittedInOrder, Plan!ValidPlan
<1>5. ~Plan!Undefined(defs, needed)
  BY <1>3 DEF Search, Emitted, Plan!Undefined
<1>6. ~Plan!Cyclic(defs, needed)
  <2> SUFFICES ASSUME NEW C \in SUBSET Done, Plan!Knot(defs, C) PROVE FALSE
    BY <1>3 DEF Plan!Cyclic
  <2>1. C \in SUBSET Key /\ C # {}
    BY DEF Plan!Knot
  <2> QED BY <2>1 DEF Search, KnotFree
<1> QED BY <1>4, <1>5, <1>6

\* orderJoins keeps the promise of JoinPlan for every graph (joins.go:24-27): a
\* plan is a dependency order of exactly the joins reached, and an error names
\* a fault that the graph reached has.
THEOREM Implementation == Spec => ImplementsPlan
<1>1. Init => Plan!Init
  BY DEF Init, Plan!Init, Graph, Plan!Graph
<1>2. Search /\ EmittedInOrder /\ [Next]_vars => [Plan!Next]_(Plan!vars)
  <2> SUFFICES ASSUME Search, EmittedInOrder, [Next]_vars PROVE [Plan!Next]_(Plan!vars)
    OBVIOUS
  <2>1. ASSUME NEW k \in Key, CycleFound(k) PROVE Plan!Next
    <3>1. Plan!Cyclic(defs, needed)
      BY <2>1, CycleIsReal
    <3> QED BY <2>1, <3>1 DEF CycleFound, Calls, Plan!Next, Plan!Fail
  <2>2. ASSUME NEW k \in Key, UndefinedFound(k) PROVE Plan!Next
    <3>1. Plan!Undefined(defs, needed)
      BY <2>2, UndefinedIsReal
    <3> QED BY <2>2, <3>1 DEF UndefinedFound, Calls, Plan!Next, Plan!Fail
  <2>3. CASE Return
    BY <2>3, ReturnIsPlan DEF Return, Plan!Next, Plan!Succeed
  <2>4. CASE Leave
    BY <2>4 DEF Leave, Plan!vars
  <2>5. ASSUME NEW k \in Key, AlreadyDone(k) \/ Enter(k) PROVE UNCHANGED Plan!vars
    BY <2>5 DEF AlreadyDone, Enter, Plan!vars
  <2>6. CASE UNCHANGED vars
    BY <2>6 DEF vars, Plan!vars
  <2> QED BY <2>1, <2>2, <2>3, <2>4, <2>5, <2>6 DEF Next
<1> QED BY <1>1, <1>2, SpecSearch, InOrderAlways, PTL DEF Spec, ImplementsPlan, Plan!Spec
=============================================================================
