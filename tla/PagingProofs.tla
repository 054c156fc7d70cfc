---------------------------- MODULE PagingProofs ----------------------------
(***************************************************************************)
(* Theorems about Paging under the contract of PagingContract: the pages   *)
(* stand in order, nothing that stays is skipped, and the walk implements  *)
(* the scan - whatever the other clients write.                            *)
(***************************************************************************)
EXTENDS PagingContract, SequenceLemmas, FiniteSetTheorems, FunctionTheorems

\* The value of a row under the i-th sort of a request.
Key(q, i, r) == SelectExpr(q.sorts[i].key, r)

Lt(q, a, b) == Before(q.dialect, q.sorts, a, b)

\* The cursor of a row.
At(q, r) == << [k \in Keys(q.sorts) |-> r[Field[k].column]] >>

LEMMA ContractHolds == \A q \in Contracted : q \in Request /\ Contract(q)
BY DEF Contracted

(***************************************************************************)
(* Before is a strict order, total on rows of different id.                *)
(***************************************************************************)

\* Between two values that are not NULL the terms of every dialect compare by
\* the direction of the sort alone.
LEMMA PlainAhead ==
  ASSUME NEW d, NEW s, NEW x \in Nat, NEW y \in Nat, x # Null, y # Null
  PROVE  Ahead(d, s, x, y) <=> IF s.desc THEN x > y ELSE x < y
<1>1. CASE d = "mysql" /\ s.nulls # "default"
  <2> DEFINE t1 == TermOf(IF s.nulls = "first" THEN "not null" ELSE "null", FALSE, "default")
             t2 == TermOf("value", s.desc, "default")
  <2>1. OrderTerm(d, s) = <<t1, t2>>
    BY <1>1 DEF OrderTerm
  <2>2. Tested(t1, x) = Tested(t1, y) /\ Tested(t1, x) \in Nat /\ t1.desc = FALSE
    BY DEF Tested, TermOf
  <2>3. Tested(t2, x) = x /\ Tested(t2, y) = y /\ t2.desc = s.desc
    BY DEF Tested, TermOf
  <2> HIDE DEF t1, t2
  <2>4. ~TermAhead(d, t1, x, y)
    <3>1. t1.desc = FALSE /\ ~(Tested(t1, x) < Tested(t1, y))
      BY <2>2
    <3> QED BY <2>2, <3>1 DEF TermAhead
  <2>5. TermAhead(d, t2, x, y) <=> IF s.desc THEN x > y ELSE x < y
    BY <2>3 DEF TermAhead
  <2>6. DOMAIN <<t1, t2>> = {1, 2} /\ <<t1, t2>>[1] = t1 /\ <<t1, t2>>[2] = t2
    OBVIOUS
  <2> QED BY <2>1, <2>2, <2>4, <2>5, <2>6 DEF Ahead
<1>2. CASE ~(d = "mysql" /\ s.nulls # "default")
  <2> DEFINE t == TermOf("value", s.desc, s.nulls)
  <2>1. OrderTerm(d, s) = <<t>>
    BY <1>2 DEF OrderTerm
  <2>2. Tested(t, x) = x /\ Tested(t, y) = y /\ t.desc = s.desc
    BY DEF Tested, TermOf
  <2>3. TermAhead(d, t, x, y) <=> IF s.desc THEN x > y ELSE x < y
    BY <2>2 DEF TermAhead
  <2> HIDE DEF t
  <2>4. DOMAIN <<t>> = {1} /\ <<t>>[1] = t
    OBVIOUS
  <2> QED BY <2>1, <2>3, <2>4 DEF Ahead
<1> QED BY <1>1, <1>2

\* Under the contract a sort value is the column's, and a number.
LEMMA PlainKey ==
  ASSUME NEW q \in Contracted, NEW i \in DOMAIN q.sorts, NEW r \in Row
  PROVE  /\ Key(q, i, r) \in Nat
         /\ Key(q, i, r) # Null
         /\ Key(q, i, r) = r[Field[q.sorts[i].key].column]
         /\ q.sorts[i].key \in Keys(q.sorts)
<1>1. q.sorts[i].key \in Keys(q.sorts)
  BY DEF Keys
<1>2. Plain(q.sorts)
  BY ContractHolds DEF Contract
<1> QED BY <1>1, <1>2 DEF Plain, Key, SelectExpr

\* Lexicographic, by the direction of each key.
Dir(q, i, x, y) == IF q.sorts[i].desc THEN x > y ELSE x < y

LEMMA LtIs ==
  ASSUME NEW q \in Contracted, NEW a \in Row, NEW b \in Row
  PROVE  Lt(q, a, b) <=>
           \E i \in DOMAIN q.sorts :
             /\ \A j \in 1 .. i - 1 : Key(q, j, a) = Key(q, j, b)
             /\ Dir(q, i, Key(q, i, a), Key(q, i, b))
<1>1. \A i \in DOMAIN q.sorts :
        Ahead(q.dialect, q.sorts[i], Key(q, i, a), Key(q, i, b)) <=> Dir(q, i, Key(q, i, a), Key(q, i, b))
  BY PlainKey, PlainAhead DEF Dir
<1> QED BY <1>1 DEF Lt, Before, Key

LEMMA SortsAre ==
  ASSUME NEW q \in Contracted
  PROVE  DOMAIN q.sorts = 1 .. Len(q.sorts) /\ Len(q.sorts) \in Nat /\ Len(q.sorts) > 0
BY ContractHolds, RequestAssumption DEF Contract

LEMMA LtIrreflexive ==
  ASSUME NEW q \in Contracted, NEW a \in Row
  PROVE  ~Lt(q, a, a)
BY LtIs, PlainKey DEF Dir

LEMMA LtTransitive ==
  ASSUME NEW q \in Contracted, NEW a \in Row, NEW b \in Row, NEW c \in Row, Lt(q, a, b), Lt(q, b, c)
  PROVE  Lt(q, a, c)
<1>1. PICK i \in DOMAIN q.sorts :
        /\ \A j \in 1 .. i - 1 : Key(q, j, a) = Key(q, j, b)
        /\ Dir(q, i, Key(q, i, a), Key(q, i, b))
  BY LtIs
<1>2. PICK k \in DOMAIN q.sorts :
        /\ \A j \in 1 .. k - 1 : Key(q, j, b) = Key(q, j, c)
        /\ Dir(q, k, Key(q, k, b), Key(q, k, c))
  BY LtIs
<1>3. i \in Nat /\ k \in Nat /\ i > 0 /\ k > 0
  BY SortsAre
<1>4. \A r \in {a, b, c} : Key(q, i, r) \in Nat /\ Key(q, k, r) \in Nat
  BY PlainKey
<1>5. CASE i < k
  <2>1. \A j \in 1 .. i - 1 : Key(q, j, a) = Key(q, j, c)
    BY <1>1, <1>2, <1>3, <1>5
  <2>2. Key(q, i, b) = Key(q, i, c)
    BY <1>2, <1>3, <1>5
  <2> QED BY <1>1, <2>1, <2>2, LtIs
<1>6. CASE k < i
  <2>1. \A j \in 1 .. k - 1 : Key(q, j, a) = Key(q, j, c)
    BY <1>1, <1>2, <1>3, <1>6
  <2>2. Key(q, k, a) = Key(q, k, b)
    BY <1>1, <1>3, <1>6
  <2> QED BY <1>2, <2>1, <2>2, LtIs
<1>7. CASE i = k
  <2>1. \A j \in 1 .. i - 1 : Key(q, j, a) = Key(q, j, c)
    BY <1>1, <1>2, <1>7
  <2>2. Dir(q, i, Key(q, i, a), Key(q, i, c))
    BY <1>1, <1>2, <1>4, <1>7 DEF Dir
  <2> QED BY <2>1, <2>2, LtIs
<1> QED BY <1>3, <1>5, <1>6, <1>7

\* The first sort in which two rows differ.
LEMMA FirstDifference ==
  ASSUME NEW q \in Contracted, NEW a \in Row, NEW b \in Row,
         \E i \in DOMAIN q.sorts : Key(q, i, a) # Key(q, i, b)
  PROVE  \E i \in DOMAIN q.sorts :
           /\ Key(q, i, a) # Key(q, i, b)
           /\ \A j \in 1 .. i - 1 : Key(q, j, a) = Key(q, j, b)
<1> DEFINE D == {i \in DOMAIN q.sorts : Key(q, i, a) # Key(q, i, b)}
<1>1. D # {} /\ D \subseteq Nat
  BY SortsAre
<1>2. PICK i \in D : \A j \in D : i <= j
  BY <1>1, Least
<1>3. \A j \in 1 .. i - 1 : j \in DOMAIN q.sorts /\ j \notin D
  BY <1>1, <1>2, SortsAre
<1> QED BY <1>2, <1>3

LEMMA LtTotal ==
  ASSUME NEW q \in Contracted, NEW a \in Row, NEW b \in Row, a.id # b.id
  PROVE  Lt(q, a, b) \/ Lt(q, b, a)
<1>1. PICK k \in Keys(q.sorts) : SelectExpr(k, a) # SelectExpr(k, b)
  BY ContractHolds DEF Contract, Unique
<1>2. PICK i \in DOMAIN q.sorts : q.sorts[i].key = k
  BY DEF Keys
<1>3. Key(q, i, a) # Key(q, i, b)
  BY <1>1, <1>2 DEF Key
<1>4. PICK j \in DOMAIN q.sorts :
        /\ Key(q, j, a) # Key(q, j, b)
        /\ \A m \in 1 .. j - 1 : Key(q, m, a) = Key(q, m, b)
  BY <1>3, FirstDifference
<1>5. Dir(q, j, Key(q, j, a), Key(q, j, b)) \/ Dir(q, j, Key(q, j, b), Key(q, j, a))
  BY <1>4, PlainKey DEF Dir
<1>6. \A m \in 1 .. j - 1 : Key(q, m, b) = Key(q, m, a)
  BY <1>4
<1> QED BY <1>4, <1>5, <1>6, LtIs

(***************************************************************************)
(* The cursor of a row seeks what comes after the row.                     *)
(***************************************************************************)
LEMMA CursorSurvives ==
  ASSUME NEW q \in Contracted, NEW c \in Row
  PROVE  /\ DOMAIN Decoded(At(q, c)) = Keys(q.sorts)
         /\ \A k \in Keys(q.sorts) : Decoded(At(q, c))[k] = c[Field[k].column]
<1>1. Plain(q.sorts)
  BY ContractHolds DEF Contract
<1>2. At(q, c) # <<>>
  BY DEF At
<1>3. \A k \in Keys(q.sorts) : k \in Numeric => Float64(c[Field[k].column]) = c[Field[k].column]
  BY <1>1 DEF Plain, Float64
<1> DEFINE cur == [k \in Keys(q.sorts) |-> c[Field[k].column]]
<1>4. At(q, c)[1] = cur
  BY DEF At
<1>5. Decoded(At(q, c)) =
        [k \in DOMAIN cur |-> IF k \in Numeric /\ cur[k] # Null THEN Float64(cur[k]) ELSE cur[k]]
  BY <1>2, <1>4 DEF Decoded
<1> QED BY <1>3, <1>5

LEMMA SeekIsAfter ==
  ASSUME NEW q \in Contracted, NEW c \in Row, NEW r \in Row
  PROVE  Seek(q.sorts, Decoded(At(q, c)), r) <=> Lt(q, c, r)
<1> DEFINE cur == Decoded(At(q, c))
<1>1. q.sorts # <<>> /\ DOMAIN cur # {}
  <2>1. 1 \in DOMAIN q.sorts
    BY SortsAre
  <2>2. q.sorts[1].key \in DOMAIN cur
    BY <2>1, CursorSurvives, PlainKey
  <2> QED BY <2>1, <2>2
<1>2. \A i \in DOMAIN q.sorts : cur[q.sorts[i].key] = Key(q, i, c)
  BY CursorSurvives, PlainKey
<1> HIDE DEF cur
<1>3. \A i \in DOMAIN q.sorts :
        /\ Level(Key(q, i, r), cur[q.sorts[i].key]) <=> Key(q, i, c) = Key(q, i, r)
        /\ Past(q.sorts[i], Key(q, i, r), cur[q.sorts[i].key]) <=> Dir(q, i, Key(q, i, c), Key(q, i, r))
  BY <1>2, PlainKey DEF Level, Past, Dir
<1>4. \A i \in DOMAIN q.sorts : \A j \in 1 .. i - 1 : j \in DOMAIN q.sorts
  BY SortsAre
<1>5. Seek(q.sorts, cur, r) <=>
        \E i \in DOMAIN q.sorts :
          /\ \A j \in 1 .. i - 1 : Level(Key(q, j, r), cur[q.sorts[j].key])
          /\ Past(q.sorts[i], Key(q, i, r), cur[q.sorts[i].key])
  BY <1>1 DEF Seek, Key
<1>6. Seek(q.sorts, cur, r) <=> Lt(q, c, r)
  BY <1>3, <1>4, <1>5, LtIs
<1> QED BY <1>6 DEF cur

(***************************************************************************)
(* The invariant: what has been delivered, and the answer on its way.      *)
(***************************************************************************)

\* What the walk set out for, and has not passed.
Reach(r) == Seek(request.sorts, Decoded(request.start), r)

Passed(r) == ~\A i \in DOMAIN met : Lt(request, met[i], r)

Unread(r) == Reach(r) /\ ~Passed(r)

Shape ==
  /\ request \in Contracted
  /\ table \in Tables
  /\ since \subseteq table
  /\ fetched \in Seq(Row) /\ met \in Seq(Row)

\* The client's cursor is the one it began with, or that of the last row it has.
TokenOfLast ==
  pc \in {"idle", "scanning"} =>
    token = IF met = <<>> THEN request.start ELSE At(request, met[Len(met)])

MetReached == \A i \in DOMAIN met : Reach(met[i])

\* The answer on its way holds unread rows in order, and all those that stayed,
\* up to the last one if the limit cut it off.
AnswerHolds ==
  pc = "scanning" =>
    /\ \A i, j \in DOMAIN fetched : i < j => Lt(request, fetched[i], fetched[j])
    /\ \A i \in DOMAIN fetched : fetched[i] \in Wanted /\ Unread(fetched[i])
    /\ request.limit > 0 => Len(fetched) <= request.limit + 1
    /\ \A r \in since \cap Wanted :
         Unread(r) =>
           \/ \E i \in DOMAIN fetched : r = fetched[i]
           \/ /\ request.limit > 0 /\ Len(fetched) = request.limit + 1
              /\ \A i \in DOMAIN fetched : Lt(request, fetched[i], r)

Inv == Shape /\ TokenOfLast /\ MetOrdered /\ MetReached /\ AnswerHolds /\ StayersMet

\* The rows a statement reads are those unread.
LEMMA SoughtIsUnread ==
  ASSUME Inv, pc = "idle"
  PROVE  \A r \in Row : Seek(request.sorts, Decoded(token), r) <=> Unread(r)
<1> SUFFICES ASSUME NEW r \in Row PROVE Seek(request.sorts, Decoded(token), r) <=> Unread(r)
  OBVIOUS
<1>1. CASE met = <<>>
  <2>1. token = request.start /\ DOMAIN met = {}
    BY <1>1 DEF Inv, TokenOfLast
  <2> QED BY <2>1 DEF Unread, Passed, Reach
<1>2. CASE met # <<>>
  <2>1. /\ Len(met) \in Nat /\ Len(met) \in DOMAIN met /\ DOMAIN met = 1 .. Len(met)
        /\ \A i \in DOMAIN met : met[i] \in Row
    BY <1>2 DEF Inv, Shape
  <2> DEFINE last == met[Len(met)]
  <2>2. token = At(request, last) /\ last \in Row /\ request \in Contracted
    BY <1>2, <2>1 DEF Inv, TokenOfLast, Shape
  <2>3. Seek(request.sorts, Decoded(token), r) <=> Lt(request, last, r)
    BY <2>2, SeekIsAfter
  <2>4. ASSUME Lt(request, last, r) PROVE Reach(r)
    <3>1. Reach(last)
      BY <2>1 DEF Inv, MetReached
    <3>2. CASE request.start = <<>>
      BY <3>2 DEF Reach, Seek, Decoded
    <3>3. CASE request.start # <<>>
      <4>1. PICK c \in Row : request.start = At(request, c)
        BY <2>2, <3>3, ContractHolds DEF Contract, At
      <4>2. Lt(request, c, last)
        BY <2>2, <3>1, <4>1, SeekIsAfter DEF Reach
      <4>3. Lt(request, c, r)
        BY <2>2, <2>4, <4>2, LtTransitive
      <4> QED BY <2>2, <4>1, <4>3, SeekIsAfter DEF Reach
    <3> QED BY <3>2, <3>3
  <2>5. ASSUME Lt(request, last, r), NEW i \in DOMAIN met PROVE Lt(request, met[i], r)
    <3>1. CASE i = Len(met)
      BY <2>5, <3>1
    <3>2. CASE i # Len(met)
      <4>1. i < Len(met)
        BY <2>1, <3>2
      <4>2. Lt(request, met[i], last)
        BY <2>1, <4>1 DEF Inv, MetOrdered, Lt
      <4> QED BY <2>1, <2>2, <2>5, <4>2, LtTransitive
    <3> QED BY <3>1, <3>2
  <2> QED BY <2>1, <2>3, <2>4, <2>5 DEF Unread, Passed
<1> QED BY <1>1, <1>2

\* What a statement with a limit returns, of rows of different id.
LEMMA AnswerFacts ==
  ASSUME NEW q \in Contracted, NEW t \in Tables, NEW rows \in SUBSET t, NEW limit \in Nat,
         NEW seq \in {s \in UNION {[1 .. n -> rows] : n \in 0 .. Cardinality(rows)} :
           /\ \A i, j \in DOMAIN s : i < j => s[i] # s[j] /\ ~Before(q.dialect, q.sorts, s[j], s[i])
           /\ \A r \in rows \ {s[i] : i \in DOMAIN s} :
                /\ limit > 0 /\ Len(s) = limit
                /\ \A i \in DOMAIN s : ~Before(q.dialect, q.sorts, r, s[i])
           /\ limit > 0 => Len(s) <= limit}
  PROVE  /\ seq \in Seq(rows) /\ seq \in Seq(Row)
         /\ \A i, j \in DOMAIN seq : i < j => Lt(q, seq[i], seq[j])
         /\ limit > 0 => Len(seq) <= limit
         /\ \A r \in rows :
              \/ \E i \in DOMAIN seq : r = seq[i]
              \/ /\ limit > 0 /\ Len(seq) = limit
                 /\ \A i \in DOMAIN seq : Lt(q, seq[i], r)
<1>1. rows \subseteq Row /\ \A a, b \in rows : a.id = b.id => a = b
  BY DEF Tables
<1>2. Cardinality(rows) \in Nat
  BY <1>1, FiniteRows, FS_Subset, FS_CardinalityType
<1>3. PICK n \in Nat : seq \in [1 .. n -> rows]
  BY <1>2
<1>4. seq \in Seq(rows) /\ seq \in Seq(Row)
  BY <1>1, <1>3, SeqDef
<1>5. \A i \in DOMAIN seq : seq[i] \in rows
  BY <1>3
<1>6. ASSUME NEW a \in rows, NEW b \in rows, a # b, ~Lt(q, b, a) PROVE Lt(q, a, b)
  BY <1>1, <1>6, LtTotal
<1>7. ASSUME NEW i \in DOMAIN seq, NEW j \in DOMAIN seq, i < j PROVE Lt(q, seq[i], seq[j])
  <2>1. seq[i] # seq[j] /\ ~Lt(q, seq[j], seq[i])
    BY <1>7 DEF Lt
  <2> QED BY <1>5, <1>6, <2>1
<1>8. ASSUME NEW r \in rows, ~\E i \in DOMAIN seq : r = seq[i]
      PROVE  limit > 0 /\ Len(seq) = limit /\ \A i \in DOMAIN seq : Lt(q, seq[i], r)
  <2>1. r \in rows \ {seq[i] : i \in DOMAIN seq}
    BY <1>8
  <2>2. limit > 0 /\ Len(seq) = limit /\ \A i \in DOMAIN seq : ~Lt(q, r, seq[i])
    BY <2>1 DEF Lt
  <2> QED BY <1>5, <1>6, <1>8, <2>2
<1> QED BY <1>4, <1>7, <1>8

LEMMA InitInv == Init /\ Agreed => Inv
<1> SUFFICES ASSUME Init, Agreed PROVE Inv
  OBVIOUS
<1>1. Shape
  <2>1. <<>> \in Seq(Row)
    BY EmptySeq
  <2> QED BY <2>1 DEF Init, Shape, Agreed
<1>2. DOMAIN met = {}
  BY DEF Init
<1>3. TokenOfLast /\ MetOrdered /\ MetReached /\ AnswerHolds
  BY <1>2 DEF Init, TokenOfLast, MetOrdered, MetReached, AnswerHolds
<1>4. StayersMet
  BY <1>2 DEF Init, StayersMet, Position
<1> QED BY <1>1, <1>3, <1>4 DEF Inv

LEMMA RefuseInv == ASSUME Inv, Refuse PROVE Inv'
<1>1. Shape' /\ TokenOfLast' /\ AnswerHolds' /\ StayersMet'
  BY DEF Inv, Refuse, Shape, TokenOfLast, AnswerHolds, StayersMet
<1>2. MetOrdered' /\ MetReached'
  BY DEF Inv, Refuse, MetOrdered, MetReached, Reach
<1> QED BY <1>1, <1>2 DEF Inv

LEMMA CountInv == ASSUME Inv, Count PROVE Inv'
<1>1. Shape' /\ TokenOfLast' /\ MetOrdered' /\ MetReached'
  BY DEF Inv, Count, Shape, TokenOfLast, MetOrdered, MetReached, Reach
<1>2. AnswerHolds' /\ StayersMet'
  BY DEF Inv, Count, AnswerHolds, StayersMet, Position, Unread, Passed, Reach
<1> QED BY <1>1, <1>2 DEF Inv

\* A write takes rows out of what must be found, and changes nothing else here.
LEMMA WriteInv == ASSUME Inv, NEW t \in Tables, Write(t) PROVE Inv'
<1>1. since' \subseteq since /\ UNCHANGED <<request, pc, token, fetched, met, error, total>>
  BY DEF Write
<1>2. Shape'
  BY DEF Inv, Write, Shape
<1>3. TokenOfLast' /\ MetOrdered' /\ MetReached'
  BY <1>1 DEF Inv, TokenOfLast, MetOrdered, MetReached, Reach
<1>4. AnswerHolds' /\ StayersMet'
  BY <1>1 DEF Inv, AnswerHolds, StayersMet, Position, Unread, Passed, Reach
<1> QED BY <1>2, <1>3, <1>4 DEF Inv

\* A statement without limit leaves nothing out; one with a limit reads one more.
LEMMA QueryFacts ==
  ASSUME Inv, Query
  PROVE  /\ request \in Contracted /\ table \in Tables /\ request.limit \in Nat
         /\ fetched' \in Seq(Row)
         /\ \A i, j \in DOMAIN fetched' : i < j => Lt(request, fetched'[i], fetched'[j])
         /\ \A i \in DOMAIN fetched' : fetched'[i] \in table \cap Wanted /\ Unread(fetched'[i])
         /\ request.limit > 0 => Len(fetched') <= request.limit + 1
         /\ \A r \in table \cap Wanted :
              Unread(r) =>
                \/ \E i \in DOMAIN fetched' : r = fetched'[i]
                \/ /\ request.limit > 0 /\ Len(fetched') = request.limit + 1
                   /\ \A i \in DOMAIN fetched' : Lt(request, fetched'[i], r)
<1> DEFINE rows == Sought(token)
<1>1. /\ request \in Contracted /\ table \in Tables /\ rows \in SUBSET table
      /\ request.limit \in Nat /\ Fetch \in Nat
      /\ request.limit > 0 => Fetch = request.limit + 1
      /\ Fetch > 0 => request.limit > 0
  BY ContractHolds DEF Contract, Inv, Shape, Sought, Fetch
<1>2. /\ fetched' \in Seq(rows) /\ fetched' \in Seq(Row)
      /\ \A i, j \in DOMAIN fetched' : i < j => Lt(request, fetched'[i], fetched'[j])
      /\ Fetch > 0 => Len(fetched') <= Fetch
      /\ \A r \in rows :
           \/ \E i \in DOMAIN fetched' : r = fetched'[i]
           \/ /\ Fetch > 0 /\ Len(fetched') = Fetch
              /\ \A i \in DOMAIN fetched' : Lt(request, fetched'[i], r)
  <2>1. fetched' \in Answers(rows, Fetch)
    BY DEF Query
  <2> HIDE DEF rows
  <2> QED BY <1>1, <2>1, AnswerFacts DEF Answers
<1>3. \A r \in Row : r \in rows <=> r \in table \cap Wanted /\ Unread(r)
  BY SoughtIsUnread DEF Sought, Query
<1>4. rows \subseteq Row /\ table \subseteq Row
  BY <1>1 DEF Tables
<1> HIDE DEF rows
<1>5. \A i \in DOMAIN fetched' : fetched'[i] \in rows
  BY <1>2
<1>6. \A r \in table \cap Wanted : Unread(r) => r \in rows
  BY <1>3, <1>4
<1> QED BY <1>1, <1>2, <1>3, <1>4, <1>5, <1>6

LEMMA QueryInv == ASSUME Inv, Query PROVE Inv'
<1>1. pc' = "scanning" /\ UNCHANGED <<request, table, token, met, since>> /\ pc = "idle"
  BY DEF Query
<1>2. Shape'
  BY <1>1, QueryFacts DEF Inv, Shape
<1>3. TokenOfLast' /\ MetOrdered' /\ MetReached' /\ StayersMet'
  BY <1>1 DEF Inv, TokenOfLast, MetOrdered, MetReached, StayersMet, Position, Reach
<1>4. AnswerHolds'
  <2>1. (\A i \in DOMAIN fetched : fetched[i] \in Wanted /\ Unread(fetched[i]))'
    <3>1. \A i \in DOMAIN fetched' : fetched'[i] \in Wanted /\ Unread(fetched'[i])
      BY QueryFacts
    <3> QED BY <1>1, <3>1 DEF Unread, Passed, Reach
  <2>2. \A r : Unread(r)' <=> Unread(r)
    BY <1>1 DEF Unread, Passed, Reach
  <2>3. since \subseteq table
    BY DEF Inv, Shape
  <2>4. \A r \in since' \cap Wanted : Unread(r)' =>
           \/ \E i \in DOMAIN fetched' : r = fetched'[i]
           \/ /\ request.limit > 0 /\ Len(fetched') = request.limit + 1
              /\ \A i \in DOMAIN fetched' : Lt(request, fetched'[i], r)
    BY <1>1, <2>2, <2>3, QueryFacts
  <2>5. /\ \A i, j \in DOMAIN fetched' : i < j => Lt(request', fetched'[i], fetched'[j])
        /\ request'.limit > 0 => Len(fetched') <= request'.limit + 1
    BY <1>1, QueryFacts
  <2>6. \A a, b : Lt(request', a, b) <=> Lt(request, a, b)
    BY <1>1
  <2> QED BY <1>1, <2>1, <2>4, <2>5, <2>6 DEF AnswerHolds
<1> QED BY <1>2, <1>3, <1>4 DEF Inv

(***************************************************************************)
(* Delivering a page.                                                      *)
(***************************************************************************)

\* The page is the answer, or the answer without its last row, and then there is
\* a cursor, that of the last row of the page.
LEMMA PageFacts ==
  ASSUME Inv, pc = "scanning"
  PROVE  /\ Page \in Seq(Row) /\ Len(Page) \in Nat /\ Len(Page) <= Len(fetched)
         /\ \A i \in 1 .. Len(Page) : Page[i] = fetched[i]
         /\ ~More => Page = fetched /\ After = <<>>
         /\ More => /\ Len(Page) = request.limit /\ Len(Page) > 0
                    /\ Len(fetched) = Len(Page) + 1
                    /\ After = At(request, Page[Len(Page)]) /\ After # <<>>
<1>1. /\ request \in Contracted /\ request.limit \in Nat
      /\ fetched \in Seq(Row) /\ Len(fetched) \in Nat
      /\ \A i \in 1 .. Len(fetched) : fetched[i] \in Row
      /\ request.limit > 0 => Len(fetched) <= request.limit + 1
  BY ContractHolds DEF Contract, Inv, Shape, AnswerHolds
<1>2. CASE ~More
  BY <1>1, <1>2 DEF Page, After
<1>3. CASE More
  <2>1. request.limit > 0 /\ Len(fetched) = request.limit + 1
    BY <1>1, <1>3 DEF More
  <2>2. IsSeq(fetched)
    BY <1>1, IsSeqIntro
  <2>3. /\ Page = SubSeq(fetched, 1, request.limit)
        /\ Len(Page) = request.limit
        /\ \A i \in 1 .. request.limit : Page[i] = fetched[i]
    BY <1>1, <1>3, <2>1, <2>2, IsSeqPrefix DEF Page
  <2>4. Page \in Seq(Row)
    <3>1. SubSeq(fetched, 1, request.limit) \in Seq(Row)
      BY <1>1, <2>1
    <3> QED BY <2>3, <3>1
  <2>5. Known(request.sorts)
    BY <1>1, ContractHolds DEF Contract
  <2>6. NextToken(request.sorts, Page) = At(request, Page[Len(Page)])
    BY <2>5 DEF NextToken, At, Known, Keys
  <2>7. After = At(request, Page[Len(Page)])
    BY <1>3, <2>6 DEF After
  <2>8. At(request, Page[Len(Page)]) # <<>>
    BY DEF At
  <2> QED BY <1>1, <1>3, <2>1, <2>3, <2>4, <2>7, <2>8
<1> QED BY <1>2, <1>3

\* What has been met together with the page on its way.
LEMMA JoinedFacts ==
  ASSUME Inv, pc = "scanning"
  PROVE  LET all == met \o Page IN
         /\ all \in Seq(Row) /\ Len(all) = Len(met) + Len(Page)
         /\ \A i \in DOMAIN met : i \in DOMAIN all /\ all[i] = met[i]
         /\ \A i \in DOMAIN all \ DOMAIN met : \E k \in 1 .. Len(Page) :
               i = Len(met) + k /\ all[i] = fetched[k] /\ k \in DOMAIN fetched
         /\ \A i, j \in DOMAIN all : i < j => Lt(request, all[i], all[j])
         /\ \A i \in DOMAIN all : Reach(all[i])
         /\ Page # <<>> => all # <<>> /\ all[Len(all)] = Page[Len(Page)]
<1>1. /\ met \in Seq(Row) /\ IsSeq(met) /\ Page \in Seq(Row) /\ IsSeq(Page)
      /\ Len(met) \in Nat /\ Len(Page) \in Nat /\ DOMAIN met = 1 .. Len(met)
      /\ fetched \in Seq(Row) /\ DOMAIN fetched = 1 .. Len(fetched) /\ Len(fetched) \in Nat
  BY PageFacts, IsSeqIntro DEF Inv, Shape
<1> DEFINE all == met \o Page
<1>2. /\ all \in Seq(Row) /\ Len(all) = Len(met) + Len(Page) /\ DOMAIN all = 1 .. Len(met) + Len(Page)
      /\ \A i \in 1 .. Len(met) : all[i] = met[i]
      /\ \A k \in 1 .. Len(Page) : all[Len(met) + k] = Page[k]
  <2>1. all \in Seq(Row)
    BY <1>1, ConcatProperties
  <2> QED BY <1>1, <2>1, IsSeqConcat, LenProperties
<1> HIDE DEF all
<1>3. \A i \in DOMAIN met : i \in DOMAIN all /\ all[i] = met[i]
  BY <1>1, <1>2
<1>0. Len(Page) <= Len(fetched)
  BY PageFacts
<1>4. ASSUME NEW i \in DOMAIN all \ DOMAIN met
      PROVE  \E k \in 1 .. Len(Page) : i = Len(met) + k /\ all[i] = fetched[k] /\ k \in DOMAIN fetched
  <2>1. i - Len(met) \in 1 .. Len(Page) /\ i = Len(met) + (i - Len(met))
    BY <1>1, <1>2
  <2>2. i - Len(met) \in DOMAIN fetched
    BY <1>0, <1>1, <2>1
  <2>3. all[i] = Page[i - Len(met)]
    BY <1>2, <2>1
  <2>4. Page[i - Len(met)] = fetched[i - Len(met)]
    BY <2>1, PageFacts
  <2> QED BY <2>1, <2>2, <2>3, <2>4
<1>5. ASSUME NEW i \in DOMAIN all, NEW j \in DOMAIN all, i < j
      PROVE  Lt(request, all[i], all[j])
  <2>1. CASE j \in DOMAIN met
    <3>1. i \in DOMAIN met
      BY <1>1, <1>2, <1>5, <2>1
    <3> QED BY <1>3, <1>5, <2>1, <3>1 DEF Inv, MetOrdered, Lt
  <2>2. CASE j \notin DOMAIN met
    <3>1. PICK n \in 1 .. Len(Page) : j = Len(met) + n /\ all[j] = fetched[n] /\ n \in DOMAIN fetched
      BY <1>4, <2>2
    <3>2. CASE i \in DOMAIN met
      <4>1. Unread(fetched[n])
        BY <3>1 DEF Inv, AnswerHolds
      <4> QED BY <1>3, <3>1, <3>2, <4>1 DEF Unread, Passed
    <3>3. CASE i \notin DOMAIN met
      <4>1. PICK k \in 1 .. Len(Page) : i = Len(met) + k /\ all[i] = fetched[k] /\ k \in DOMAIN fetched
        BY <1>4, <3>3
      <4>2. k < n
        BY <1>1, <1>5, <3>1, <4>1
      <4> QED BY <3>1, <4>1, <4>2 DEF Inv, AnswerHolds
    <3> QED BY <3>2, <3>3
  <2> QED BY <2>1, <2>2
<1>6. ASSUME NEW i \in DOMAIN all PROVE Reach(all[i])
  <2>1. CASE i \in DOMAIN met
    BY <1>3, <2>1 DEF Inv, MetReached
  <2>2. CASE i \notin DOMAIN met
    <3>1. PICK k \in DOMAIN fetched : all[i] = fetched[k]
      BY <1>4, <2>2
    <3> QED BY <3>1 DEF Inv, AnswerHolds, Unread
  <2> QED BY <2>1, <2>2
<1>7. ASSUME Page # <<>> PROVE all # <<>> /\ all[Len(all)] = Page[Len(Page)]
  <2>1. Len(Page) \in 1 .. Len(Page)
    BY <1>1, <1>7, EmptySeq, IsSeqLen
  <2>2. Len(all) # 0
    BY <1>1, <1>2, <2>1
  <2> QED BY <1>2, <2>1, <2>2
<1> QED BY <1>2, <1>3, <1>4, <1>5, <1>6, <1>7 DEF all

\* A row still unread that is not in the page comes after it, and there is a cursor.
LEMMA RestIsAfterPage ==
  ASSUME Inv, pc = "scanning", NEW r \in Row,
         \/ \E i \in DOMAIN fetched : r = fetched[i]
         \/ /\ request.limit > 0 /\ Len(fetched) = request.limit + 1
            /\ \A i \in DOMAIN fetched : Lt(request, fetched[i], r),
         \A k \in 1 .. Len(Page) : r # Page[k]
  PROVE  More /\ \A k \in 1 .. Len(Page) : Lt(request, Page[k], r)
<1>1. /\ fetched \in Seq(Row) /\ DOMAIN fetched = 1 .. Len(fetched) /\ Len(fetched) \in Nat
      /\ request.limit \in Nat
  BY ContractHolds DEF Contract, Inv, Shape
<1>0. Len(Page) \in Nat /\ Len(Page) <= Len(fetched)
  BY PageFacts
<1>2. CASE \E i \in DOMAIN fetched : r = fetched[i]
  <2>1. PICK i \in DOMAIN fetched : r = fetched[i]
    BY <1>2
  <2>2. i \notin 1 .. Len(Page)
    BY <2>1, PageFacts
  <2>3. More
    BY <1>1, <2>2, PageFacts
  <2>4. \A k \in 1 .. Len(Page) : k \in DOMAIN fetched /\ k < i
    BY <1>0, <1>1, <2>2
  <2> QED BY <2>1, <2>3, <2>4, PageFacts DEF Inv, AnswerHolds
<1>3. CASE ~\E i \in DOMAIN fetched : r = fetched[i]
  <2>1. More
    BY <1>1, <1>3 DEF More
  <2>2. \A k \in 1 .. Len(Page) : k \in DOMAIN fetched
    BY <1>0, <1>1
  <2> QED BY <1>3, <2>1, <2>2, PageFacts
<1> QED BY <1>2, <1>3

LEMMA DeliverInv == ASSUME Inv, Deliver PROVE Inv'
<1> DEFINE all == met \o Page
<1>1. /\ met' = all /\ token' = After /\ fetched' = <<>>
      /\ pc' = (IF After = <<>> THEN "done" ELSE "idle") /\ pc = "scanning"
      /\ UNCHANGED <<request, table, error, total, since, quiet>>
  BY DEF Deliver
<1>2. /\ all \in Seq(Row) /\ Len(all) = Len(met) + Len(Page)
      /\ \A i \in DOMAIN met : i \in DOMAIN all /\ all[i] = met[i]
      /\ \A i, j \in DOMAIN all : i < j => Lt(request, all[i], all[j])
      /\ \A i \in DOMAIN all : Reach(all[i])
      /\ Page # <<>> => all # <<>> /\ all[Len(all)] = Page[Len(Page)]
  BY <1>1, JoinedFacts
<1>3. \A k \in 1 .. Len(Page) : Len(met) + k \in DOMAIN all /\ all[Len(met) + k] = Page[k]
  <2>1. IsSeq(met) /\ IsSeq(Page) /\ Len(met) \in Nat /\ Len(Page) \in Nat
    BY <1>1, PageFacts, IsSeqIntro DEF Inv, Shape
  <2>2. DOMAIN all = 1 .. Len(met) + Len(Page)
    BY <1>2, <2>1, IsSeqConcat, IsSeqLen
  <2> QED BY <2>1, <2>2, IsSeqConcat
<1>11. \A i \in DOMAIN all \ DOMAIN met : \E k \in 1 .. Len(Page) : all[i] = Page[k]
  <2>1. \A i \in DOMAIN all \ DOMAIN met : \E k \in 1 .. Len(Page) : all[i] = fetched[k]
    BY <1>1, JoinedFacts
  <2> QED BY <1>1, <2>1, PageFacts
<1>4. More => Page # <<>>
  <2>1. Page = <<>> => Len(Page) = 0
    OBVIOUS
  <2> QED BY <1>1, <2>1, PageFacts
<1> HIDE DEF all
<1>5. Shape'
  <2>1. <<>> \in Seq(Row)
    BY EmptySeq
  <2> QED BY <1>1, <1>2, <2>1 DEF Inv, Shape
<1>6. TokenOfLast'
  <2> SUFFICES ASSUME pc' \in {"idle", "scanning"}
               PROVE  token' = IF met' = <<>> THEN request'.start ELSE At(request', met'[Len(met')])
    BY DEF TokenOfLast
  <2>1. After # <<>>
    BY <1>1
  <2>2. More /\ After = At(request, Page[Len(Page)])
    BY <1>1, <2>1, PageFacts
  <2>3. met' # <<>> /\ met'[Len(met')] = Page[Len(Page)]
    BY <1>1, <1>2, <1>4, <2>2
  <2> QED BY <1>1, <2>2, <2>3
<1>7. MetOrdered' /\ MetReached'
  <2>1. MetOrdered'
    BY <1>1, <1>2 DEF MetOrdered, Lt
  <2>2. \A r : Reach(r)' <=> Reach(r)
    BY <1>1 DEF Reach
  <2>3. \A i \in DOMAIN met' : Reach(met'[i])
    BY <1>1, <1>2
  <2>4. MetReached'
    BY <1>1, <2>3 DEF MetReached, Reach
  <2> QED BY <2>1, <2>4
<1>8. AnswerHolds'
  BY <1>1 DEF AnswerHolds
<1>9. StayersMet'
  <2> SUFFICES ASSUME NEW r \in since \cap Wanted, Reach(r)
               PROVE  \/ \E i \in DOMAIN all : r = all[i]
                      \/ /\ After # <<>>
                         /\ \A i \in DOMAIN all : Lt(request, all[i], r)
    BY <1>1 DEF StayersMet, Position, Reach, Lt
  <2>1. r \in Row
    BY DEF Inv, Shape, Tables
  <2>2. CASE \E i \in DOMAIN met : r = met[i]
    BY <1>2, <2>2
  <2>3. CASE \E k \in 1 .. Len(Page) : r = Page[k]
    BY <1>3, <2>3
  <2>4. CASE /\ ~\E i \in DOMAIN met : r = met[i]
             /\ ~\E k \in 1 .. Len(Page) : r = Page[k]
    <3>1. \A i \in DOMAIN met : Lt(request, met[i], r)
      BY <1>1, <2>4 DEF Inv, StayersMet, Position, Reach, Lt
    <3>2. Unread(r)
      BY <3>1 DEF Unread, Passed
    <3>3. \/ \E i \in DOMAIN fetched : r = fetched[i]
          \/ /\ request.limit > 0 /\ Len(fetched) = request.limit + 1
             /\ \A i \in DOMAIN fetched : Lt(request, fetched[i], r)
      BY <1>1, <3>2 DEF Inv, AnswerHolds
    <3>4. More /\ \A k \in 1 .. Len(Page) : Lt(request, Page[k], r)
      BY <1>1, <2>1, <2>4, <3>3, RestIsAfterPage
    <3>5. After # <<>>
      BY <1>1, <3>4, PageFacts
    <3>6. \A i \in DOMAIN all : Lt(request, all[i], r)
      BY <1>2, <1>11, <3>1, <3>4
    <3> QED BY <3>5, <3>6
  <2> QED BY <2>2, <2>3, <2>4
<1> QED BY <1>5, <1>6, <1>7, <1>8, <1>9 DEF Inv

\* What the other clients may make of a table is a table.
LEMMA WritesAreTables ==
  ASSUME table \in Tables, Insert \/ Delete \/ Update
  PROVE  \E t \in Tables : Write(t)
<1>1. table \in SUBSET Row /\ \A a, b \in table : a.id = b.id => a = b
  BY DEF Tables
<1>2. CASE Insert
  <2>1. PICK r \in Row : (\A a \in table : a.id # r.id) /\ Write(table \cup {r})
    BY <1>2 DEF Insert
  <2>2. table \cup {r} \in Tables
    BY <1>1, <2>1 DEF Tables
  <2> QED BY <2>1, <2>2
<1>3. CASE Delete
  <2>1. PICK r \in table : Write(table \ {r})
    BY <1>3 DEF Delete
  <2>2. table \ {r} \in Tables
    BY <1>1 DEF Tables
  <2> QED BY <2>1, <2>2
<1>4. CASE Update
  <2>1. PICK a \in table, b \in Row : a.id = b.id /\ Write((table \ {a}) \cup {b})
    BY <1>4 DEF Update
  <2>2. (table \ {a}) \cup {b} \in Tables
    BY <1>1, <2>1 DEF Tables
  <2> QED BY <2>1, <2>2
<1> QED BY <1>2, <1>3, <1>4

LEMMA StepInv == Inv /\ [Next]_vars => Inv'
<1> SUFFICES ASSUME Inv, [Next]_vars PROVE Inv'
  OBVIOUS
<1>1. CASE Refuse
  BY <1>1, RefuseInv
<1>2. CASE Query
  BY <1>2, QueryInv
<1>3. CASE Deliver
  BY <1>3, DeliverInv
<1>4. CASE Count
  BY <1>4, CountInv
<1>5. CASE Insert \/ Delete \/ Update
  BY <1>5, WritesAreTables, WriteInv DEF Inv, Shape
<1>6. CASE UNCHANGED vars
  <2>1. Shape' /\ TokenOfLast' /\ MetOrdered' /\ MetReached'
    BY <1>6 DEF Inv, vars, Shape, TokenOfLast, MetOrdered, MetReached, Reach
  <2>2. AnswerHolds' /\ StayersMet'
    BY <1>6 DEF Inv, vars, AnswerHolds, StayersMet, Position, Unread, Passed, Reach
  <2> QED BY <2>1, <2>2 DEF Inv
<1> QED BY <1>1, <1>2, <1>3, <1>4, <1>5, <1>6 DEF Next, Walk

\* A client asks all its pages of one request.
LEMMA RequestStays == [Next]_vars => request' = request
BY DEF Next, Walk, Refuse, Query, Deliver, Count, Insert, Delete, Update, Write, vars

LEMMA SpecInv == Spec => [](Agreed => Inv)
<1>1. Init => (Agreed => Inv)
  BY InitInv
<1>2. (Agreed => Inv) /\ [Next]_vars => (Agreed => Inv)'
  <2> SUFFICES ASSUME Agreed => Inv, [Next]_vars, Agreed' PROVE Inv'
    OBVIOUS
  <2>1. Agreed
    BY RequestStays DEF Agreed
  <2> QED BY <2>1, StepInv
<1> QED BY <1>1, <1>2, PTL DEF Spec

(***************************************************************************)
(* The theorems.                                                           *)
(***************************************************************************)

\* The pages, one after the other, are strictly in the order of the sort, in every
\* dialect, whatever is written between and during the pages (typed.go:166).
THEOREM PagesInOrder == Spec => []MetInOrder
<1>1. (Agreed => Inv) => MetInOrder
  BY DEF Inv, MetInOrder
<1> QED BY <1>1, SpecInv, PTL

\* A row that is there all the time is in one of the pages, or the walk is not
\* over and will come to it (typed.go:244-271).
THEOREM NoRowSkipped == Spec => []NothingSkipped
<1>1. (Agreed => Inv) => NothingSkipped
  BY DEF Inv, NothingSkipped
<1> QED BY <1>1, SpecInv, PTL

\* The answer on its way, put behind what has been met, is what the scan has read.
Joined == met \o Page

PageSays ==
  /\ ~More => After = <<>>
  /\ More => Len(Page) > 0 /\ After # <<>>
  /\ Len(Joined) = Len(met) + Len(Page)
  /\ \A i \in DOMAIN met : Joined[i] = met[i]
  /\ \A i \in DOMAIN Joined \ DOMAIN met : \E k \in DOMAIN fetched : Joined[i] = fetched[k]
  /\ \A i, j \in DOMAIN Joined : i < j => Lt(request, Joined[i], Joined[j])
  /\ Len(met) \in Nat /\ Len(Page) \in Nat
  /\ \A r \in Row :
       /\ \/ \E i \in DOMAIN fetched : r = fetched[i]
          \/ /\ request.limit > 0 /\ Len(fetched) = request.limit + 1
             /\ \A i \in DOMAIN fetched : Lt(request, fetched[i], r)
       /\ \A i \in DOMAIN Joined : r # Joined[i]
       /\ \A i \in DOMAIN met : Lt(request, met[i], r)
       => More /\ \A i \in DOMAIN Joined : Lt(request, Joined[i], r)

LEMMA PageSaysIt == Inv /\ pc = "scanning" => PageSays
<1> SUFFICES ASSUME Inv, pc = "scanning" PROVE PageSays
  OBVIOUS
<1>1. /\ Len(Joined) = Len(met) + Len(Page)
      /\ \A i \in DOMAIN met : Joined[i] = met[i]
      /\ \A i \in DOMAIN Joined \ DOMAIN met : \E k \in 1 .. Len(Page) :
            Joined[i] = fetched[k] /\ k \in DOMAIN fetched
      /\ \A i, j \in DOMAIN Joined : i < j => Lt(request, Joined[i], Joined[j])
  BY JoinedFacts DEF Joined
<1>2. /\ ~More => After = <<>>
      /\ More => Len(Page) > 0 /\ After # <<>>
      /\ Len(Page) \in Nat /\ Page \in Seq(Row)
      /\ \A i \in 1 .. Len(Page) : Page[i] = fetched[i]
  BY PageFacts
<1>3. met \in Seq(Row) /\ Len(met) \in Nat
  BY DEF Inv, Shape
<1>4. \A k \in 1 .. Len(Page) : Len(met) + k \in DOMAIN Joined /\ Joined[Len(met) + k] = Page[k]
  <2>1. IsSeq(met) /\ IsSeq(Page)
    BY <1>2, <1>3, IsSeqIntro
  <2>2. DOMAIN Joined = 1 .. Len(met) + Len(Page)
    BY <1>1, <2>1, IsSeqConcat, IsSeqLen DEF Joined
  <2> QED BY <1>2, <1>3, <2>1, <2>2, IsSeqConcat DEF Joined
<1>5. ASSUME NEW r \in Row,
             \/ \E i \in DOMAIN fetched : r = fetched[i]
             \/ /\ request.limit > 0 /\ Len(fetched) = request.limit + 1
                /\ \A i \in DOMAIN fetched : Lt(request, fetched[i], r),
             \A i \in DOMAIN Joined : r # Joined[i],
             \A i \in DOMAIN met : Lt(request, met[i], r)
      PROVE  More /\ \A i \in DOMAIN Joined : Lt(request, Joined[i], r)
  <2>1. \A k \in 1 .. Len(Page) : r # Page[k]
    BY <1>4, <1>5
  <2>2. More /\ \A k \in 1 .. Len(Page) : Lt(request, Page[k], r)
    BY <1>5, <2>1, RestIsAfterPage
  <2>3. \A k \in 1 .. Len(Page) : Lt(request, fetched[k], r)
    BY <1>2, <2>2
  <2> QED BY <1>1, <1>5, <2>2, <2>3
<1> QED BY <1>1, <1>2, <1>3, <1>5 DEF PageSays

\* The scan sorts and seeks as the walk does.
LEMMA ScanBefore == \A d, sorts, a, b : Scan!Before(d, sorts, a, b) <=> Before(d, sorts, a, b)
<1>1. \A k, r : Scan!SelectExpr(k, r) = SelectExpr(k, r)
  BY DEF Scan!SelectExpr, SelectExpr
<1>2. \A d, s : Scan!OrderTerm(d, s) = OrderTerm(d, s)
  BY DEF Scan!OrderTerm, OrderTerm, Scan!TermOf, TermOf
<1>3. \A t, x : Scan!Tested(t, x) = Tested(t, x)
  BY DEF Scan!Tested, Tested
<1>4. \A d, t : Scan!NullsLead(d, t) = NullsLead(d, t)
  BY DEF Scan!NullsLead, NullsLead
<1>5. \A d, t, x, y : Scan!TermAhead(d, t, x, y) <=> TermAhead(d, t, x, y)
  BY <1>3, <1>4 DEF Scan!TermAhead, TermAhead
<1>6. \A d, s, x, y : Scan!Ahead(d, s, x, y) <=> Ahead(d, s, x, y)
  BY <1>2, <1>3, <1>5 DEF Scan!Ahead, Ahead
<1> QED BY <1>1, <1>6 DEF Scan!Before, Before

LEMMA ScanSeek == \A sorts, cur, r : Scan!Seek(sorts, cur, r) <=> Seek(sorts, cur, r)
<1>1. \A k, r : Scan!SelectExpr(k, r) = SelectExpr(k, r)
  BY DEF Scan!SelectExpr, SelectExpr
<1>2. \A s, x, c : Scan!Past(s, x, c) <=> Past(s, x, c)
  BY DEF Scan!Past, Past
<1>3. \A x, c : Scan!Level(x, c) <=> Level(x, c)
  BY DEF Scan!Level, Level
<1> QED BY <1>1, <1>2, <1>3 DEF Scan!Seek, Seek

LEMMA JoinedIsRows == Inv /\ pc = "scanning" => Joined \in Seq(Row)
BY JoinedFacts DEF Joined

\* A query takes what the scan may take next.
LEMMA QueryReads == ASSUME Inv, Query PROVE Scan!Read
<1>1. Inv'
  BY QueryInv
<1>2. /\ pc = "idle" /\ pc' = "scanning"
      /\ UNCHANGED <<request, table, token, met, error, total, since, quiet>>
  BY DEF Query
<1>3. PageSays'
  <2>1. (Inv /\ pc = "scanning")' => PageSays'
    BY PageSaysIt, PTL
  <2> QED BY <1>1, <1>2, <2>1
<1>4. /\ DOMAIN Joined' = 1 .. Len(Joined') /\ Len(Joined') \in Nat
      /\ DOMAIN met = 1 .. Len(met)
  <2>1. met \in Seq(Row)
    BY DEF Inv, Shape
  <2>2. (Inv /\ pc = "scanning")' => (Joined \in Seq(Row))'
    BY JoinedIsRows, PTL
  <2>3. Joined' \in Seq(Row)
    BY <1>1, <1>2, <2>2
  <2> QED BY <2>1, <2>3, LenProperties
<1>0. (IF pc = "scanning" THEN met \o Page ELSE met) = met
  BY <1>2
<1>12. /\ Position.dialect = request.dialect /\ Position.sorts = request.sorts
       /\ Position.start = Decoded(request.start)
  BY DEF Position
<1>5. \A r : Scan!Left(r) <=> Unread(r)
  BY <1>0, <1>12, ScanBefore, ScanSeek DEF Scan!Left, Unread, Passed, Reach, Lt
<1>6. \A i \in DOMAIN Joined' \ DOMAIN met : Joined'[i] \in table \cap Wanted /\ Scan!Left(Joined'[i])
  <2>1. \A i \in DOMAIN Joined' \ DOMAIN met : \E k \in DOMAIN fetched' : Joined'[i] = fetched'[k]
    BY <1>2, <1>3 DEF PageSays
  <2> QED BY <1>5, <2>1, QueryFacts
<1>7. \A i, j \in DOMAIN Joined' : i < j => Lt(request, Joined'[i], Joined'[j])
  BY <1>2, <1>3 DEF PageSays
<1>8. ASSUME NEW r \in table \cap Wanted, Scan!Left(r), \A i \in DOMAIN Joined' : r # Joined'[i]
      PROVE  After' # <<>> /\ \A i \in DOMAIN Joined' : Lt(request, Joined'[i], r)
  <2>1. /\ r \in Row /\ Unread(r)
        /\ \A i \in DOMAIN met : Lt(request, met[i], r)
    BY <1>5, <1>8 DEF Inv, Shape, Tables, Unread, Passed
  <2>2. \/ \E i \in DOMAIN fetched' : r = fetched'[i]
        \/ /\ request.limit > 0 /\ Len(fetched') = request.limit + 1
           /\ \A i \in DOMAIN fetched' : Lt(request, fetched'[i], r)
    BY <2>1, QueryFacts
  <2>3. More' /\ \A i \in DOMAIN Joined' : Lt(request, Joined'[i], r)
    BY <1>2, <1>3, <1>8, <2>1, <2>2 DEF PageSays
  <2> QED BY <1>3, <2>3 DEF PageSays
<1>9. /\ Len(Joined') >= Len(met)
      /\ \A i \in DOMAIN met : Joined'[i] = met[i]
      /\ After' # <<>> => Len(Joined') > Len(met)
  BY <1>2, <1>3 DEF PageSays
<1> DEFINE bar == IF pc = "scanning" THEN met \o Page ELSE met
           end == pc = "done" \/ (pc = "scanning" /\ After = <<>>)
<1>10. bar = met /\ bar' = Joined' /\ end = FALSE /\ end' = (After' = <<>>)
  BY <1>2 DEF Joined
<1>11. (table \cap Wanted)' = table \cap Wanted /\ Position' = Position
  BY <1>2 DEF Position
<1>13. Scan!Ordered(Joined')
  BY <1>7, <1>12, ScanBefore DEF Scan!Ordered, Lt
<1>14. \A r \in table \cap Wanted : Scan!Left(r) /\ r \notin Scan!Rows(Joined') =>
          After' # <<>> /\ \A i \in DOMAIN Joined' : Before(Position.dialect, Position.sorts, Joined'[i], r)
  BY <1>8, <1>12 DEF Scan!Rows, Lt
<1> HIDE DEF bar, end
<1> QED BY <1>6, <1>9, <1>10, <1>11, <1>13, <1>14, ScanBefore DEF Scan!Read, bar, end

\* Every other step leaves the scan as it is, or writes.
THEOREM Implementation == Spec => ImplementsScan
<1>1. Init => (Agreed => Scan!Init)
  BY DEF Init, Scan!Init, Tables
<1>2. (Agreed => Inv) /\ [Next]_vars => [Agreed => Scan!Next \/ UNCHANGED Scan!scan]_vars
  <2> SUFFICES ASSUME Inv, [Next]_vars PROVE Scan!Next \/ UNCHANGED Scan!scan
    OBVIOUS
  <2>1. CASE Query
    BY <2>1, QueryReads DEF Scan!Next
  <2>2. CASE Deliver
    BY <2>2 DEF Deliver, Scan!scan, Position
  <2>3. CASE Refuse
    BY <2>3 DEF Refuse, Scan!scan, Position
  <2>4. CASE Count
    BY <2>4 DEF Count, Scan!scan, Position, Page, More, After
  <2>5. CASE Insert \/ Delete \/ Update
    <3>1. PICK t \in Tables : Write(t)
      BY <2>5, WritesAreTables DEF Inv, Shape
    <3> QED BY <3>1 DEF Write, Tables, Scan!Next, Scan!Write, Position, Page, More, After
  <2>6. CASE UNCHANGED vars
    BY <2>6 DEF vars, Scan!scan, Position, Page, More, After
  <2> QED BY <2>1, <2>2, <2>3, <2>4, <2>5, <2>6 DEF Next, Walk
<1> QED BY <1>1, <1>2, SpecInv, PTL DEF Spec, ImplementsScan

(***************************************************************************)
(* Every request, also outside the contract.                               *)
(***************************************************************************)
LEMMA AnswerRows ==
  ASSUME NEW rows \in SUBSET Row,
         NEW seq \in UNION {[1 .. n -> rows] : n \in 0 .. Cardinality(rows)}
  PROVE  seq \in Seq(Row)
<1>1. Cardinality(rows) \in Nat
  BY FiniteRows, FS_Subset, FS_CardinalityType
<1>2. PICK n \in Nat : seq \in [1 .. n -> rows]
  BY <1>1
<1>3. seq \in [1 .. n -> Row]
  BY <1>2
<1> QED BY <1>3, SeqDef

\* A fault has a name.
LEMMA FaultIsNamed == Fault # "none"
<1>1. \A s, cur : SortFault(s, cur) \in {"ErrUnknownField", "ErrBadOperator", "missing cursor value", "ok"}
  BY DEF SortFault
<1> QED BY <1>1 DEF Fault, FirstSortFault

\* The rows of an answer: none comes before an earlier one.
AnswerSorted ==
  \A i, j \in DOMAIN fetched :
    i < j => ~Before(request.dialect, request.sorts, fetched[j], fetched[i])

LEMMA PageIsRows ==
  ASSUME TypeOK, pc = "scanning"
  PROVE  met \o Page \in Seq(Row)
<1>1. request.limit \in Int /\ fetched \in Seq(Row) /\ met \in Seq(Row) /\ Len(fetched) \in Nat
  BY RequestAssumption DEF TypeOK
<1>2. Page \in Seq(Row)
  <2>1. CASE More
    <3>1. request.limit \in 1 .. Len(fetched)
      BY <1>1, <2>1 DEF More
    <3>2. SubSeq(fetched, 1, request.limit) \in Seq(Row)
      <4>1. \A i \in 1 .. request.limit : fetched[i] \in Row
        BY <1>1, <3>1
      <4> QED BY <1>1, <3>1, <4>1, SubSeqProperties
    <3> QED BY <2>1, <3>2 DEF Page
  <2>2. CASE ~More
    BY <1>1, <2>2 DEF Page
  <2> QED BY <2>1, <2>2
<1> QED BY <1>1, <1>2, ConcatProperties

LEMMA StepTyped == TypeOK /\ AnswerSorted /\ [Next]_vars => TypeOK' /\ AnswerSorted'
<1> SUFFICES ASSUME TypeOK, AnswerSorted, [Next]_vars PROVE TypeOK' /\ AnswerSorted'
  OBVIOUS
<1>0. <<>> \in Seq(Row) /\ DOMAIN <<>> = {}
  BY EmptySeq
<1>1. CASE Refuse
  BY <1>1, FaultIsNamed DEF Refuse, TypeOK, AnswerSorted
<1>2. CASE Query
  <2>1. PICK rows \in SUBSET Row : fetched' \in Answers(rows, Fetch)
    BY <1>2 DEF Query, Sought, TypeOK, Tables
  <2>2. /\ fetched' \in Seq(Row)
        /\ \A i, j \in DOMAIN fetched' :
             i < j => ~Before(request.dialect, request.sorts, fetched'[j], fetched'[i])
    BY <2>1, AnswerRows DEF Answers
  <2> QED BY <1>2, <2>2 DEF Query, TypeOK, AnswerSorted
<1>3. CASE Deliver
  BY <1>0, <1>3, PageIsRows DEF Deliver, TypeOK, AnswerSorted
<1>4. CASE Count
  BY <1>4 DEF Count, TypeOK, AnswerSorted
<1>5. CASE Insert \/ Delete \/ Update
  <2>1. PICK t \in Tables : Write(t)
    BY <1>5, WritesAreTables DEF TypeOK
  <2> QED BY <2>1 DEF Write, TypeOK, AnswerSorted
<1>6. CASE UNCHANGED vars
  BY <1>6 DEF vars, TypeOK, AnswerSorted
<1> QED BY <1>1, <1>2, <1>3, <1>4, <1>5, <1>6 DEF Next, Walk

LEMMA InitTyped == Init => TypeOK /\ AnswerSorted
<1>1. <<>> \in Seq(Row) /\ DOMAIN <<>> = {}
  BY EmptySeq
<1> QED BY <1>1 DEF Init, TypeOK, AnswerSorted

\* Whatever is asked for and whatever is written: a page is a sequence of rows,
\* the table stays a table, and an error is named exactly when a request was
\* refused.
THEOREM WalkIsTyped == Spec => []TypeOK
BY InitTyped, StepTyped, PTL DEF Spec

\* Under a sort that says where NULL stands, in every dialect, the first term it
\* is rendered to puts it there.
LEMMA NullsStand ==
  ASSUME NEW d, NEW s, s.nulls \in {"first", "last"}, NEW x, x # Null
  PROVE  IF s.nulls = "first" THEN Ahead(d, s, Null, x) ELSE Ahead(d, s, x, Null)
<1> DEFINE t == IF d = "mysql" THEN TermOf(IF s.nulls = "first" THEN "not null" ELSE "null", FALSE, "default")
                ELSE TermOf("value", s.desc, s.nulls)
           terms == OrderTerm(d, s)
<1>1. 1 \in DOMAIN terms /\ terms[1] = t
  <2>1. CASE d = "mysql"
    <3>1. s.nulls # "default"
      OBVIOUS
    <3>2. terms = <<t, TermOf("value", s.desc, "default")>>
      BY <2>1, <3>1 DEF OrderTerm
    <3> HIDE DEF t, terms
    <3> QED BY <3>2
  <2>2. CASE d # "mysql"
    BY <2>2 DEF OrderTerm
  <2> QED BY <2>1, <2>2
<1>2. IF s.nulls = "first" THEN TermAhead(d, t, Null, x) ELSE TermAhead(d, t, x, Null)
  <2>1. CASE d = "mysql"
    <3>1. /\ t.desc = FALSE
          /\ Tested(t, Null) = IF s.nulls = "first" THEN 0 ELSE 1
          /\ Tested(t, x) = IF s.nulls = "first" THEN 1 ELSE 0
      BY <2>1 DEF TermOf, Tested
    <3>2. Null # 0 /\ Null # 1
      BY NullAssumption
    <3> HIDE DEF t
    <3> QED BY <3>1, <3>2 DEF TermAhead
  <2>2. CASE d # "mysql"
    <3>1. Tested(t, Null) = Null /\ Tested(t, x) = x /\ t.nulls = s.nulls
      BY <2>2 DEF TermOf, Tested
    <3>2. NullsLead(d, t) <=> s.nulls = "first"
      BY <3>1 DEF NullsLead
    <3> HIDE DEF t
    <3> QED BY <3>1, <3>2 DEF TermAhead
  <2> QED BY <2>1, <2>2
<1> HIDE DEF t
<1>3. \A j \in 1 .. 1 - 1 : FALSE
  OBVIOUS
<1> QED BY <1>1, <1>2, <1>3 DEF Ahead

\* NULL stands first or last as the first sort asks, in every dialect - those
\* that have the syntax and the one that tests for NULL in a term of its own -
\* whether or not the request keeps the contract (order.go, dialects/shared.go,
\* mysql.go:75-89).
THEOREM NullsInPlace == Spec => []NullsWhereAsked
<1>1. TypeOK /\ AnswerSorted => NullsWhereAsked
  <2> SUFFICES ASSUME TypeOK, AnswerSorted, request.sorts # <<>>, request.sorts[1].nulls # "default",
                      NEW i \in DOMAIN fetched, NEW j \in DOMAIN fetched,
                      SelectExpr(request.sorts[1].key, fetched[i]) = Null,
                      SelectExpr(request.sorts[1].key, fetched[j]) # Null
               PROVE  IF request.sorts[1].nulls = "first" THEN i < j ELSE j < i
    BY DEF NullsWhereAsked
  <2> DEFINE s == request.sorts[1]
             x == SelectExpr(s.key, fetched[j])
  <2> HIDE DEF x
  <2>1. 1 \in DOMAIN request.sorts /\ s.nulls \in {"first", "last"}
    <3>1. request.sorts \in Seq([key : STRING, desc : BOOLEAN, nulls : {"default", "first", "last"}])
      BY RequestAssumption DEF TypeOK
    <3>2. 1 \in DOMAIN request.sorts
      <4>1. request.sorts # <<>>
        OBVIOUS
      <4> QED BY <3>1, <4>1, EmptySeq, LenProperties
    <3>3. s \in [key : STRING, desc : BOOLEAN, nulls : {"default", "first", "last"}]
      <4> DEFINE R == [key : STRING, desc : BOOLEAN, nulls : {"default", "first", "last"}]
      <4>1. request.sorts \in Seq(R)
        BY <3>1
      <4> HIDE DEF R
      <4>2. request.sorts[1] \in R
        BY <3>2, <4>1, LenProperties
      <4> QED BY <4>2 DEF R
    <3> QED BY <3>2, <3>3
  <2>2. IF s.nulls = "first" THEN Ahead(request.dialect, s, Null, x) ELSE Ahead(request.dialect, s, x, Null)
    BY <2>1, NullsStand DEF x
  <2>3. IF s.nulls = "first" THEN Before(request.dialect, request.sorts, fetched[i], fetched[j])
        ELSE Before(request.dialect, request.sorts, fetched[j], fetched[i])
    <3>1. \A k \in 1 .. 1 - 1 : FALSE
      OBVIOUS
    <3> QED BY <2>1, <2>2, <3>1 DEF Before, x
  <2>4. i \in Nat /\ j \in Nat /\ i # j
    BY DEF TypeOK
  <2> QED BY <2>1, <2>3, <2>4 DEF AnswerSorted
<1> QED BY <1>1, InitTyped, StepTyped, PTL DEF Spec

(***************************************************************************)
(* Counting.                                                               *)
(***************************************************************************)

\* As long as nobody writes, everything was there from the beginning, and what
\* was counted is what there is.
Undisturbed ==
  quiet =>
    /\ since = table
    /\ total # <<>> => total[1] = Cardinality(table \cap Wanted)
    /\ \A i \in DOMAIN met : met[i] \in table \cap Wanted
    /\ \A i \in DOMAIN fetched : fetched[i] \in table \cap Wanted

LEMMA StepUndisturbed == Inv /\ Undisturbed /\ [Next]_vars => Undisturbed'
<1> SUFFICES ASSUME Inv, Undisturbed, [Next]_vars PROVE Undisturbed'
  OBVIOUS
<1>1. CASE Refuse
  BY <1>1 DEF Refuse, Undisturbed
<1>2. CASE Query
  <2>1. \A i \in DOMAIN fetched' : fetched'[i] \in table \cap Wanted
    BY <1>2, QueryFacts
  <2> QED BY <1>2, <2>1 DEF Query, Undisturbed
<1>3. CASE Deliver
  <2>1. /\ pc = "scanning" /\ met' = met \o Page /\ fetched' = <<>>
        /\ UNCHANGED <<table, total, since, quiet>>
    BY <1>3 DEF Deliver
  <2>2. DOMAIN fetched' = {}
    BY <2>1
  <2>3. /\ \A i \in DOMAIN met : met'[i] = met[i]
        /\ \A i \in DOMAIN met' \ DOMAIN met : \E k \in DOMAIN fetched : met'[i] = fetched[k]
    BY <2>1, JoinedFacts
  <2>4. ASSUME quiet PROVE \A i \in DOMAIN met' : met'[i] \in table \cap Wanted
    BY <2>3, <2>4 DEF Undisturbed
  <2> QED BY <2>1, <2>2, <2>4 DEF Undisturbed
<1>4. CASE Count
  BY <1>4 DEF Count, Undisturbed
<1>5. CASE Insert \/ Delete \/ Update
  <2>1. quiet' = FALSE
    BY <1>5 DEF Insert, Delete, Update, Write
  <2> QED BY <2>1 DEF Undisturbed
<1>6. CASE UNCHANGED vars
  BY <1>6 DEF vars, Undisturbed
<1> QED BY <1>1, <1>2, <1>3, <1>4, <1>5, <1>6 DEF Next, Walk

LEMMA InitUndisturbed == Init => Undisturbed
<1>1. DOMAIN <<>> = {}
  OBVIOUS
<1> QED BY <1>1 DEF Init, Undisturbed

\* The rows met are distinct, and all there are.
LEMMA AllMet ==
  ASSUME Inv, Undisturbed, quiet, pc = "done", request.start = <<>>
  PROVE  Cardinality(table \cap Wanted) = Len(met)
<1> DEFINE n == Len(met)
           all == table \cap Wanted
<1>1. n \in Nat /\ DOMAIN met = 1 .. n /\ \A i \in 1 .. n : met[i] \in Row
  BY DEF Inv, Shape
<1>2. met \in [1 .. n -> all]
  <2>1. met = [i \in 1 .. n |-> met[i]]
    BY DEF Inv, Shape
  <2> QED BY <1>1, <2>1 DEF Undisturbed
<1>3. ASSUME NEW i \in 1 .. n, NEW j \in 1 .. n, met[i] = met[j] PROVE i = j
  <2>1. ASSUME NEW k \in 1 .. n, NEW m \in 1 .. n, k < m PROVE met[k] # met[m]
    <3>1. Lt(request, met[k], met[m])
      BY <1>1, <2>1 DEF Inv, MetOrdered, Lt
    <3> QED BY <1>1, <3>1, LtIrreflexive DEF Inv, Shape
  <2> QED BY <1>1, <1>3, <2>1
<1>4. ASSUME NEW r \in all PROVE \E i \in 1 .. n : met[i] = r
  <2>1. r \in since \cap Wanted
    BY DEF Undisturbed
  <2>2. Seek(request.sorts, Position.start, r)
    BY DEF Position, Decoded, Seek
  <2>3. r \in {met[i] : i \in DOMAIN met}
    BY <2>1, <2>2 DEF Inv, StayersMet
  <2> QED BY <1>1, <2>3
<1> HIDE DEF n, all
<1>5. met \in Bijection(1 .. n, all)
  BY <1>2, <1>3, <1>4, Fun_IsBij
<1>6. ExistsBijection(1 .. n, all)
  BY <1>5, Fun_ExistsBij
<1>7. Cardinality(all) = n
  BY <1>1, <1>6, FS_CountingElements
<1> QED BY <1>7 DEF n, all

\* A walk from the beginning in which nobody writes delivers as many rows as
\* Count says, however the pages are cut (typed.go:273-275).
THEOREM CountIsRight == Spec => []CountAgrees
<1>1. (Agreed => Inv) /\ (Agreed => Undisturbed) /\ [Next]_vars => (Agreed => Undisturbed)'
  BY StepUndisturbed, RequestStays DEF Agreed
<1>2. (Agreed => Inv) /\ (Agreed => Undisturbed) => CountAgrees
  BY AllMet DEF CountAgrees, Undisturbed
<1> QED BY InitUndisturbed, <1>1, <1>2, SpecInv, PTL DEF Spec
=============================================================================
