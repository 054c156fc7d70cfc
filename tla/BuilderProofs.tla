---------------------------- MODULE BuilderProofs ----------------------------
(***************************************************************************)
(* Whatever fragments a client asks for, in whatever order with WHERE      *)
(* before HAVING: as long as none fails, the placeholders of the whole     *)
(* statement are those of its arguments, in their order.                   *)
(*                                                                         *)
(* Between two fragments the two texts together show the arguments bound   *)
(* so far.  While one is rendered they show those bound when it began, and *)
(* the compiler's invariant says the same of the rest.                     *)
(*                                                                         *)
(* And the WHERE text selects the rows that all its parts select.  Between *)
(* two fragments it selects those that the parts appended so far select;   *)
(* a fragment that has just been rendered selects what was asked for it,   *)
(* as the meaning of a filter is proved.                                   *)
(***************************************************************************)
EXTENDS BuilderMeaning, MeaningProofs

(***************************************************************************)
(* The seek predicate.                                                     *)
(***************************************************************************)
LEMMA AlternativeRenders ==
  ASSUME NEW sorts, NEW cur, NEW i \in Nat, i # 0, NEW n \in Nat
  PROVE  /\ Renders(Alternative(sorts, cur, i, n), n)
         /\ Len(Alternative(sorts, cur, i, n).args) = i
<1> DEFINE column(k) == SelectExpr(sorts[(k + 1) \div 2].key)
           sym(k) == IF (k + 1) \div 2 < i THEN "=" ELSE IF sorts[i].desc THEN "<" ELSE ">"
           text == [k \in 1 .. 2 * i - 1 |->
                      IF k % 2 = 0 THEN Word("AND")
                      ELSE Predicate(sym(k), column(k), n + (k + 1) \div 2 - 1, 1)]
           bound == [j \in 1 .. i |-> Bind(cur, sorts[j])]
<1>1. Alternative(sorts, cur, i, n) = [text |-> text, args |-> bound]
  BY DEF Alternative
<1>2. IsSeq(bound) /\ Len(bound) = i
  BY IsSeqFunction
<1>3. IsSeq(text) /\ DOMAIN text = 1 .. 2 * i - 1
  <2>1. 2 * i - 1 \in Nat
    OBVIOUS
  <2>2. text = [k \in 1 .. 2 * i - 1 |-> text[k]]
    OBVIOUS
  <2> HIDE DEF text
  <2> QED BY <2>1, <2>2, IsSeqFunction
<1>4. ASSUME NEW k \in 1 .. 2 * i - 1
      PROVE  IF k % 2 = 1 THEN text[k].slots = [j \in 1 .. 1 |-> n + 1 * ((k - 1) \div 2) + j]
                          ELSE text[k] = Word("AND")
  <2>1. k % 2 = 1 \/ k % 2 = 0
    BY Halves
  <2>2. CASE k % 2 = 1
    <3> DEFINE h == (k - 1) \div 2
    <3>1. h \in Nat /\ k = 2 * h + 1
      BY <2>2, Halves
    <3>2. n + (k + 1) \div 2 - 1 = n + 1 * h
      <4> HIDE DEF h
      <4>1. (k + 1) \div 2 = h + 1
        BY <3>1
      <4> QED BY <3>1, <4>1
    <3>3. text[k] = Predicate(sym(k), column(k), n + (k + 1) \div 2 - 1, 1)
      BY <2>2
    <3> HIDE DEF h, text
    <3>4. text[k].slots = [j \in 1 .. 1 |-> n + 1 * h + j]
      BY <3>2, <3>3 DEF Predicate
    <3> QED BY <2>2, <3>4 DEF h
  <2>3. CASE k % 2 = 0
    BY <2>3
  <2> QED BY <2>1, <2>2, <2>3
<1> HIDE DEF text, bound
<1>5. Shows(text, n, n + 1 * i)
  BY <1>3, <1>4, PredicatesShow
<1> QED BY <1>1, <1>2, <1>5 DEF Renders

\* The alternatives up to the m-th, one after the other.
Chains(f, sorts, cur, n, m) ==
  f = [i \in 0 .. m |-> IF i = 0 THEN Nothing ELSE Another(sorts, cur, n, f[i - 1], i)]

LEMMA ChainExists ==
  ASSUME NEW sorts, NEW cur, NEW n, NEW m \in Nat
  PROVE  \E f : Chains(f, sorts, cur, n, m)
<1> DEFINE Bad == {k \in Nat : ~\E f : Chains(f, sorts, cur, n, k)}
           Step(before, i) == Another(sorts, cur, n, before, i)
<1>1. Bad = {}
  <2> SUFFICES ASSUME Bad # {} PROVE FALSE
    OBVIOUS
  <2>1. PICK k \in Bad : \A l \in Bad : k <= l
    BY Least
  <2>2. CASE k = 0
    <3> DEFINE f == [i \in 0 .. 0 |-> Nothing]
    <3>1. f = [i \in 0 .. 0 |-> IF i = 0 THEN Nothing ELSE Step(f[i - 1], i)]
      OBVIOUS
    <3> QED BY <2>1, <2>2, <3>1 DEF Chains
  <2>3. CASE k # 0
    <3>1. k - 1 \in Nat /\ k - 1 \notin Bad
      BY <2>1, <2>3
    <3>2. PICK g : Chains(g, sorts, cur, n, k - 1)
      BY <3>1
    <3> DEFINE f == [i \in 0 .. k |-> IF i = k THEN Step(g[k - 1], k) ELSE g[i]]
    <3>3. \A i \in 0 .. k - 1 : g[i] = IF i = 0 THEN Nothing ELSE Step(g[i - 1], i)
      BY <3>2 DEF Chains
    <3>4. ASSUME NEW i \in 0 .. k
          PROVE  f[i] = IF i = 0 THEN Nothing ELSE Step(f[i - 1], i)
      <4> HIDE DEF Step
      <4>1. CASE i = k
        BY <2>1, <2>3, <4>1
      <4>2. CASE i # k
        <5>1. i \in 0 .. k - 1 /\ f[i] = g[i]
          BY <2>1, <4>2
        <5>2. i # 0 => i - 1 \in 0 .. k /\ i - 1 # k /\ f[i - 1] = g[i - 1]
          BY <2>1, <5>1
        <5> QED BY <3>3, <5>1, <5>2
      <4> QED BY <4>1, <4>2
    <3>5. f = [i \in 0 .. k |-> IF i = 0 THEN Nothing ELSE Step(f[i - 1], i)]
      BY <3>4
    <3> QED BY <2>1, <3>5 DEF Chains
  <2> QED BY <2>2, <2>3
<1> QED BY <1>1

\* One more alternative shows the arguments of those before and its own.
LEMMA AnotherRenders ==
  ASSUME NEW sorts, NEW cur, NEW n \in Nat, NEW i \in Nat, i # 0,
         NEW before, Renders(before, n), i = 1 => before = Nothing
  PROVE  Renders(Another(sorts, cur, n, before, i), n)
<1>1. IsSeq(before.args) /\ Len(before.args) \in Nat /\ Shows(before.text, n, n + Len(before.args))
  BY IsSeqLen DEF Renders
<1>2. PICK lo \in Nat : lo = n + Len(before.args)
  BY <1>1
<1>3. PICK next : next = Alternative(sorts, cur, i, lo)
  OBVIOUS
<1>4. IsSeq(next.args) /\ Len(next.args) \in Nat /\ Shows(next.text, lo, lo + Len(next.args))
  BY <1>3, AlternativeRenders, IsSeqLen DEF Renders
<1>5. PICK hi \in Nat : hi = lo + Len(next.args)
  BY <1>4
<1>6. PICK closed : closed = <<Word("(")>> \o next.text \o <<Word(")")>>
  OBVIOUS
<1>7. PICK text : text = IF i = 1 THEN closed ELSE before.text \o <<Word("OR")>> \o closed
  OBVIOUS
<1>8. Another(sorts, cur, n, before, i) = [text |-> text, args |-> before.args \o next.args]
  BY <1>2, <1>3, <1>6, <1>7 DEF Another
<1>9. Shows(closed, lo, hi)
  <2>1. Shows(<<Word("(")>>, lo, lo) /\ Shows(<<Word(")")>>, hi, hi)
    BY ShowsWord
  <2> QED BY <1>4, <1>5, <1>6, <2>1, ShowsConcat
<1>10. Shows(text, n, hi)
  <2>1. CASE i = 1
    <3>1. before.text = <<>>
      BY <2>1 DEF Nothing
    <3>2. n = lo
      BY <1>1, <1>2, <3>1, EmptyShows
    <3> QED BY <1>7, <1>9, <2>1, <3>2
  <2>2. CASE i # 1
    <3>1. Shows(<<Word("OR")>>, lo, lo)
      BY ShowsWord
    <3>2. Shows(before.text \o <<Word("OR")>>, n, lo)
      BY <1>1, <1>2, <3>1, ShowsConcat
    <3>3. Shows(before.text \o <<Word("OR")>> \o closed, n, hi)
      BY <1>9, <3>2, ShowsConcat
    <3> QED BY <1>7, <2>2, <3>3
  <2> QED BY <2>1, <2>2
<1>11. IsSeq(before.args \o next.args) /\ n + Len(before.args \o next.args) = hi
  <2>1. PICK b : b = before.args
    OBVIOUS
  <2>2. PICK c : c = next.args
    OBVIOUS
  <2>3. /\ IsSeq(b) /\ IsSeq(c) /\ Len(b) \in Nat /\ Len(c) \in Nat
        /\ lo = n + Len(b) /\ hi = lo + Len(c)
    BY <1>1, <1>2, <1>4, <1>5, <2>1, <2>2
  <2>4. IsSeq(b \o c) /\ n + Len(b \o c) = hi
    BY <2>3, IsSeqConcat
  <2> QED BY <2>1, <2>2, <2>4
<1>12. PICK bound : bound = before.args \o next.args
  OBVIOUS
<1>13. IsSeq(bound) /\ Shows(text, n, n + Len(bound))
  BY <1>10, <1>11, <1>12
<1>14. Renders([text |-> text, args |-> bound], n)
  BY <1>13 DEF Renders
<1> QED BY <1>8, <1>12, <1>14

LEMMA ChainRenders ==
  ASSUME NEW sorts, IsSeq(sorts), NEW cur, NEW n \in Nat
  PROVE  Renders(Chain(sorts, cur, n), n)
<1> DEFINE m == Len(sorts)
           chain[i \in 0 .. Len(sorts)] ==
             IF i = 0 THEN Nothing ELSE Another(sorts, cur, n, chain[i - 1], i)
<1>1. m \in Nat
  BY IsSeqLen
<1>2. Chain(sorts, cur, n) = chain[m]
  BY DEF Chain
<1>3. chain = CHOOSE f : Chains(f, sorts, cur, n, m)
  BY DEF Chains
<1>4. Chains(chain, sorts, cur, n, m)
  BY <1>1, <1>3, ChainExists
<1> HIDE DEF chain, m
<1>5. \A i \in 0 .. m : chain[i] = IF i = 0 THEN Nothing ELSE Another(sorts, cur, n, chain[i - 1], i)
  BY <1>4 DEF Chains
<1> DEFINE Bad == {i \in 0 .. m : ~Renders(chain[i], n)}
<1>6. Bad = {}
  <2> SUFFICES ASSUME Bad # {} PROVE FALSE
    OBVIOUS
  <2>1. Bad \subseteq Nat
    BY <1>1
  <2>2. PICK i \in Bad : \A l \in Bad : i <= l
    BY <2>1, Least
  <2>3. i # 0
    <3>1. i = 0 => chain[i] = Nothing
      BY <1>5, <2>2
    <3> QED BY <2>2, <3>1, NothingRenders
  <2>4. i \in Nat /\ i \in 0 .. m /\ i - 1 \in 0 .. m /\ i - 1 \notin Bad
    BY <1>1, <2>2, <2>3
  <2>5. Renders(chain[i - 1], n) /\ chain[i] = Another(sorts, cur, n, chain[i - 1], i)
    BY <1>5, <2>3, <2>4
  <2>6. i = 1 => chain[i - 1] = Nothing
    BY <1>5, <2>4
  <2>7. Renders(chain[i], n)
    BY <2>3, <2>4, <2>5, <2>6, AnotherRenders
  <2> QED BY <2>2, <2>7
<1> QED BY <1>1, <1>2, <1>6

LEMMA SeekRenders ==
  ASSUME NEW sorts, IsSeq(sorts), NEW cur, NEW n \in Nat
  PROVE  Renders(Seek(sorts, cur, n), n)
<1> DEFINE chain == Chain(sorts, cur, n)
           hi == n + Len(chain.args)
<1>1. Seek(sorts, cur, n) = [text |-> <<Word("(")>> \o chain.text \o <<Word(")")>>, args |-> chain.args]
  BY DEF Seek
<1>2. Renders(chain, n)
  BY ChainRenders
<1> HIDE DEF chain
<1>3. IsSeq(chain.args) /\ Shows(chain.text, n, hi) /\ hi \in Nat
  BY <1>2, IsSeqLen DEF Renders
<1>4. Shows(<<Word("(")>>, n, n) /\ Shows(<<Word(")")>>, hi, hi)
  BY <1>3, ShowsWord
<1>5. Shows(<<Word("(")>> \o chain.text \o <<Word(")")>>, n, hi)
  BY <1>3, <1>4, ShowsConcat
<1> QED BY <1>1, <1>3, <1>5 DEF Renders

(***************************************************************************)
(* The statement so far.                                                   *)
(***************************************************************************)
\* The two texts together show the arguments up to hi.
Apart(hi) == \E m \in Nat : Shows(where, 0, m) /\ Shows(having, m, hi)

InWhere == {"where", "excluding", "both"}

Sound ==
  /\ dialect \in Dialect
  /\ left \in 0 .. Calls
  /\ left = Calls => having = <<>>
  /\ call \in InWhere \cup {"having", "none"}
  /\ call = "none" => result # "running" /\ IsSeq(args) /\ Apart(Len(args))
  /\ call # "none" => left # Calls /\ \E base \in Nat : Rendering(base) /\ Apart(base)
  /\ call \in InWhere => having = <<>>
  /\ call = "both" => pending \in Seq(Condition)

LEMMA GlueShows ==
  ASSUME NEW a, NEW b, NEW lo, NEW mid, NEW hi, Shows(a, lo, mid), Shows(b, mid, hi)
  PROVE  Shows(Glue(a, b), lo, hi)
<1>1. CASE a = <<>>
  <2>1. lo = mid
    BY <1>1, EmptyShows
  <2> QED BY <1>1, <2>1 DEF Glue
<1>2. CASE a # <<>> /\ b = <<>>
  <2>1. mid = hi
    BY <1>2, EmptyShows
  <2> QED BY <1>2, <2>1 DEF Glue
<1>3. CASE a # <<>> /\ b # <<>>
  <2>1. Shows(<<Word("AND")>>, mid, mid)
    BY ShowsWord DEF Shows
  <2>2. Shows(a \o <<Word("AND")>>, lo, mid)
    BY <2>1, ShowsConcat
  <2>3. Shows(a \o <<Word("AND")>> \o b, lo, hi)
    BY <2>2, ShowsConcat
  <2> QED BY <1>3, <2>3 DEF Glue
<1> QED BY <1>1, <1>2, <1>3

\* Without a HAVING yet, where shows them all.
LEMMA WhereAlone ==
  ASSUME NEW hi, Apart(hi), having = <<>>
  PROVE  Shows(where, 0, hi)
BY EmptyShows DEF Apart

LEMMA WhereGrows ==
  ASSUME NEW lo, NEW hi, Apart(lo), having = <<>>, NEW text, Shows(text, lo, hi),
         where' = Glue(where, text), having' = having
  PROVE  Apart(hi)'
<1>1. Shows(where', 0, hi)
  BY WhereAlone, GlueShows
<1>2. hi \in Nat /\ Shows(having', hi, hi)
  BY ShowsNothing DEF Shows
<1> QED BY <1>1, <1>2 DEF Apart

LEMMA HavingGrows ==
  ASSUME NEW lo, NEW hi, Apart(lo), NEW text, Shows(text, lo, hi),
         having' = Glue(having, text), where' = where
  PROVE  Apart(hi)'
<1>1. PICK m \in Nat : Shows(where, 0, m) /\ Shows(having, m, lo)
  BY DEF Apart
<1>2. Shows(having', m, hi)
  BY <1>1, GlueShows
<1> QED BY <1>1, <1>2 DEF Apart

\* A rendering begins after the arguments bound so far.
LEMMA Begins ==
  ASSUME dialect \in Dialect, IsSeq(args), NEW kind, NEW conds \in Seq(Condition), Begin(kind, conds)
  PROVE  \E base \in Nat : base = Len(args) /\ Rendering(base)'
<1> DEFINE top == Top(conds)
<1>1. PICK base \in Nat : base = Len(args)
  BY IsSeqLen
<1>2. /\ args' = args /\ dialect' = dialect /\ result' = "running" /\ stack' = <<top>>
  BY DEF Begin
<1>3. top = [form |-> "top", node |-> Empty, rest |-> conds, cols |-> <<>>,
             text |-> <<>>, live |-> 0, from |-> base]
  BY <1>1 DEF Top
<1> HIDE DEF top
<1>4. StackOK(base, <<top>>, base) /\ <<top>> # <<>>
  BY <1>1, <1>3, Beginning
<1>5. Len(args') = base
  BY <1>1, <1>2
<1>6. Rendering(base)'
  BY <1>2, <1>4, <1>5 DEF Rendering
<1> QED BY <1>1, <1>6

\* A fragment is begun.
LEMMA Starts ==
  ASSUME Sound, call = "none", NEW kind \in InWhere \cup {"having"},
         NEW conds \in Seq(Condition), Begin(kind, conds),
         where' = where, having' = having, left' \in 0 .. Calls, left' # Calls,
         kind \in InWhere => having = <<>>, kind = "both" => pending' \in Seq(Condition)
  PROVE  Sound'
<1>1. dialect \in Dialect /\ IsSeq(args) /\ Apart(Len(args))
  BY DEF Sound
<1>2. PICK base \in Nat : base = Len(args) /\ Rendering(base)'
  BY <1>1, Begins
<1>3. Apart(base)
  BY <1>1, <1>2
<1>4. Apart(base)'
  BY <1>3 DEF Apart
<1>5. call' = kind /\ dialect' = dialect
  BY DEF Begin
<1>6. kind # "none"
  BY DEF InWhere
<1> QED BY <1>1, <1>2, <1>4, <1>5, <1>6 DEF Sound, InWhere

LEMMA NextSound == ASSUME Sound, BuilderNext, ~failed' PROVE Sound'
<1>1. CASE Arg
  <2>1. PICK v \in Literal :
          /\ where' = Glue(where, One("=", v.col, Len(args), <<v.value>>).text)
          /\ args' = Append(args, v.value)
    BY <1>1 DEF Arg
  <2>2. /\ call = "none" /\ call' = "none" /\ having = <<>> /\ having' = having
        /\ left > 0 /\ left' = left - 1 /\ dialect' = dialect /\ result' = result
    BY <1>1 DEF Arg, Asks
  <2>3. IsSeq(args) /\ Len(args) \in Nat /\ Apart(Len(args)) /\ result # "running"
    BY <2>2, IsSeqLen DEF Sound
  <2>4. IsSeq(args') /\ Len(args') = Len(args) + 1
    BY <2>1, <2>3, IsSeqAppend
  <2>5. Shows(One("=", v.col, Len(args), <<v.value>>).text, Len(args), Len(args'))
    <3>1. IsSeq(<<v.value>>) /\ Len(<<v.value>>) = 1
      BY IsSeqOne
    <3>2. Renders(One("=", v.col, Len(args), <<v.value>>), Len(args))
      BY <2>3, <3>1, OneRenders
    <3>3. One("=", v.col, Len(args), <<v.value>>).args = <<v.value>>
      BY DEF One
    <3> QED BY <2>4, <3>1, <3>2, <3>3 DEF Renders
  <2>6. PICK hi : hi = Len(args')
    OBVIOUS
  <2>7. Apart(hi)'
    BY <2>1, <2>2, <2>3, <2>5, <2>6, WhereGrows
  <2>8. left' \in 0 .. Calls
    BY <2>2, CallsAssumption DEF Sound
  <2> QED BY <2>2, <2>3, <2>4, <2>6, <2>7, <2>8 DEF Sound, InWhere
<1>2. CASE Where
  <2>1. PICK conds \in Filter : Begin("where", conds)
    BY <1>2 DEF Where
  <2>2. /\ call = "none" /\ having = <<>> /\ having' = having /\ where' = where
        /\ left > 0 /\ left' = left - 1
    BY <1>2 DEF Where, Asks
  <2>3. left' \in 0 .. Calls /\ left' # Calls
    BY <2>2, CallsAssumption DEF Sound
  <2>4. conds \in Seq(Condition)
    BY FilterAssumption
  <2> QED BY <2>1, <2>2, <2>3, <2>4, Starts DEF InWhere
<1>3. CASE WhereExcluding
  <2>1. PICK conds \in Filter : Begin("excluding", conds)
    BY <1>3 DEF WhereExcluding
  <2>2. /\ call = "none" /\ having = <<>> /\ having' = having /\ where' = where
        /\ left > 0 /\ left' = left - 1
    BY <1>3 DEF WhereExcluding, Asks
  <2>3. left' \in 0 .. Calls /\ left' # Calls
    BY <2>2, CallsAssumption DEF Sound
  <2>4. conds \in Seq(Condition)
    BY FilterAssumption
  <2> QED BY <2>1, <2>2, <2>3, <2>4, Starts DEF InWhere
<1>4. CASE Having
  <2>1. PICK conds \in Filter : Begin("having", conds) /\ having' = having /\ where' = where
    BY <1>4 DEF Having, Refused
  <2>2. call = "none" /\ left > 0 /\ left' = left - 1
    BY <1>4 DEF Having, Asks
  <2>3. left' \in 0 .. Calls /\ left' # Calls
    BY <2>2, CallsAssumption DEF Sound
  <2>4. conds \in Seq(Condition)
    BY FilterAssumption
  <2> QED BY <2>1, <2>2, <2>3, <2>4, Starts DEF InWhere
<1>5. CASE WhereAndHaving
  <2>1. PICK w \in Filter, h \in Filter :
          Begin("both", w) /\ pending' = h /\ having' = having /\ where' = where
    BY <1>5 DEF WhereAndHaving, Refused
  <2>2. call = "none" /\ left = Calls /\ left' = 0
    BY <1>5 DEF WhereAndHaving
  <2>3. left' \in 0 .. Calls /\ left' # Calls /\ having = <<>>
    BY <2>2, CallsAssumption DEF Sound
  <2>4. w \in Seq(Condition) /\ h \in Seq(Condition)
    BY FilterAssumption
  <2> QED BY <2>1, <2>2, <2>3, <2>4, Starts DEF InWhere
<1>6. CASE Keyset
  <2>1. /\ call = "none" /\ call' = "none" /\ having = <<>> /\ having' = having
        /\ left > 0 /\ left' = left - 1 /\ dialect' = dialect /\ result' = result
    BY <1>6 DEF Keyset, Asks
  <2>2. IsSeq(args) /\ Len(args) \in Nat /\ Apart(Len(args)) /\ result # "running"
    BY <2>1, IsSeqLen DEF Sound
  <2>3. left' \in 0 .. Calls
    BY <2>1, CallsAssumption DEF Sound
  <2>4. PICK s \in Seeks :
          \/ UNCHANGED <<args, where>>
          \/ /\ args' = args \o Seek(s.sorts, s.cur, Len(args)).args
             /\ where' = Glue(where, Seek(s.sorts, s.cur, Len(args)).text)
    BY <1>6 DEF Keyset
  <2>5. CASE UNCHANGED <<args, where>>
    <3>1. Apart(Len(args))'
      BY <2>1, <2>2, <2>5 DEF Apart
    <3> QED BY <2>1, <2>2, <2>3, <2>5, <3>1 DEF Sound, InWhere
  <2>6. CASE /\ args' = args \o Seek(s.sorts, s.cur, Len(args)).args
             /\ where' = Glue(where, Seek(s.sorts, s.cur, Len(args)).text)
    <3>1. IsSeq(s.sorts)
      BY SeekAssumption, IsSeqIntro
    <3>2. PICK seek : seek = Seek(s.sorts, s.cur, Len(args))
      OBVIOUS
    <3>3. Renders(seek, Len(args))
      BY <2>2, <3>1, <3>2, SeekRenders
    <3>4. PICK bound : bound = seek.args
      OBVIOUS
    <3>5. IsSeq(bound) /\ Shows(seek.text, Len(args), Len(args) + Len(bound))
      BY <3>3, <3>4 DEF Renders
    <3>6. IsSeq(args') /\ Len(args') = Len(args) + Len(bound)
      BY <2>2, <2>6, <3>2, <3>4, <3>5, IsSeqConcat
    <3>7. PICK hi : hi = Len(args')
      OBVIOUS
    <3>8. Apart(hi)'
      BY <2>1, <2>2, <2>6, <3>2, <3>5, <3>6, <3>7, WhereGrows
    <3> QED BY <2>1, <2>2, <2>3, <3>6, <3>7, <3>8 DEF Sound, InWhere
  <2> QED BY <2>4, <2>5, <2>6
<1>7. CASE Render
  <2>1. result = "running" /\ Next /\ UNCHANGED own
    BY <1>7 DEF Render
  <2>2. call # "none"
    BY <2>1 DEF Sound
  <2>3. PICK base \in Nat : Rendering(base) /\ Apart(base)
    BY <2>2 DEF Sound
  <2>4. Rendering(base)'
    BY <2>1, <2>3, NextRendering
  <2>5. Apart(base)'
    BY <2>1, <2>3 DEF Apart, own
  <2>6. dialect' \in Dialect
    BY <2>4 DEF Rendering
  <2> QED BY <2>1, <2>2, <2>4, <2>5, <2>6 DEF Sound, InWhere, own
<1>8. CASE Returns
  <2>1. call # "none" /\ result = "ok" /\ left' = left
    BY <1>8 DEF Returns, Rendered
  <2>2. PICK base \in Nat : Rendering(base) /\ Apart(base)
    BY <2>1 DEF Sound
  <2>3. IsSeq(args) /\ Shows(sql, base, Len(args)) /\ dialect \in Dialect
    BY <2>1, <2>2 DEF Rendering
  <2>4. PICK hi : hi = Len(args)
    OBVIOUS
  <2>5. CASE call = "having"
    <3>1. /\ having' = Glue(having, sql) /\ where' = where
          /\ call' = "none" /\ UNCHANGED <<dialect, args, result>>
      BY <1>8, <2>5 DEF Returns
    <3>2. Apart(hi)'
      BY <2>2, <2>3, <2>4, <3>1, HavingGrows
    <3>3. left # Calls
      BY <2>1 DEF Sound
    <3> QED BY <2>1, <2>3, <2>4, <3>1, <3>2, <3>3 DEF Sound, InWhere
  <2>6. CASE call # "having"
    <3>1. where' = Glue(where, sql) /\ having' = having
      BY <1>8, <2>6 DEF Returns
    <3>2. having = <<>> /\ left # Calls
      BY <2>1, <2>6 DEF Sound
    <3>3. Apart(hi)'
      BY <2>2, <2>3, <2>4, <3>1, <3>2, WhereGrows
    <3>4. CASE call # "both"
      <4>1. call' = "none" /\ UNCHANGED <<dialect, args, result>>
        BY <1>8, <3>4 DEF Returns
      <4> QED BY <2>1, <2>3, <2>4, <3>2, <3>3, <4>1 DEF Sound, InWhere
    <3>5. CASE call = "both"
      <4>1. Begin("having", pending) /\ pending \in Seq(Condition)
        BY <1>8, <3>5 DEF Returns, Sound
      <4>2. PICK now \in Nat : now = Len(args) /\ Rendering(now)'
        BY <2>3, <4>1, Begins
      <4>3. call' = "having" /\ dialect' = dialect
        BY <4>1 DEF Begin
      <4>4. now = hi
        BY <2>4, <4>2
      <4>5. Apart(now)'
        BY <3>3, <4>4
      <4> QED BY <2>1, <2>3, <3>2, <4>2, <4>3, <4>5 DEF Sound, InWhere
    <3> QED BY <3>4, <3>5
  <2> QED BY <2>5, <2>6
<1>9. CASE Fails
  BY <1>9 DEF Fails
<1> QED BY <1>1, <1>2, <1>3, <1>4, <1>5, <1>6, <1>7, <1>8, <1>9 DEF BuilderNext

\* A statement that has lost a fragment does not recover.
LEMMA StaysFailed == ASSUME failed, BuilderNext PROVE failed'
<1>1. CASE Arg
  BY <1>1 DEF Arg
<1>2. CASE Where
  BY <1>2 DEF Where
<1>3. CASE WhereExcluding
  BY <1>3 DEF WhereExcluding
<1>4. CASE Having
  BY <1>4 DEF Having, Refused
<1>5. CASE WhereAndHaving
  BY <1>5 DEF WhereAndHaving, Refused
<1>6. CASE Keyset
  BY <1>6 DEF Keyset
<1>7. CASE Render
  BY <1>7 DEF Render, own
<1>8. CASE Returns
  BY <1>8 DEF Returns
<1>9. CASE Fails
  BY <1>9 DEF Fails
<1> QED BY <1>1, <1>2, <1>3, <1>4, <1>5, <1>6, <1>7, <1>8, <1>9 DEF BuilderNext

LEMMA InitSound == BuilderInit => Sound
<1> SUFFICES ASSUME BuilderInit PROVE Sound
  OBVIOUS
<1>1. /\ dialect \in Dialect /\ left = Calls /\ call = "none" /\ result = "ok"
      /\ args = <<>> /\ where = <<>> /\ having = <<>>
  BY TargetAssumption DEF BuilderInit
<1>2. IsSeq(args) /\ Len(args) = 0
  BY <1>1, EmptySeq, IsSeqIntro
<1>3. Apart(0)
  BY <1>1, ShowsNothing DEF Apart
<1>4. left \in 0 .. Calls
  BY <1>1, CallsAssumption
<1> QED BY <1>1, <1>2, <1>3, <1>4 DEF Sound, InWhere

\* In a statement all of whose fragments came out, the placeholders are those of
\* the arguments, one each, in their order across all fragments, whatever was asked
\* for (builder.go:3-13).
THEOREM StatementsInOrder == BuilderSpec => []StatementInOrder
<1>1. BuilderInit => (~failed => Sound)
  BY InitSound
<1>2. (~failed => Sound) /\ [BuilderNext]_<<vars, own>> => (~failed => Sound)'
  <2> SUFFICES ASSUME ~failed => Sound, [BuilderNext]_<<vars, own>>, ~failed' PROVE Sound'
    OBVIOUS
  <2>1. CASE BuilderNext
    BY <2>1, NextSound, StaysFailed
  <2>2. CASE UNCHANGED <<vars, own>>
    <3>1. Sound
      BY <2>2 DEF own
    <3>2. call # "none" => \E base \in Nat : (Rendering(base) /\ Apart(base))'
      <4> SUFFICES ASSUME call # "none" PROVE \E base \in Nat : (Rendering(base) /\ Apart(base))'
        OBVIOUS
      <4>1. PICK base \in Nat : Rendering(base) /\ Apart(base)
        BY <3>1 DEF Sound
      <4>2. Rendering(base)'
        BY <2>2, <4>1, NextRendering
      <4>3. Apart(base)'
        BY <2>2, <4>1 DEF Apart, own
      <4> QED BY <4>2, <4>3
    <3>3. call = "none" => Apart(Len(args))'
      BY <2>2, <3>1 DEF Sound, Apart, own, vars
    <3> QED BY <2>2, <3>1, <3>2, <3>3 DEF Sound, InWhere, own, vars
  <2> QED BY <2>1, <2>2
<1>3. (~failed => Sound) => StatementInOrder
  <2> SUFFICES ASSUME Sound, call = "none" PROVE InOrder(Statement, 0, Len(args))
    BY DEF StatementInOrder
  <2>1. PICK m \in Nat : Shows(where, 0, m) /\ Shows(having, m, Len(args))
    BY DEF Sound, Apart
  <2>2. Shows(where \o having, 0, Len(args))
    BY <2>1, ShowsConcat
  <2> QED BY <2>2 DEF Shows, Statement
<1> QED BY <1>1, <1>2, <1>3, PTL DEF BuilderSpec

(***************************************************************************)
(* The keys of a tree.                                                     *)
(***************************************************************************)
KeyHere(c) == IF c.key = "" THEN <<>> ELSE <<c.key>>
KeysWith(c, r) == KeyHere(c) \o FlattenSeq([i \in DOMAIN Subtrees(c) |-> r[Subtrees(c)[i]]])

LEMMA KeyHereType == ASSUME NEW c \in Condition PROVE KeyHere(c) \in Seq(STRING)
<1>1. c.key \in STRING
  BY ConditionAssumption
<1>2. <<>> \in Seq(STRING) /\ <<c.key>> \in Seq(STRING)
  BY <1>1
<1> QED BY <1>2 DEF KeyHere

LEMMA PartsType ==
  ASSUME NEW c \in Condition, NEW V, NEW r, \A k \in NodesBelow(c) : r[k] \in V
  PROVE  [i \in DOMAIN Subtrees(c) |-> r[Subtrees(c)[i]]] \in Seq(V)
<1> DEFINE parts == [i \in DOMAIN Subtrees(c) |-> r[Subtrees(c)[i]]]
<1>1. Subtrees(c) \in Seq(Condition) /\ \A i \in DOMAIN Subtrees(c) : Subtrees(c)[i] \in NodesBelow(c)
  BY SubtreesOf
<1>2. Len(Subtrees(c)) \in Nat /\ DOMAIN Subtrees(c) = 1 .. Len(Subtrees(c))
  BY <1>1, LenProperties
<1>3. parts \in [1 .. Len(Subtrees(c)) -> V]
  BY <1>1, <1>2
<1> HIDE DEF parts
<1> QED BY <1>2, <1>3, SeqDef DEF parts

LEMMA KeysWithType ==
  ASSUME NEW c \in Condition, NEW r, \A k \in NodesBelow(c) : r[k] \in Seq(STRING)
  PROVE  KeysWith(c, r) \in Seq(STRING)
<1>1. [i \in DOMAIN Subtrees(c) |-> r[Subtrees(c)[i]]] \in Seq(Seq(STRING))
  BY PartsType
<1>2. FlattenSeq([i \in DOMAIN Subtrees(c) |-> r[Subtrees(c)[i]]]) \in Seq(STRING)
  BY <1>1, FlattenSeqType
<1> QED BY <1>2, KeyHereType, ConcatProperties DEF KeysWith

LEMMA KeysRecur == \A c \in Condition : KeysIn[c] = KeysWith(c, KeysIn)
<1> DEFINE V == Seq(STRING)
           step == [c \in Condition |-> [r \in [NodesBelow(c) -> V] |-> KeysWith(c, r)]]
<1>1. \A c \in Condition : \A r \in [NodesBelow(c) -> V] : step[c][r] = KeysWith(c, r)
  OBVIOUS
<1>2. \A c \in Condition : \A r \in [NodesBelow(c) -> V] : KeysWith(c, r) \in V
  BY KeysWithType
<1> HIDE DEF step, V
<1>3. StepsIn(V, step)
  BY <1>1, <1>2 DEF StepsIn
<1>4. PICK g : Follows(g, V, step)
  BY <1>3, TreesRecur
<1>5. ASSUME NEW c \in Condition PROVE g[c] = KeysWith(c, g)
  <2>1. PICK r : r = Restrict(g, NodesBelow(c))
    OBVIOUS
  <2>2. g[c] = KeysWith(c, r)
    BY <1>1, <1>4, <2>1 DEF Follows
  <2>3. \A i \in DOMAIN Subtrees(c) : r[Subtrees(c)[i]] = g[Subtrees(c)[i]]
    BY <2>1, SubtreesOf DEF Restrict
  <2>4. [i \in DOMAIN Subtrees(c) |-> r[Subtrees(c)[i]]] = [i \in DOMAIN Subtrees(c) |-> g[Subtrees(c)[i]]]
    BY <2>3
  <2> QED BY <2>2, <2>4 DEF KeysWith
<1>6. g = [c \in Condition |-> KeysWith(c, g)]
  BY <1>4, <1>5 DEF Follows
<1>7. KeysIn = CHOOSE f : f = [c \in Condition |-> KeysWith(c, f)]
  BY DEF KeysIn, KeysWith, KeyHere
<1>8. KeysIn = [c \in Condition |-> KeysWith(c, KeysIn)]
  BY <1>6, <1>7
<1> QED BY <1>8

LEMMA KeysType == \A c \in Condition : KeysIn[c] \in Seq(STRING)
<1> DEFINE S == {c \in Condition : KeysIn[c] \in Seq(STRING)}
<1>1. ASSUME NEW c \in Condition, NodesBelow(c) \subseteq S PROVE c \in S
  BY <1>1, KeysRecur, KeysWithType
<1> HIDE DEF S
<1>2. Condition \subseteq S
  BY <1>1, TreeInduction
<1> QED BY <1>2 DEF S

\* The keys of a node are its own and those of the nodes below.
LEMMA KeysOfNode ==
  ASSUME NEW c \in Condition
  PROVE  /\ c.key # "" => c.key \in ToSet(KeysIn[c])
         /\ \A k \in NodesBelow(c) : ToSet(KeysIn[k]) \subseteq ToSet(KeysIn[c])
<1> DEFINE parts == [i \in DOMAIN Subtrees(c) |-> KeysIn[Subtrees(c)[i]]]
<1>1. NodesBelow(c) \subseteq Condition
  BY SubtreesOf
<1>2. parts \in Seq(Seq(STRING))
  BY <1>1, KeysType, PartsType
<1>3. KeysIn[c] = KeyHere(c) \o FlattenSeq(parts)
  BY KeysRecur DEF KeysWith
<1>4. \A k \in NodesBelow(c) : \E i \in DOMAIN parts : KeysIn[k] = parts[i]
  BY DEF NodesBelow, ToSet
<1> HIDE DEF parts
<1>5. ToSet(FlattenSeq(parts)) = UNION {ToSet(parts[i]) : i \in DOMAIN parts}
  BY <1>2, FlattenElements
<1>6. ToSet(KeysIn[c]) = ToSet(KeyHere(c)) \cup ToSet(FlattenSeq(parts))
  BY <1>2, <1>3, KeyHereType, FlattenSeqType, ToSetConcat
<1>7. c.key # "" => c.key \in ToSet(KeyHere(c))
  <2>1. PICK one : one = <<c.key>>
    OBVIOUS
  <2>2. DOMAIN one = {1} /\ one[1] = c.key
    BY <2>1
  <2>3. c.key \in ToSet(one)
    BY <2>2 DEF ToSet
  <2> QED BY <2>1, <2>3 DEF KeyHere
<1> QED BY <1>4, <1>5, <1>6, <1>7

(***************************************************************************)
(* Conditions that pass requireKind mention fields of the kind only.       *)
(***************************************************************************)
OfKind(want) == {c \in Condition : \A k \in ToSet(KeysIn[c]) : KindFault(k, want) = "ok"}

LEMMA OfKindClosed == ASSUME NEW want \in BOOLEAN PROVE ChildrenIn(OfKind(want))
<1> SUFFICES ASSUME NEW c \in OfKind(want)
             PROVE  c.and \in Seq(OfKind(want)) /\ c.or \in Seq(OfKind(want)) /\ c.not \in Seq(OfKind(want))
  BY DEF ChildrenIn, OfKind
<1>1. c \in Condition
  BY DEF OfKind
<1>2. c.and \in Seq(Condition) /\ c.or \in Seq(Condition) /\ c.not \in Seq(Condition)
  BY <1>1, ConditionAssumption
<1>3. NodesBelow(c) \subseteq OfKind(want)
  BY <1>1, KeysOfNode, SubtreesOf DEF OfKind
<1>4. ASSUME NEW s \in Seq(Condition), ToSet(s) \subseteq OfKind(want) PROVE s \in Seq(OfKind(want))
  <2>1. s \in [1 .. Len(s) -> Condition] /\ Len(s) \in Nat /\ DOMAIN s = 1 .. Len(s)
    BY LenProperties
  <2>2. \A i \in 1 .. Len(s) : s[i] \in OfKind(want)
    BY <1>4, <2>1 DEF ToSet
  <2>3. s \in [1 .. Len(s) -> OfKind(want)]
    BY <2>1, <2>2
  <2> QED BY <2>1, <2>3, SeqDef
<1>5. ToSet(c.and) \cup ToSet(c.or) \cup ToSet(c.not) \subseteq OfKind(want)
  BY <1>1, <1>3, SubtreesOf
<1> QED BY <1>2, <1>4, <1>5

LEMMA OfKindFields ==
  /\ FieldsOf(OfKind(TRUE)) \subseteq HavingKeys
  /\ FieldsOf(OfKind(FALSE)) \subseteq DOMAIN Registry \ HavingKeys
<1>1. ASSUME NEW want \in BOOLEAN, NEW k \in FieldsOf(OfKind(want))
      PROVE  k \in DOMAIN Registry /\ (k \in HavingKeys) = want
  <2>1. PICK c \in OfKind(want) : k = c.key /\ k # "" /\ k \in DOMAIN Registry
    BY <1>1 DEF FieldsOf
  <2>2. c \in Condition /\ k \in ToSet(KeysIn[c])
    BY <2>1, KeysOfNode DEF OfKind
  <2>3. KindFault(k, want) = "ok"
    BY <2>2 DEF OfKind
  <2> QED BY <2>1, <2>3 DEF KindFault
<1> QED BY <1>1

LEMMA RequiredKind ==
  ASSUME NEW conds \in Filter, NEW want \in BOOLEAN, RequireKind(conds, want)
  PROVE  conds \in Seq(OfKind(want))
<1>1. conds \in Seq(Condition)
  BY FilterAssumption
<1>2. conds \in [1 .. Len(conds) -> Condition] /\ Len(conds) \in Nat /\ DOMAIN conds = 1 .. Len(conds)
  BY <1>1, LenProperties
<1>3. \A i \in 1 .. Len(conds) : conds[i] \in OfKind(want)
  BY <1>2 DEF RequireKind, OfKind
<1>4. conds \in [1 .. Len(conds) -> OfKind(want)]
  BY <1>2, <1>3
<1> QED BY <1>2, <1>4, SeqDef

(***************************************************************************)
(* Aggregates apart.  A HAVING list is rendered over conditions of its     *)
(* kind, the WHERE list of CompileWhereHaving over conditions of the       *)
(* other; and CompileWhereHaving has the statement to itself.  This holds  *)
(* of statements that lost a fragment, too.                                *)
(***************************************************************************)
Live ==
  /\ dialect \in Dialect
  /\ IsSeq(args)
  /\ call = "none" => result # "running"
  /\ call # "none" => \E base : Rendering(base)

PlainColumns == ColumnsOfAll(DOMAIN Registry \ HavingKeys)

\* No more fragments will be asked for.
Alone == left = 0 /\ call \in {"both", "having", "none"}

Separate ==
  /\ Live
  /\ left \in 0 .. Calls
  /\ IsSeq(asked)
  /\ left = Calls => call = "none" /\ asked = <<>> /\ where = <<>>
  /\ Over(having, HavingColumns)
  /\ call = "having" => Reading(OfKind(TRUE))
  /\ call = "both" =>
       /\ Alone /\ asked = <<>> /\ where = <<>>
       /\ pending \in Seq(OfKind(TRUE))
       /\ Reading(OfKind(FALSE))
  /\ asked # <<>> /\ asked[1].kind = "both" => Alone /\ call # "both" /\ Over(where, PlainColumns)

LEMMA HavingText ==
  /\ ColumnsOfAll(FieldsOf(OfKind(TRUE))) \subseteq HavingColumns
  /\ ColumnsOfAll(FieldsOf(OfKind(FALSE))) \subseteq PlainColumns
BY OfKindFields DEF ColumnsOfAll, HavingColumns, PlainColumns

LEMMA GlueOver ==
  ASSUME NEW a, NEW b, NEW cols, Over(a, cols), Over(b, cols)
  PROVE  Over(Glue(a, b), cols)
<1>1. Over(<<Word("AND")>>, cols)
  BY OverWord
<1>2. Over(a \o <<Word("AND")>>, cols)
  BY <1>1, OverConcat
<1>3. Over(a \o <<Word("AND")>> \o b, cols)
  BY <1>2, OverConcat
<1> QED BY <1>3 DEF Glue

LEMMA BeginLive ==
  ASSUME dialect \in Dialect, IsSeq(args), NEW kind, kind # "none", NEW conds \in Seq(Condition), Begin(kind, conds)
  PROVE  Live'
<1>1. PICK base \in Nat : Rendering(base)'
  BY Begins
<1>2. call' = kind /\ args' = args /\ dialect' = dialect
  BY DEF Begin
<1> QED BY <1>1, <1>2 DEF Live

LEMMA BeginOver ==
  ASSUME NEW C, NEW conds \in Seq(C), NEW kind, Begin(kind, conds)
  PROVE  Reading(C)'
<1> DEFINE top == [form |-> "top", node |-> Empty, rest |-> conds, cols |-> <<>>,
                   text |-> <<>>, live |-> 0, from |-> Len(args)]
<1>1. stack' = <<top>> /\ result' = "running"
  BY DEF Begin, Top
<1> HIDE DEF top
<1>2. StackReads(C, <<top>>)
  BY BeginReading DEF top
<1> QED BY <1>1, <1>2 DEF Reading

\* A first part that is not CompileWhereHaving's.
LEMMA AskedMore ==
  ASSUME IsSeq(asked), NEW part, asked' = Append(asked, part)
  PROVE  /\ IsSeq(asked') /\ asked' # <<>>
         /\ asked # <<>> => asked'[1] = asked[1]
         /\ asked = <<>> => asked'[1] = part
<1>1. /\ IsSeq(asked') /\ Len(asked') = Len(asked) + 1 /\ Len(asked) \in Nat
      /\ \A i \in 1 .. Len(asked) : asked'[i] = asked[i]
      /\ asked'[Len(asked) + 1] = part
  BY IsSeqAppend, IsSeqLen
<1>2. asked' # <<>> /\ (asked = <<>> <=> Len(asked) = 0)
  BY <1>1, IsSeqLen
<1>3. Len(asked) # 0 => 1 \in 1 .. Len(asked)
  BY <1>1
<1>4. Len(asked) = 0 => Len(asked) + 1 = 1
  OBVIOUS
<1> QED BY <1>1, <1>2, <1>3, <1>4

\* The client asks for a fragment: nothing of CompileWhereHaving is there.
LEMMA NotAlone ==
  ASSUME Separate, Asks
  PROVE  /\ dialect \in Dialect /\ IsSeq(args) /\ Len(args) \in Nat /\ result # "running"
         /\ left' \in 0 .. Calls /\ left' # Calls
         /\ asked # <<>> => asked[1].kind # "both"
<1>1. call = "none" /\ left > 0 /\ left' = left - 1
  BY DEF Asks
<1>2. left \in 0 .. Calls
  BY DEF Separate
<1>3. left' \in 0 .. Calls /\ left' # Calls /\ left # 0
  BY <1>1, <1>2, CallsAssumption
<1> QED BY <1>1, <1>3, IsSeqLen DEF Separate, Live, Alone

LEMMA FragmentApart ==
  ASSUME Separate, Asks, NEW kind \in {"where", "excluding", "having"}, NEW conds \in Seq(Condition),
         Begin(kind, conds), kind = "having" => conds \in Seq(OfKind(TRUE)),
         UNCHANGED <<having, asked>>
  PROVE  Separate'
<1>1. /\ dialect \in Dialect /\ IsSeq(args) /\ left' \in 0 .. Calls /\ left' # Calls
      /\ asked # <<>> => asked[1].kind # "both"
  BY NotAlone
<1>2. Live' /\ call' = kind
  BY <1>1, BeginLive DEF Begin
<1>3. kind = "having" => Reading(OfKind(TRUE))'
  BY BeginOver
<1> QED BY <1>1, <1>2, <1>3 DEF Separate

\* A fragment that is there at once, or fails at once.
LEMMA AtOnceApart ==
  ASSUME Separate, Asks, IsSeq(args'), UNCHANGED <<dialect, result, call, having>>,
         \/ UNCHANGED <<asked, where>>
         \/ \E part : part.kind # "both" /\ asked' = Append(asked, part)
  PROVE  Separate'
<1>1. /\ dialect \in Dialect /\ result # "running" /\ left' \in 0 .. Calls /\ left' # Calls
      /\ asked # <<>> => asked[1].kind # "both"
  BY NotAlone
<1>2. call = "none"
  BY DEF Asks
<1>3. Live'
  BY <1>1, <1>2 DEF Live
<1>4. IsSeq(asked') /\ (asked' # <<>> => asked'[1].kind # "both")
  BY <1>1, AskedMore DEF Separate
<1> QED BY <1>1, <1>2, <1>3, <1>4 DEF Separate

LEMMA NextSeparate == ASSUME Separate, BuilderNext PROVE Separate'
<1>1. CASE Arg
  <2>1. PICK v \in Literal :
          args' = Append(args, v.value) /\ asked' = Append(asked, [kind |-> "arg", arg |-> v])
    BY <1>1 DEF Arg
  <2>2. PICK part : part = [kind |-> "arg", arg |-> v]
    OBVIOUS
  <2>3. part.kind # "both" /\ asked' = Append(asked, part)
    BY <2>1, <2>2
  <2>4. Asks /\ UNCHANGED <<dialect, result, call, having>>
    BY <1>1 DEF Arg
  <2>5. IsSeq(args')
    BY <2>1, <2>4, NotAlone, IsSeqAppend
  <2> QED BY <2>3, <2>4, <2>5, AtOnceApart
<1>2. CASE Where
  <2>1. PICK conds \in Filter : Begin("where", conds)
    BY <1>2 DEF Where
  <2>2. Asks /\ UNCHANGED <<having, asked>>
    BY <1>2 DEF Where
  <2> QED BY <2>1, <2>2, FilterAssumption, FragmentApart
<1>3. CASE WhereExcluding
  <2>1. PICK conds \in Filter : Begin("excluding", conds)
    BY <1>3 DEF WhereExcluding
  <2>2. Asks /\ UNCHANGED <<having, asked>>
    BY <1>3 DEF WhereExcluding
  <2> QED BY <2>1, <2>2, FilterAssumption, FragmentApart
<1>4. CASE Having
  <2>1. Asks
    BY <1>4 DEF Having
  <2>2. PICK conds \in Filter :
          \/ RequireKind(conds, TRUE) /\ Begin("having", conds) /\ UNCHANGED <<having, asked>>
          \/ Refused
    BY <1>4 DEF Having
  <2>3. CASE RequireKind(conds, TRUE) /\ Begin("having", conds) /\ UNCHANGED <<having, asked>>
    <3>1. conds \in Seq(OfKind(TRUE))
      BY <2>3, RequiredKind
    <3> QED BY <2>1, <2>3, <3>1, FilterAssumption, FragmentApart
  <2>4. CASE Refused
    <3>1. UNCHANGED <<dialect, result, call, having, asked, where, args>>
      BY <2>4 DEF Refused, vars
    <3>2. IsSeq(args')
      BY <2>1, <3>1, NotAlone
    <3> QED BY <2>1, <3>1, <3>2, AtOnceApart
  <2> QED BY <2>2, <2>3, <2>4
<1>5. CASE WhereAndHaving
  <2>1. /\ call = "none" /\ left = Calls /\ left' = 0
        /\ asked = <<>> /\ where = <<>>
    BY <1>5 DEF WhereAndHaving, Separate
  <2>2. left' \in 0 .. Calls /\ left' # Calls
    BY <2>1, CallsAssumption
  <2>3. PICK w \in Filter, h \in Filter :
          \/ /\ RequireKind(w, FALSE) /\ RequireKind(h, TRUE)
             /\ Begin("both", w)
             /\ pending' = h
             /\ UNCHANGED <<where, having, asked>>
          \/ Refused
    BY <1>5 DEF WhereAndHaving
  <2>4. CASE /\ RequireKind(w, FALSE) /\ RequireKind(h, TRUE)
             /\ Begin("both", w)
             /\ pending' = h
             /\ UNCHANGED <<where, having, asked>>
    <3>1. w \in Seq(OfKind(FALSE)) /\ h \in Seq(OfKind(TRUE))
      BY <2>4, RequiredKind
    <3>2. Live' /\ call' = "both"
      <4>1. w \in Seq(Condition)
        BY FilterAssumption
      <4>2. dialect \in Dialect /\ IsSeq(args)
        BY DEF Separate, Live
      <4> QED BY <2>4, <4>1, <4>2, BeginLive DEF Begin
    <3>3. Reading(OfKind(FALSE))'
      BY <2>4, <3>1, BeginOver
    <3> QED BY <2>1, <2>2, <2>4, <3>1, <3>2, <3>3 DEF Separate, Alone
  <2>5. CASE Refused
    <3>1. UNCHANGED <<dialect, result, call, having, asked, where, args>>
      BY <2>5 DEF Refused, vars
    <3>2. Live'
      BY <2>1, <3>1 DEF Separate, Live
    <3> QED BY <2>1, <2>2, <3>1, <3>2 DEF Separate
  <2> QED BY <2>3, <2>4, <2>5
<1>6. CASE Keyset
  <2>1. Asks /\ UNCHANGED <<dialect, result, call, having>>
    BY <1>6 DEF Keyset
  <2>2. IsSeq(args) /\ Len(args) \in Nat
    BY <2>1, NotAlone
  <2>3. PICK s \in Seeks :
          \/ UNCHANGED <<args, where, asked>>
          \/ /\ args' = args \o Seek(s.sorts, s.cur, Len(args)).args
             /\ asked' = Append(asked, [kind |-> "seek", seek |-> s])
    BY <1>6 DEF Keyset
  <2>4. CASE UNCHANGED <<args, where, asked>>
    BY <2>1, <2>2, <2>4, AtOnceApart
  <2>5. CASE /\ args' = args \o Seek(s.sorts, s.cur, Len(args)).args
             /\ asked' = Append(asked, [kind |-> "seek", seek |-> s])
    <3>1. IsSeq(s.sorts)
      BY SeekAssumption, IsSeqIntro
    <3>2. IsSeq(Seek(s.sorts, s.cur, Len(args)).args)
      BY <2>2, <3>1, SeekRenders DEF Renders
    <3>3. IsSeq(args')
      BY <2>2, <2>5, <3>2, IsSeqConcat
    <3>4. PICK part : part = [kind |-> "seek", seek |-> s]
      OBVIOUS
    <3>5. part.kind # "both" /\ asked' = Append(asked, part)
      BY <2>5, <3>4
    <3> QED BY <2>1, <3>3, <3>5, AtOnceApart
  <2> QED BY <2>3, <2>4, <2>5
<1>7. CASE Render
  <2>1. result = "running" /\ Next /\ UNCHANGED own
    BY <1>7 DEF Render
  <2>2. PICK base : Rendering(base)
    BY <2>1 DEF Separate, Live
  <2>3. Rendering(base)' /\ IsSeq(args')
    BY <2>1, <2>2, NextRendering, NextBinds
  <2>4. Live'
    BY <2>1, <2>3 DEF Separate, Live, Rendering, own
  <2>5. \A want \in BOOLEAN : Reading(OfKind(want)) => Reading(OfKind(want))'
    BY <2>1, <2>2, NextReading, OfKindClosed
  <2> QED BY <2>1, <2>4, <2>5 DEF Separate, Alone, own
<1>8. CASE Returns
  <2>1. call # "none" /\ result = "ok" /\ left' = left /\ pending' = pending
    BY <1>8 DEF Returns, Rendered
  <2>2. IsSeq(args) /\ dialect \in Dialect /\ left # Calls /\ IsSeq(asked)
    BY <2>1 DEF Separate, Live
  <2>3. CASE call = "having"
    <3>1. /\ having' = Glue(having, sql) /\ UNCHANGED <<where, asked>>
          /\ call' = "none" /\ UNCHANGED <<dialect, args, result>>
      BY <1>8, <2>3 DEF Returns
    <3>2. Over(sql, HavingColumns)
      <4>1. Over(sql, ColumnsOfAll(FieldsOf(OfKind(TRUE))))
        BY <2>1, <2>3 DEF Separate, Reading
      <4> QED BY <4>1, HavingText, OverMore
    <3>3. Over(having', HavingColumns)
      BY <3>1, <3>2, GlueOver DEF Separate
    <3>4. Live'
      BY <2>1, <2>2, <3>1 DEF Live
    <3> QED BY <2>1, <2>2, <2>3, <3>1, <3>3, <3>4 DEF Separate, Alone
  <2>4. CASE call # "having" /\ call # "both"
    <3>1. /\ asked' = Append(asked, Part) /\ having' = having
          /\ call' = "none" /\ UNCHANGED <<dialect, args, result>>
      BY <1>8, <2>4 DEF Returns
    <3>2. Part.kind = call
      BY DEF Part
    <3>3. asked # <<>> => asked[1].kind # "both"
      BY <2>1, <2>4 DEF Separate, Alone
    <3>4. IsSeq(asked') /\ asked'[1].kind # "both"
      BY <2>2, <2>4, <3>1, <3>2, <3>3, AskedMore
    <3>5. Live'
      BY <2>1, <2>2, <3>1 DEF Live
    <3> QED BY <2>1, <2>2, <3>1, <3>4, <3>5 DEF Separate
  <2>5. CASE call = "both"
    <3>1. /\ asked' = Append(asked, Part) /\ having' = having /\ where' = Glue(where, sql)
          /\ Begin("having", pending)
      BY <1>8, <2>5 DEF Returns
    <3>2. /\ asked = <<>> /\ where = <<>> /\ pending \in Seq(OfKind(TRUE)) /\ left = 0
          /\ Over(sql, ColumnsOfAll(FieldsOf(OfKind(FALSE))))
      BY <2>1, <2>5 DEF Separate, Reading, Alone
    <3>3. pending \in Seq(Condition)
      BY <3>2, SeqMonotonic DEF OfKind
    <3>4. Live' /\ call' = "having"
      BY <2>2, <3>1, <3>3, BeginLive DEF Begin
    <3>5. Reading(OfKind(TRUE))'
      BY <3>1, <3>2, BeginOver
    <3>6. where' = sql
      BY <3>1, <3>2 DEF Glue
    <3>7. Over(where', PlainColumns)
      BY <3>2, <3>6, HavingText, OverMore
    <3>8. IsSeq(asked')
      BY <2>2, <3>1, AskedMore
    <3> QED BY <2>1, <2>2, <3>1, <3>2, <3>4, <3>5, <3>7, <3>8 DEF Separate, Alone
  <2> QED BY <2>3, <2>4, <2>5
<1>9. CASE Fails
  <2>1. /\ call # "none" /\ result # "running" /\ call' = "none"
        /\ UNCHANGED <<dialect, args, result, having, left>>
        /\ (where' = <<>> /\ asked' = <<>>) \/ UNCHANGED <<where, asked>>
    BY <1>9 DEF Fails, Rendered
  <2>2. Live'
    BY <2>1 DEF Separate, Live
  <2>3. CASE where' = <<>> /\ asked' = <<>>
    <3>1. IsSeq(asked')
      BY <2>3, EmptySeq, IsSeqIntro
    <3> QED BY <2>1, <2>2, <2>3, <3>1 DEF Separate, Alone
  <2>4. CASE UNCHANGED <<where, asked>>
    BY <2>1, <2>2, <2>4 DEF Separate, Alone
  <2> QED BY <2>1, <2>3, <2>4
<1> QED BY <1>1, <1>2, <1>3, <1>4, <1>5, <1>6, <1>7, <1>8, <1>9 DEF BuilderNext

LEMMA InitSeparate == BuilderInit => Separate
<1> SUFFICES ASSUME BuilderInit PROVE Separate
  OBVIOUS
<1>1. /\ dialect \in Dialect /\ left = Calls /\ call = "none" /\ result = "ok"
      /\ args = <<>> /\ where = <<>> /\ having = <<>> /\ asked = <<>>
  BY TargetAssumption DEF BuilderInit
<1>2. IsSeq(<<>>)
  BY EmptySeq, IsSeqIntro
<1>3. left \in 0 .. Calls
  BY <1>1, CallsAssumption
<1>4. Over(having, HavingColumns)
  BY <1>1, OverNothing
<1> QED BY <1>1, <1>2, <1>3, <1>4 DEF Separate, Live

LEMMA SeparateInvariant == BuilderSpec => []Separate
<1>1. Separate /\ [BuilderNext]_<<vars, own>> => Separate'
  <2> SUFFICES ASSUME Separate, [BuilderNext]_<<vars, own>> PROVE Separate'
    OBVIOUS
  <2>1. CASE BuilderNext
    BY <2>1, NextSeparate
  <2>2. CASE UNCHANGED <<vars, own>>
    <3>1. UNCHANGED vars /\ UNCHANGED own
      BY <2>2
    <3>2. \A base : Rendering(base) => Rendering(base)'
      BY <3>1, NextRendering
    <3>3. Live'
      BY <3>1, <3>2 DEF Separate, Live, vars, own
    <3>4. \A C : Reading(C) => Reading(C)'
      BY <3>1 DEF Reading, vars
    <3> QED BY <3>1, <3>3, <3>4 DEF Separate, Alone, own
  <2> QED BY <2>1, <2>2
<1> QED BY <1>1, InitSeparate, PTL DEF BuilderSpec

\* Whatever is asked for, also of a statement that lost a fragment, the HAVING
\* text reads columns of aggregates only (having.go:14-16, builder.go HAVING).
THEOREM HavingReadsAggregates == BuilderSpec => []AggregatesInHaving
<1>1. Separate => AggregatesInHaving
  BY DEF Separate, Over, AggregatesInHaving
<1> QED BY <1>1, SeparateInvariant, PTL

\* And the WHERE text of CompileWhereHaving reads none, where no column is both.
THEOREM AggregatesApart == ASSUME HavingColumnsApart PROVE BuilderSpec => []HavingApart
<1>1. PlainColumns \cap HavingColumns = {} /\ "" \notin HavingColumns
  BY DEF HavingColumnsApart, PlainColumns, ColumnsOfAll
<1>2. Separate => HavingApart
  BY <1>1 DEF Separate, Over, HavingApart, AggregatesInHaving, NoAggregateInWhere
<1> QED BY <1>2, SeparateInvariant, PTL

(***************************************************************************)
(* What a statement selects.                                               *)
(*                                                                         *)
(* A comparison that a client writes is never an error; it selects the     *)
(* rows on which it is true.                                               *)
(***************************************************************************)
Sure == {"T", "F", "U"}

LEMMA And3Selects ==
  ASSUME NEW S, S \subseteq Sure
  PROVE  And3(S) \in Sure /\ (And3(S) = "T" <=> \A v \in S : v = "T")
BY DEF And3, Sure

LEMMA Or2Selects ==
  ASSUME NEW u \in Sure, NEW v \in Sure
  PROVE  Or2(u, v) \in Sure /\ (Or2(u, v) = "T" <=> u = "T" \/ v = "T")
BY DEF Or2, Or3, Sure

\* And2 of what the parts of a statement are worth.
LEMMA And2Selects ==
  ASSUME NEW u \in Truth, NEW v \in Truth
  PROVE  And2(u, v) \in Truth /\ (Selects(And2(u, v)) <=> Selects(u) /\ Selects(v))
BY DEF And2, And3, Truth, Selects

\* A comparison with one value.
Compared == {"=", "<", ">"}

LEMMA ComparisonSelects ==
  ASSUME NEW sym \in Compared, NEW cell, NEW value, value[1] \in {"str", "num", "bool"},
         cell[1] \in {value[1], "null"}
  PROVE  /\ Test(sym, <<>>, <<value>>, cell) \in Sure
         /\ Test(sym, <<>>, <<value>>, cell) = "T" <=>
              cell[1] # "null" /\ CompareTo(sym, cell[2], value[2])
<1>1. sym \notin {"IS NULL", "IS NOT NULL"}
  BY DEF Compared
<1>2. sym \notin OverJsonEach
  BY DEF Compared, OverJsonEach
<1>3. PICK lit : lit = <<>>
  OBVIOUS
<1>4. PICK a : a = <<value>>
  OBVIOUS
<1>5. CASE cell[1] = "null"
  <2>1. Test(sym, lit, a, cell) = "U"
    BY <1>1, <1>2, <1>5 DEF Test
  <2> QED BY <1>5, <1>3, <1>4, <2>1 DEF Sure
<1>6. CASE cell[1] # "null"
  <2>1. a[1] = value
    BY <1>4
  <2>2. cell[1] = value[1] /\ cell[1] \in {"str", "num", "bool", "time"} /\ cell[1] # "time"
    BY <1>6
  <2>3. Test(sym, lit, a, cell) = OverScalar(sym, lit, a, cell)
    BY <1>1, <2>2 DEF Test
  <2>4. Fits(cell, a[1]) /\ Cast(cell, a[1]) = value[2]
    BY <2>1, <2>2 DEF Fits, Cast
  <2>5. OverScalar(sym, lit, a, cell) = Holds(CompareTo(sym, cell[2], value[2]))
    BY <2>4 DEF OverScalar, Compared
  <2>6. Test(sym, lit, a, cell) = Holds(CompareTo(sym, cell[2], value[2]))
    BY <2>3, <2>5
  <2> QED BY <1>6, <1>3, <1>4, <2>6 DEF Holds, Sure
<1> QED BY <1>5, <1>6

\* A predicate over one column and one argument.
LEMMA PredicateSelects ==
  ASSUME NEW sym \in Compared, NEW row \in Row, NEW col, NEW value, Comparable(col, value),
         NEW n, NEW b, b[n + 1] = value, NEW x, x = Predicate(sym, col, n, 1)
  PROVE  /\ Neat(<<x>>) /\ <<x>> # <<>>
         /\ Worth(<<x>>, b, row) \in Sure
         /\ Worth(<<x>>, b, row) = "T" <=>
              row[col][2] # Null /\ value[2] # Null /\ CompareTo(sym, row[col][2], value[2])
<1>1. x.sym = sym /\ x.col = col /\ x.lit = <<>> /\ x.slots = [j \in 1 .. 1 |-> n + j]
  BY DEF Predicate
<1>2. /\ value[1] \in {"str", "num", "bool"} /\ value[2] # Null
      /\ col \in DOMAIN row /\ row[col][1] \in {value[1], "null"}
      /\ row[col][1] = "null" <=> row[col][2] = Null
  BY DEF Comparable
<1>3. PICK g : g = <<value>>
  OBVIOUS
<1>4. g = [j \in DOMAIN x.slots |-> b[x.slots[j]]]
  <2>1. DOMAIN x.slots = 1 .. 1 /\ \A j \in 1 .. 1 : j = 1 /\ x.slots[j] = n + 1
    BY <1>1
  <2>2. \A j \in 1 .. 1 : b[x.slots[j]] = value
    BY <2>1
  <2>3. g = [j \in 1 .. 1 |-> value]
    BY <1>3
  <2> QED BY <2>1, <2>2, <2>3
<1>5. x.sym \notin {"(", ")", "NOT", "AND", "OR"} /\ x.col \in DOMAIN row
  BY <1>1, <1>2 DEF Compared
<1>6. Neat(<<x>>) /\ <<x>> # <<>> /\ Worth(<<x>>, b, row) = Test(x.sym, x.lit, g, row[x.col])
  BY <1>4, <1>5, WorthTest
<1>7. /\ Test(sym, <<>>, <<value>>, row[col]) \in Sure
      /\ Test(sym, <<>>, <<value>>, row[col]) = "T" <=>
           row[col][1] # "null" /\ CompareTo(sym, row[col][2], value[2])
  BY <1>2, ComparisonSelects
<1> QED BY <1>1, <1>2, <1>3, <1>6, <1>7


(***************************************************************************)
(* The seek predicate.                                                     *)
(***************************************************************************)
\* The comparison that the i-th alternative makes in the j-th sort.
SymAt(sorts, i, j) == IF j < i THEN "=" ELSE IF sorts[i].desc THEN "<" ELSE ">"
ColumnAt(sorts, j) == SelectExpr(sorts[j].key)
CursorAt(sorts, cur, j) == cur[sorts[j].key]

Kept(sorts, cur, row, i, j) ==
  LET x == row[ColumnAt(sorts, j)][2]
      c == CursorAt(sorts, cur, j)[2]
  IN x # Null /\ c # Null /\ CompareTo(SymAt(sorts, i, j), x, c)

\* The row is one of the i-th alternative.
Reaches(sorts, cur, row, i) == \A j \in 1 .. i : Kept(sorts, cur, row, i, j)

\* The comparisons of the i-th alternative, n arguments being bound.
Comparisons(preds, sorts, i, n) ==
  \A j \in 1 .. i : preds[j] = Predicate(SymAt(sorts, i, j), ColumnAt(sorts, j), n + j - 1, 1)

LEMMA AlternativeArgs ==
  ASSUME NEW sorts, NEW cur, NEW i \in Nat, NEW n
  PROVE  /\ IsSeq(Alternative(sorts, cur, i, n).args) /\ Len(Alternative(sorts, cur, i, n).args) = i
         /\ \A j \in 1 .. i : Alternative(sorts, cur, i, n).args[j] = CursorAt(sorts, cur, j)
<1>1. PICK bound : bound = [j \in 1 .. i |-> CursorAt(sorts, cur, j)]
  OBVIOUS
<1>2. Alternative(sorts, cur, i, n).args = bound
  BY <1>1 DEF Alternative, Bind, CursorAt
<1>3. IsSeq(bound) /\ Len(bound) = i
  BY <1>1, IsSeqFunction
<1> QED BY <1>1, <1>2, <1>3

LEMMA AlternativeText ==
  ASSUME NEW sorts, NEW cur, NEW i \in Nat, i # 0, NEW n \in Nat,
         NEW preds, Comparisons(preds, sorts, i, n)
  PROVE  Alternative(sorts, cur, i, n).text = Woven(preds, i)
<1> DEFINE odd(k) == LET j == (k + 1) \div 2 IN
                     Predicate(IF j < i THEN "=" ELSE IF sorts[i].desc THEN "<" ELSE ">",
                               SelectExpr(sorts[j].key), n + j - 1, 1)
<1>2. Alternative(sorts, cur, i, n).text =
        [k \in 1 .. 2 * i - 1 |-> IF k % 2 = 0 THEN Word("AND") ELSE odd(k)]
  BY DEF Alternative
<1>3. Woven(preds, i) = [k \in 1 .. 2 * i - 1 |-> IF k % 2 = 1 THEN preds[(k - 1) \div 2 + 1] ELSE Word("AND")]
  BY DEF Woven
<1>4. ASSUME NEW k \in 1 .. 2 * i - 1, k % 2 = 1
      PROVE  odd(k) = preds[(k - 1) \div 2 + 1]
  <2>1. PICK h \in Nat : h = (k - 1) \div 2 /\ k = 2 * h + 1
    BY <1>4, Halves
  <2>2. (k + 1) \div 2 = h + 1 /\ h + 1 \in 1 .. i
    BY <2>1
  <2>3. odd(k) = Predicate(SymAt(sorts, i, h + 1), ColumnAt(sorts, h + 1), n + (h + 1) - 1, 1)
    BY <2>2 DEF SymAt, ColumnAt
  <2> QED BY <2>1, <2>2, <2>3 DEF Comparisons
<1>5. \A k \in 1 .. 2 * i - 1 : k % 2 = 1 \/ k % 2 = 0
  BY Halves
<1> HIDE DEF odd
<1>6. \A k \in 1 .. 2 * i - 1 :
        (IF k % 2 = 0 THEN Word("AND") ELSE odd(k)) = (IF k % 2 = 1 THEN preds[(k - 1) \div 2 + 1] ELSE Word("AND"))
  BY <1>4, <1>5
<1> QED BY <1>2, <1>3, <1>6

LEMMA AlternativeSelects ==
  ASSUME NEW sorts, NEW cur, NEW i \in Nat, i # 0, NEW a, IsSeq(a), NEW row \in Row,
         \A j \in 1 .. i : Comparable(ColumnAt(sorts, j), CursorAt(sorts, cur, j)),
         NEW r, r = Alternative(sorts, cur, i, Len(a))
  PROVE  /\ Neat(r.text) /\ r.text # <<>>
         /\ Worth(r.text, a \o r.args, row) \in Sure
         /\ Worth(r.text, a \o r.args, row) = "T" <=> Reaches(sorts, cur, row, i)
<1>1. PICK n \in Nat : n = Len(a)
  BY IsSeqLen
<1>2. PICK preds :
        preds = [j \in 1 .. i |-> Predicate(SymAt(sorts, i, j), ColumnAt(sorts, j), n + j - 1, 1)]
  OBVIOUS
<1>3. PICK bound : bound = r.args
  OBVIOUS
<1>4. r.text = Woven(preds, i)
      /\ IsSeq(bound) /\ Len(bound) = i /\ \A j \in 1 .. i : bound[j] = CursorAt(sorts, cur, j)
  <2>1. r = Alternative(sorts, cur, i, n)
    BY <1>1
  <2>2. Comparisons(preds, sorts, i, n)
    BY <1>2 DEF Comparisons
  <2>3. Alternative(sorts, cur, i, n).text = Woven(preds, i)
    BY <2>2, AlternativeText
  <2> QED BY <1>3, <2>1, <2>3, AlternativeArgs
<1>6. PICK b : b = a \o bound
  OBVIOUS
<1>7. \A j \in 1 .. i : b[n + j] = CursorAt(sorts, cur, j)
  BY <1>1, <1>4, <1>6, IsSeqConcat
<1>8. PICK v : v = [j \in 1 .. i |-> Worth(<<preds[j]>>, b, row)]
  OBVIOUS
<1>9. ASSUME NEW j \in 1 .. i
      PROVE  /\ Neat(<<preds[j]>>) /\ <<preds[j]>> # <<>> /\ Worth(<<preds[j]>>, b, row) = v[j]
             /\ v[j] \in Sure
             /\ v[j] = "T" <=> Kept(sorts, cur, row, i, j)
  <2>1. PICK m : m = n + j - 1 /\ m + 1 = n + j
    OBVIOUS
  <2>2. PICK sym : sym = SymAt(sorts, i, j)
    OBVIOUS
  <2>3. PICK col : col = ColumnAt(sorts, j)
    OBVIOUS
  <2>4. PICK value : value = CursorAt(sorts, cur, j)
    OBVIOUS
  <2>5. PICK x : x = preds[j]
    OBVIOUS
  <2>6. x = Predicate(sym, col, m, 1)
    BY <1>2, <2>1, <2>2, <2>3, <2>5
  <2>7. sym \in Compared
    BY <2>2 DEF SymAt, Compared
  <2>8. b[m + 1] = value
    BY <1>7, <2>1, <2>4
  <2>9. Comparable(col, value)
    BY <2>3, <2>4
  <2>10. /\ Neat(<<x>>) /\ <<x>> # <<>>
         /\ Worth(<<x>>, b, row) \in Sure
         /\ Worth(<<x>>, b, row) = "T" <=>
              row[col][2] # Null /\ value[2] # Null /\ CompareTo(sym, row[col][2], value[2])
    BY <2>6, <2>7, <2>8, <2>9, PredicateSelects
  <2>11. Kept(sorts, cur, row, i, j) <=>
           row[col][2] # Null /\ value[2] # Null /\ CompareTo(sym, row[col][2], value[2])
    BY <2>2, <2>3, <2>4 DEF Kept
  <2>12. v[j] = Worth(<<x>>, b, row)
    BY <1>8, <2>5
  <2> QED BY <2>5, <2>10, <2>11, <2>12
<1>10. /\ Neat(Woven(preds, i)) /\ Woven(preds, i) # <<>>
       /\ Worth(Woven(preds, i), b, row) = And3({v[j] : j \in 1 .. i})
  BY <1>9, WovenWorth, SMTT(30)
<1>11. PICK S : S = {v[j] : j \in 1 .. i}
  OBVIOUS
<1>12. And3(S) \in Sure /\ (And3(S) = "T" <=> \A u \in S : u = "T")
  <2>1. S \subseteq Sure
    BY <1>9, <1>11
  <2> QED BY <2>1, And3Selects
<1>13. (\A u \in S : u = "T") <=> Reaches(sorts, cur, row, i)
  BY <1>9, <1>11 DEF Reaches
<1> QED BY <1>3, <1>4, <1>6, <1>10, <1>11, <1>12, <1>13

\* r asks, with a bound before it, whether b.
Chooses(r, a, row, b) ==
  /\ Balanced(r.text) /\ r.text # <<>>
  /\ Worth(r.text, a \o r.args, row) \in Sure
  /\ Worth(r.text, a \o r.args, row) = "T" <=> b

UpTo(sorts, cur, row, m) == \E i \in 1 .. m : Reaches(sorts, cur, row, i)

\* The cursor's values are what the columns hold.
Seekable(sorts, cur, m) == \A j \in 1 .. m : Comparable(ColumnAt(sorts, j), CursorAt(sorts, cur, j))

\* One more alternative.
LEMMA AnotherSelects ==
  ASSUME NEW sorts, NEW cur, NEW i \in Nat, i # 0, NEW a, IsSeq(a), NEW row \in Row,
         Seekable(sorts, cur, i), NEW before, Renders(before, Len(a)),
         i = 1 => before = Nothing,
         i # 1 => Chooses(before, a, row, UpTo(sorts, cur, row, i - 1))
  PROVE  Chooses(Another(sorts, cur, Len(a), before, i), a, row, UpTo(sorts, cur, row, i))
<1>1. PICK b : b = before.args
  OBVIOUS
<1>2. PICK s : s = before.text
  OBVIOUS
<1>3. IsSeq(b) /\ Shows(s, Len(a), Len(a) + Len(b)) /\ Len(a) \in Nat /\ Len(b) \in Nat
  BY <1>1, <1>2, IsSeqLen DEF Renders
<1>4. PICK e : e = a \o b
  OBVIOUS
<1>5. IsSeq(e) /\ Len(e) = Len(a) + Len(b)
  BY <1>3, <1>4, IsSeqConcat
<1>6. PICK next : next = Alternative(sorts, cur, i, Len(e))
  OBVIOUS
<1>7. PICK c : c = next.args
  OBVIOUS
<1>8. PICK t : t = next.text
  OBVIOUS
<1>9. /\ Neat(t) /\ t # <<>>
      /\ Worth(t, e \o c, row) \in Sure
      /\ Worth(t, e \o c, row) = "T" <=> Reaches(sorts, cur, row, i)
  <2>1. \A j \in 1 .. i : Comparable(ColumnAt(sorts, j), CursorAt(sorts, cur, j))
    BY DEF Seekable
  <2> QED BY <1>5, <1>6, <1>7, <1>8, <2>1, AlternativeSelects
<1>10. IsSeq(c)
  BY <1>5, <1>6, <1>7, AlternativeArgs
<1>11. PICK all : all = e \o c
  OBVIOUS
<1>12. all = a \o (b \o c)
  BY <1>3, <1>4, <1>10, <1>11, ConcatAssoc
<1>13. PICK closed : closed = Parens(t)
  OBVIOUS
<1>14. Neat(closed) /\ closed # <<>> /\ Worth(closed, all, row) = Worth(t, all, row)
  BY <1>9, <1>13, WorthParens DEF Neat
<1>15. PICK text : text = IF i = 1 THEN closed ELSE Link(s, Word("OR"), closed)
  OBVIOUS
<1>16. PICK bound : bound = b \o c
  OBVIOUS
<1>17. Another(sorts, cur, Len(a), before, i) = [text |-> text, args |-> bound]
  BY <1>1, <1>2, <1>5, <1>6, <1>7, <1>8, <1>13, <1>15, <1>16 DEF Another, Parens, Link
<1>18. /\ Balanced(text) /\ text # <<>>
       /\ Worth(text, all, row) \in Sure
       /\ Worth(text, all, row) = "T" <=> UpTo(sorts, cur, row, i)
  <2>1. CASE i = 1
    <3>1. Reaches(sorts, cur, row, i) <=> UpTo(sorts, cur, row, i)
      BY <2>1 DEF UpTo
    <3> QED BY <1>9, <1>11, <1>14, <1>15, <2>1, <3>1 DEF Neat
  <2>2. CASE i # 1
    <3>1. /\ Balanced(s) /\ s # <<>> /\ Worth(s, e, row) \in Sure
          /\ Worth(s, e, row) = "T" <=> UpTo(sorts, cur, row, i - 1)
      BY <1>1, <1>2, <1>4, <2>2 DEF Chooses
    <3>2. FindsIn(s, Len(e))
      BY <1>3, <1>5, ShowsWithin
    <3>3. Worth(s, all, row) = Worth(s, e, row)
      BY <1>5, <1>10, <1>11, <3>2, WorthStable
    <3>4. Balanced(closed) /\ Grouped(closed)
      BY <1>14 DEF Neat
    <3>5. PICK w : w = Link(s, Word("OR"), closed)
      OBVIOUS
    <3>6. Balanced(w) /\ w # <<>> /\ Worth(w, all, row) = Or2(Worth(s, all, row), Worth(closed, all, row))
      BY <1>14, <3>1, <3>4, <3>5, WorthOr
    <3>7. PICK u : u = Worth(s, all, row)
      OBVIOUS
    <3>8. PICK v : v = Worth(closed, all, row)
      OBVIOUS
    <3>9. u \in Sure /\ v \in Sure
      BY <1>9, <1>11, <1>14, <3>1, <3>3, <3>7, <3>8
    <3>10. Or2(u, v) \in Sure /\ (Or2(u, v) = "T" <=> u = "T" \/ v = "T")
      BY <3>9, Or2Selects
    <3>11. UpTo(sorts, cur, row, i) <=> UpTo(sorts, cur, row, i - 1) \/ Reaches(sorts, cur, row, i)
      <4>1. \A j : j \in 1 .. i <=> j \in 1 .. i - 1 \/ j = i
        OBVIOUS
      <4> QED BY <4>1 DEF UpTo
    <3>12. /\ u = "T" <=> UpTo(sorts, cur, row, i - 1)
           /\ v = "T" <=> Reaches(sorts, cur, row, i)
      BY <1>9, <1>11, <1>14, <3>1, <3>3, <3>7, <3>8
    <3>13. text = w
      BY <1>15, <2>2, <3>5
    <3> QED BY <3>6, <3>7, <3>8, <3>10, <3>11, <3>12, <3>13
  <2> QED BY <2>1, <2>2
<1>19. PICK r : r = [text |-> text, args |-> bound]
  OBVIOUS
<1>20. r.text = text /\ a \o r.args = all
  BY <1>12, <1>16, <1>19
<1>21. Chooses(r, a, row, UpTo(sorts, cur, row, i))
  BY <1>18, <1>20 DEF Chooses
<1> QED BY <1>17, <1>19, <1>21

LEMMA ChainSelects ==
  ASSUME NEW sorts, IsSeq(sorts), sorts # <<>>, NEW cur, NEW a, IsSeq(a), NEW row \in Row,
         Seekable(sorts, cur, Len(sorts))
  PROVE  Chooses(Chain(sorts, cur, Len(a)), a, row, UpTo(sorts, cur, row, Len(sorts)))
<1>1. PICK n \in Nat : n = Len(a)
  BY IsSeqLen
<1> DEFINE m == Len(sorts)
           chain[i \in 0 .. Len(sorts)] ==
             IF i = 0 THEN Nothing ELSE Another(sorts, cur, n, chain[i - 1], i)
<1>2. m \in Nat /\ m # 0
  BY IsSeqLen
<1>3. Chain(sorts, cur, n) = chain[m]
  BY DEF Chain
<1>4. chain = CHOOSE f : Chains(f, sorts, cur, n, m)
  BY DEF Chains
<1>5. Chains(chain, sorts, cur, n, m)
  BY <1>2, <1>4, ChainExists
<1> HIDE DEF chain
<1>6. \A i \in 0 .. m : chain[i] = IF i = 0 THEN Nothing ELSE Another(sorts, cur, n, chain[i - 1], i)
  BY <1>5 DEF Chains
<1> DEFINE Good(i) == /\ Renders(chain[i], n)
                      /\ i # 0 => Chooses(chain[i], a, row, UpTo(sorts, cur, row, i))
           Bad == {i \in 0 .. m : ~Good(i)}
<1>7. ASSUME NEW i \in 0 .. m, i # 0, Good(i - 1) PROVE Good(i)
  <2>1. i \in Nat /\ i - 1 \in 0 .. m
    BY <1>2, <1>7
  <2>2. PICK before : before = chain[i - 1]
    OBVIOUS
  <2>3. chain[i] = Another(sorts, cur, n, before, i)
    BY <1>6, <1>7, <2>2
  <2>4. i = 1 => before = Nothing
    BY <1>6, <2>1, <2>2
  <2>5. Renders(before, n) /\ (i # 1 => Chooses(before, a, row, UpTo(sorts, cur, row, i - 1)))
    BY <1>7, <2>1, <2>2
  <2>6. Seekable(sorts, cur, i)
    <3>1. \A j \in 1 .. i : j \in 1 .. Len(sorts)
      BY <1>2, <1>7
    <3> QED BY <3>1 DEF Seekable
  <2>7. Renders(before, Len(a))
    BY <1>1, <2>5
  <2>8. Chooses(Another(sorts, cur, Len(a), before, i), a, row, UpTo(sorts, cur, row, i))
    BY <1>7, <2>1, <2>4, <2>5, <2>6, <2>7, AnotherSelects
  <2>9. Renders(Another(sorts, cur, n, before, i), n)
    BY <1>7, <2>1, <2>4, <2>5, AnotherRenders
  <2> QED BY <1>1, <2>3, <2>8, <2>9
<1>8. Good(0)
  BY <1>2, <1>6, NothingRenders
<1> HIDE DEF Good, m
<1>9. Bad = {}
  <2> SUFFICES ASSUME Bad # {} PROVE FALSE
    OBVIOUS
  <2>1. Bad \subseteq Nat
    BY <1>2
  <2>2. PICK i \in Bad : \A l \in Bad : i <= l
    BY <2>1, Least
  <2>3. i # 0 /\ i \in 0 .. m /\ ~Good(i)
    BY <1>8, <2>2
  <2>4. i - 1 \in 0 .. m /\ i - 1 \notin Bad
    BY <1>2, <2>1, <2>2, <2>3
  <2>5. Good(i - 1)
    BY <2>4
  <2> QED BY <1>7, <2>3, <2>5
<1>10. Good(m)
  BY <1>2, <1>9
<1> QED BY <1>1, <1>2, <1>3, <1>10 DEF Good, m

\* A cursor that is not refused has a value for every sort.
LEMMA NoSortFault ==
  ASSUME NEW sorts, IsSeq(sorts), NEW cur, DOMAIN cur # {}, Order!FirstSortFault(sorts, cur) = "ok",
         NEW i \in 1 .. Len(sorts)
  PROVE  sorts[i].key \in DOMAIN SortField /\ sorts[i].key \in DOMAIN cur
<1>1. DOMAIN sorts = 1 .. Len(sorts) /\ Len(sorts) \in Nat
  BY IsSeqLen
<1>2. PICK faulty : faulty = {k \in DOMAIN sorts : Order!SortFault(sorts[k], cur) # "ok"}
  OBVIOUS
<1>3. faulty = {}
  <2> SUFFICES ASSUME faulty # {} PROVE FALSE
    OBVIOUS
  <2>1. faulty \subseteq Nat
    BY <1>1, <1>2
  <2>2. \E k \in faulty : \A l \in faulty : k <= l
    BY <2>1, Least
  <2>3. PICK first : first = CHOOSE k \in faulty : \A l \in faulty : k <= l
    OBVIOUS
  <2>4. first \in faulty
    BY <2>2, <2>3
  <2>5. Order!FirstSortFault(sorts, cur) = Order!SortFault(sorts[first], cur)
    BY <1>2, <2>3 DEF Order!FirstSortFault
  <2> QED BY <1>2, <2>4, <2>5
<1>4. Order!SortFault(sorts[i], cur) = "ok"
  BY <1>1, <1>2, <1>3
<1>5. CASE sorts[i].key \notin DOMAIN SortField
  <2>1. Order!SortFault(sorts[i], cur) # "ok"
    BY <1>5 DEF Order!SortFault, SortCell
  <2> QED BY <1>4, <2>1
<1>6. CASE sorts[i].key \in DOMAIN SortField /\ ~SortField[sorts[i].key].sortable
  <2>1. Order!SortFault(sorts[i], cur) # "ok"
    BY <1>6 DEF Order!SortFault, SortCell
  <2> QED BY <1>4, <2>1
<1>7. CASE sorts[i].key \in DOMAIN SortField /\ SortField[sorts[i].key].sortable
  <2>1. sorts[i].key \notin DOMAIN cur => Order!SortFault(sorts[i], cur) # "ok"
    BY <1>7 DEF Order!SortFault, SortCell
  <2> QED BY <1>4, <1>7, <2>1
<1> QED BY <1>5, <1>6, <1>7

\* A cursor as the order reads it, and a row.
Bare(cur) == [k \in DOMAIN cur |-> cur[k][2]]
Cells(row) == [c \in DOMAIN row |-> row[c][2]]

LEMMA ReachesIsOrder ==
  ASSUME NEW sorts, IsSeq(sorts), sorts # <<>>, NEW cur, DOMAIN cur # {},
         Order!FirstSortFault(sorts, cur) = "ok", NEW row \in Row,
         \A i \in DOMAIN sorts : Comparable(SelectExpr(sorts[i].key), cur[sorts[i].key])
  PROVE  Order!Seek(sorts, Bare(cur), Cells(row)) <=> UpTo(sorts, cur, row, Len(sorts))
<1>1. DOMAIN sorts = 1 .. Len(sorts) /\ Len(sorts) \in Nat
  BY IsSeqLen
<1>2. PICK x : x = [j \in 1 .. Len(sorts) |-> row[ColumnAt(sorts, j)][2]]
  OBVIOUS
<1>3. PICK c : c = [j \in 1 .. Len(sorts) |-> CursorAt(sorts, cur, j)[2]]
  OBVIOUS
<1>4. ASSUME NEW j \in 1 .. Len(sorts)
      PROVE  /\ Order!SelectExpr(sorts[j].key, Cells(row)) = x[j]
             /\ Bare(cur)[sorts[j].key] = c[j]
  <2>1. ColumnAt(sorts, j) \in DOMAIN row
    BY <1>1 DEF Comparable, ColumnAt
  <2>2. Cells(row)[ColumnAt(sorts, j)] = x[j]
    BY <1>2, <2>1 DEF Cells
  <2>3. /\ SortCell[sorts[j].key].column = ColumnAt(sorts, j)
        /\ DOMAIN SortCell[sorts[j].key].expr = {}
    BY NoSortFault DEF SortCell, ColumnAt
  <2>4. Order!SelectExpr(sorts[j].key, Cells(row)) = x[j]
    BY <2>1, <2>2, <2>3 DEF Order!SelectExpr
  <2>5. Bare(cur)[sorts[j].key] = c[j]
    BY <1>3, NoSortFault DEF Bare, CursorAt
  <2> QED BY <2>4, <2>5
<1>5. ASSUME NEW i \in 1 .. Len(sorts)
      PROVE  Reaches(sorts, cur, row, i) <=>
               /\ \A j \in 1 .. i - 1 : Order!Level(x[j], c[j])
               /\ Order!Past(sorts[i], x[i], c[i])
  <2>1. ASSUME NEW j \in 1 .. i - 1
        PROVE  Kept(sorts, cur, row, i, j) <=> Order!Level(x[j], c[j])
    <3>1. j \in 1 .. Len(sorts) /\ SymAt(sorts, i, j) = "="
      BY <1>1 DEF SymAt
    <3>2. CompareTo("=", x[j], c[j]) <=> x[j] = c[j]
      BY DEF CompareTo
    <3> QED BY <1>2, <1>3, <3>1, <3>2 DEF Kept, Order!Level
  <2>2. Kept(sorts, cur, row, i, i) <=> Order!Past(sorts[i], x[i], c[i])
    <3>1. SymAt(sorts, i, i) = IF sorts[i].desc THEN "<" ELSE ">"
      BY <1>1 DEF SymAt
    <3>2. CompareTo("<", x[i], c[i]) <=> x[i] < c[i]
      BY DEF CompareTo
    <3>3. CompareTo(">", x[i], c[i]) <=> x[i] > c[i]
      BY DEF CompareTo
    <3>4. Kept(sorts, cur, row, i, i) <=> x[i] # Null /\ c[i] # Null /\ CompareTo(SymAt(sorts, i, i), x[i], c[i])
      BY <1>2, <1>3 DEF Kept
    <3>5. Order!Past(sorts[i], x[i], c[i]) <=>
            x[i] # Null /\ c[i] # Null /\ IF sorts[i].desc THEN x[i] < c[i] ELSE x[i] > c[i]
      BY DEF Order!Past
    <3>6. CASE sorts[i].desc
      BY <3>1, <3>2, <3>4, <3>5, <3>6
    <3>7. CASE ~sorts[i].desc
      BY <3>1, <3>3, <3>4, <3>5, <3>7
    <3> QED BY <3>6, <3>7
  <2>3. \A j : j \in 1 .. i <=> j \in 1 .. i - 1 \/ j = i
    BY <1>1
  <2> QED BY <2>1, <2>2, <2>3 DEF Reaches
<1>6. DOMAIN Bare(cur) # {}
  BY DEF Bare
<1>7. Order!Seek(sorts, Bare(cur), Cells(row)) <=>
        \E i \in 1 .. Len(sorts) :
          /\ \A j \in 1 .. i - 1 : Order!Level(x[j], c[j])
          /\ Order!Past(sorts[i], x[i], c[i])
  <2>1. \A i \in 1 .. Len(sorts) : \A j \in 1 .. i - 1 : j \in 1 .. Len(sorts)
    BY <1>1
  <2>2. Order!Seek(sorts, Bare(cur), Cells(row)) <=>
          \E i \in 1 .. Len(sorts) :
            /\ \A j \in 1 .. i - 1 :
                 Order!Level(Order!SelectExpr(sorts[j].key, Cells(row)), Bare(cur)[sorts[j].key])
            /\ Order!Past(sorts[i], Order!SelectExpr(sorts[i].key, Cells(row)), Bare(cur)[sorts[i].key])
    BY <1>1, <1>6 DEF Order!Seek
  <2> QED BY <1>4, <2>1, <2>2
<1> QED BY <1>5, <1>7 DEF UpTo

LEMMA SureSelects == ASSUME NEW v \in Sure PROVE Selects(v) <=> v = "T"
BY DEF Sure, Selects

\* The text of a seek selects the rows that the order puts past the cursor.
LEMMA SeekSelects ==
  ASSUME NEW s \in Seeks, SeekDecided(s), s.sorts # <<>>, DOMAIN s.cur # {},
         Order!FirstSortFault(s.sorts, s.cur) = "ok",
         NEW a, IsSeq(a), NEW row \in Row, NEW r, r = Seek(s.sorts, s.cur, Len(a))
  PROVE  /\ Neat(r.text) /\ r.text # <<>>
         /\ Selects(Worth(r.text, a \o r.args, row)) <=>
              Order!Seek(s.sorts, Bare(s.cur), Cells(row))
<1>1. IsSeq(s.sorts)
  BY SeekAssumption, IsSeqIntro
<1>2. \A i \in DOMAIN s.sorts : Comparable(SelectExpr(s.sorts[i].key), s.cur[s.sorts[i].key])
  BY DEF SeekDecided
<1>3. Seekable(s.sorts, s.cur, Len(s.sorts))
  BY <1>1, <1>2, IsSeqLen DEF Seekable, ColumnAt, CursorAt
<1>4. PICK chain : chain = Chain(s.sorts, s.cur, Len(a))
  OBVIOUS
<1>5. Chooses(chain, a, row, UpTo(s.sorts, s.cur, row, Len(s.sorts)))
  BY <1>1, <1>3, <1>4, ChainSelects
<1>6. r.text = Parens(chain.text) /\ r.args = chain.args
  BY <1>4 DEF Seek, Parens
<1>7. PICK all : all = a \o chain.args
  OBVIOUS
<1>8. /\ Balanced(chain.text) /\ chain.text # <<>>
      /\ Worth(chain.text, all, row) \in Sure
      /\ Worth(chain.text, all, row) = "T" <=> UpTo(s.sorts, s.cur, row, Len(s.sorts))
  BY <1>5, <1>7 DEF Chooses
<1>9. /\ Neat(Parens(chain.text)) /\ Parens(chain.text) # <<>>
      /\ Worth(Parens(chain.text), all, row) = Worth(chain.text, all, row)
  BY <1>8, WorthParens
<1>10. Order!Seek(s.sorts, Bare(s.cur), Cells(row)) <=> UpTo(s.sorts, s.cur, row, Len(s.sorts))
  BY <1>1, <1>2, ReachesIsOrder
<1> QED BY <1>6, <1>7, <1>8, <1>9, <1>10, SureSelects

(***************************************************************************)
(* A rendering only adds arguments.                                        *)
(***************************************************************************)
Extends(b) == IsSeq(b) /\ args' = args \o b

LEMMA SameExtends == ASSUME IsSeq(args), args' = args PROVE \E b : Extends(b)
<1>1. IsSeq(<<>>) /\ args \o <<>> = args
  BY EmptySeq, IsSeqIntro DEF IsSeq
<1> QED BY <1>1 DEF Extends

LEMMA NextExtends == ASSUME NEW base, Rendering(base), result = "running", Next PROVE \E b : Extends(b)
<1>1. IsSeq(args) /\ Len(args) \in Nat /\ CallOK(Inner) /\ IsSeq(<<>>)
  BY Innermost, EmptySeq, IsSeqIntro
<1>2. ASSUME NEW error, NEW bound, IsSeq(bound), Fail(error, bound) PROVE \E b : Extends(b)
  BY <1>2 DEF Fail, Extends
<1>3. CASE RenderLeaf
  <2> DEFINE r == Resolve(dialect, Field, Column(Node.key), Hooked, Len(args))
  <2>1. /\ Inner.rest # <<>> /\ Allows(Field, Node.op)
        /\ \/ ~r.ok /\ Fail("ErrBadValue", r.args)
           \/ r.ok /\ args' = args \o r.args
    BY <1>3 DEF RenderLeaf, Admitted, AtLeaf, Visiting
  <2>2. Node \in Condition /\ IsSeq(Node.values) /\ Node.pairs \in Seq(KeyValue)
    BY <1>1, <2>1, OnwardOK
  <2>3. IsSeq(Hooked.values) /\ Hooked.pairs \in Seq(KeyValue) /\ Allows(Field, Hooked.op)
    BY <2>1, <2>2, HookedOK
  <2>4. ~r.ok => IsSeq(r.args)
    BY <2>3, FailureBinds
  <2>5. r.ok => Renders(r, Len(args))
    BY <1>1, <2>3, ResolveRenders DEF Rendering
  <2> HIDE DEF r
  <2>6. IsSeq(r.args)
    BY <2>4, <2>5 DEF Renders
  <2> QED BY <1>2, <2>1, <2>6 DEF Extends
<1>4. CASE SearchColumn
  <2> DEFINE c == Inner.node
             r == Resolve(dialect, Registry[c.key], Head(Inner.cols), c, Len(args))
  <2>1. /\ Inner.cols # <<>>
        /\ \/ ~r.ok /\ Fail("ErrBadValue", r.args)
           \/ r.ok /\ args' = args \o r.args
    BY <1>4 DEF SearchColumn
  <2>2. IsSeq(c.values) /\ Allows(Registry[c.key], c.op) /\ c.pairs \in Seq(KeyValue)
    BY <1>1, <2>1 DEF CallOK
  <2>3. ~r.ok => IsSeq(r.args)
    BY <2>2, FailureBinds
  <2>4. r.ok => Renders(r, Len(args))
    BY <1>1, <2>2, ResolveRenders DEF Rendering
  <2> HIDE DEF r, c
  <2>5. IsSeq(r.args)
    BY <2>3, <2>4 DEF Renders
  <2> QED BY <1>2, <2>1, <2>5 DEF Extends
<1>5. CASE Malformed \/ UnknownField \/ BadOperator \/ HooksFail
  BY <1>1, <1>2, <1>5 DEF Malformed, UnknownField, BadOperator, HooksFail
<1>6. CASE Skip \/ Descend \/ OpenSearch \/ Close \/ Return
  <2>1. args' = args
    BY <1>6 DEF Skip, Descend, OpenSearch, Close, Return
  <2> QED BY <1>1, <2>1, SameExtends
<1> QED BY <1>3, <1>4, <1>5, <1>6 DEF Next

(***************************************************************************)
(* Placeholders have positions.                                            *)
(***************************************************************************)
Slotted(text) == IsSeq(text) /\ \A i \in DOMAIN text : DOMAIN text[i].slots \subseteq Int

LEMMA SlottedConcat ==
  ASSUME NEW s, NEW t, Slotted(s), Slotted(t)
  PROVE  Slotted(s \o t)
<1>1. IsSeq(s) /\ IsSeq(t) /\ Len(s) \in Nat /\ Len(t) \in Nat /\ DOMAIN s = 1 .. Len(s) /\ DOMAIN t = 1 .. Len(t)
  BY IsSeqLen DEF Slotted
<1>2. PICK w : w = s \o t
  OBVIOUS
<1>3. /\ IsSeq(w) /\ Len(w) = Len(s) + Len(t)
      /\ \A i \in 1 .. Len(s) : w[i] = s[i]
      /\ \A i \in 1 .. Len(t) : w[Len(s) + i] = t[i]
  BY <1>1, <1>2, IsSeqConcat
<1>4. DOMAIN w = 1 .. Len(w)
  BY <1>3, IsSeqLen
<1>5. ASSUME NEW i \in 1 .. Len(w) PROVE DOMAIN w[i].slots \subseteq Int
  <2>1. CASE i <= Len(s)
    BY <1>1, <1>3, <1>5, <2>1 DEF Slotted
  <2>2. CASE i > Len(s)
    <3>1. PICK k \in 1 .. Len(t) : i = Len(s) + k
      <4>1. i - Len(s) \in 1 .. Len(t) /\ i = Len(s) + (i - Len(s))
        BY <1>1, <1>3, <1>5, <2>2
      <4> QED BY <4>1
    <3> QED BY <1>1, <1>3, <3>1 DEF Slotted
  <2> QED BY <1>1, <1>3, <1>5, <2>1, <2>2
<1> QED BY <1>2, <1>3, <1>4, <1>5 DEF Slotted

LEMMA SlottedOne == ASSUME NEW x, DOMAIN x.slots \subseteq Int PROVE Slotted(<<x>>)
<1>1. PICK s : s = <<x>>
  OBVIOUS
<1>2. IsSeq(s) /\ DOMAIN s = 1 .. 1 /\ s[1] = x
  BY <1>1, IsSeqOne
<1> QED BY <1>1, <1>2 DEF Slotted

LEMMA SlottedWord == ASSUME NEW w PROVE Slotted(<<Word(w)>>)
BY WordSlots, SlottedOne

LEMMA SlottedNothing == Slotted(<<>>)
<1>1. PICK s : s = <<>>
  OBVIOUS
<1>2. IsSeq(s) /\ Len(s) = 0
  BY <1>1, EmptySeq, IsSeqIntro
<1>3. DOMAIN s = {}
  BY <1>2, IsSeqLen
<1> QED BY <1>1, <1>2, <1>3 DEF Slotted

LEMMA SlottedGlue == ASSUME NEW s, NEW t, Slotted(s), Slotted(t) PROVE Slotted(Glue(s, t))
<1>1. Slotted(s \o <<Word("AND")>>)
  BY SlottedWord, SlottedConcat
<1>2. Slotted(s \o <<Word("AND")>> \o t)
  BY <1>1, SlottedConcat
<1> QED BY <1>2 DEF Glue

LEMMA SlottedParens == ASSUME NEW t, Slotted(t) PROVE Slotted(<<Word("(")>> \o t \o <<Word(")")>>)
<1>1. Slotted(<<Word("(")>>) /\ Slotted(<<Word(")")>>)
  BY SlottedWord
<1>2. Slotted(<<Word("(")>> \o t)
  BY <1>1, SlottedConcat
<1> QED BY <1>1, <1>2, SlottedConcat

LEMMA PredicateSlots ==
  ASSUME NEW sym, NEW col, NEW n, NEW k \in Nat PROVE DOMAIN Predicate(sym, col, n, k).slots \subseteq Int
BY DEF Predicate

LEMMA SlottedAlternative ==
  ASSUME NEW sorts, NEW cur, NEW i \in Nat, i # 0, NEW n
  PROVE  Slotted(Alternative(sorts, cur, i, n).text)
<1> DEFINE sym(j) == IF j < i THEN "=" ELSE IF sorts[i].desc THEN "<" ELSE ">"
           x(k) == IF k % 2 = 0 THEN Word("AND")
                   ELSE LET j == (k + 1) \div 2 IN
                        Predicate(sym(j), SelectExpr(sorts[j].key), n + j - 1, 1)
<1>1. PICK text : text = [k \in 1 .. 2 * i - 1 |-> x(k)]
  OBVIOUS
<1>2. Alternative(sorts, cur, i, n).text = text
  BY <1>1 DEF Alternative
<1>3. \A k : DOMAIN x(k).slots \subseteq Int
  BY WordSlots, PredicateSlots
<1> HIDE DEF x
<1>4. 2 * i - 1 \in Nat /\ text = [k \in 1 .. 2 * i - 1 |-> text[k]]
  BY <1>1
<1>5. IsSeq(text) /\ DOMAIN text = 1 .. 2 * i - 1
  BY <1>4, IsSeqFunction
<1> QED BY <1>1, <1>2, <1>3, <1>5 DEF Slotted

LEMMA SlottedChain ==
  ASSUME NEW sorts, IsSeq(sorts), NEW cur, NEW n
  PROVE  Slotted(Chain(sorts, cur, n).text)
<1> DEFINE m == Len(sorts)
           chain[i \in 0 .. Len(sorts)] ==
             IF i = 0 THEN Nothing ELSE Another(sorts, cur, n, chain[i - 1], i)
<1>1. m \in Nat
  BY IsSeqLen
<1>2. Chain(sorts, cur, n) = chain[m]
  BY DEF Chain
<1>3. chain = CHOOSE f : Chains(f, sorts, cur, n, m)
  BY DEF Chains
<1>4. Chains(chain, sorts, cur, n, m)
  BY <1>1, <1>3, ChainExists
<1> HIDE DEF chain, m
<1>5. \A i \in 0 .. m : chain[i] = IF i = 0 THEN Nothing ELSE Another(sorts, cur, n, chain[i - 1], i)
  BY <1>4 DEF Chains
<1> DEFINE Bad == {i \in 0 .. m : ~Slotted(chain[i].text)}
<1>6. ASSUME NEW i \in 0 .. m, i # 0, Slotted(chain[i - 1].text) PROVE Slotted(chain[i].text)
  <2>1. PICK before : before = chain[i - 1]
    OBVIOUS
  <2>2. PICK t : t = Alternative(sorts, cur, i, n + Len(before.args)).text
    OBVIOUS
  <2>3. Slotted(t)
    BY <1>1, <1>6, <2>2, SlottedAlternative
  <2>4. PICK closed : closed = <<Word("(")>> \o t \o <<Word(")")>>
    OBVIOUS
  <2>5. Slotted(closed)
    BY <2>3, <2>4, SlottedParens
  <2>6. chain[i] = Another(sorts, cur, n, before, i)
    BY <1>5, <1>6, <2>1
  <2>7. chain[i].text = IF i = 1 THEN closed ELSE before.text \o <<Word("OR")>> \o closed
    BY <2>2, <2>4, <2>6 DEF Another
  <2>8. Slotted(before.text \o <<Word("OR")>>)
    BY <1>6, <2>1, SlottedWord, SlottedConcat
  <2>9. Slotted(before.text \o <<Word("OR")>> \o closed)
    BY <2>5, <2>8, SlottedConcat
  <2> QED BY <2>5, <2>7, <2>9
<1>7. Slotted(chain[0].text)
  BY <1>1, <1>5, SlottedNothing DEF Nothing
<1>8. Bad = {}
  <2> SUFFICES ASSUME Bad # {} PROVE FALSE
    OBVIOUS
  <2>1. Bad \subseteq Nat
    BY <1>1
  <2>2. PICK i \in Bad : \A l \in Bad : i <= l
    BY <2>1, Least
  <2>3. i # 0 /\ i \in 0 .. m /\ ~Slotted(chain[i].text)
    BY <1>7, <2>2
  <2>4. i - 1 \in 0 .. m /\ i - 1 \notin Bad
    BY <1>1, <2>1, <2>2, <2>3
  <2> QED BY <1>6, <2>3, <2>4
<1> QED BY <1>1, <1>2, <1>8

LEMMA SlottedSeek ==
  ASSUME NEW sorts, IsSeq(sorts), NEW cur, NEW n
  PROVE  Slotted(Seek(sorts, cur, n).text)
<1>1. Slotted(Chain(sorts, cur, n).text)
  BY SlottedChain
<1> QED BY <1>1, SlottedParens DEF Seek

\* The tokens of the compiler.
LEMMA SlottedTokens == ASSUME NEW d, NEW text \in Seq(Token(d)) PROVE Slotted(text)
<1>1. DOMAIN text = 1 .. Len(text) /\ Len(text) \in Nat /\ \A i \in 1 .. Len(text) : text[i] \in Token(d)
  BY LenProperties
<1>2. \A x \in Token(d) : DOMAIN x.slots \subseteq Int
  <2> TAKE x \in Token(d)
  <2>1. x.slots \in Seq(Nat)
    BY DEF Token
  <2>2. DOMAIN x.slots = 1 .. Len(x.slots) /\ Len(x.slots) \in Nat
    BY <2>1, LenProperties
  <2> QED BY <2>2
<1> QED BY <1>1, <1>2, IsSeqIntro DEF Slotted

(***************************************************************************)
(* The parts of a text.                                                    *)
(***************************************************************************)
AllSelect(parts, row) == \A i \in DOMAIN parts : Selects(PartSays(parts[i], row))

\* The text, with a bound, selects the rows that all parts select.
Covers(text, a, parts) ==
  /\ FindsIn(text, Len(a))
  /\ \A row \in Row : Neat(text) /\ (Selects(Worth(text, a, row)) <=> AllSelect(parts, row))

LEMMA CoversNothing == ASSUME NEW a PROVE Covers(<<>>, a, <<>>)
<1>1. PICK s : s = <<>>
  OBVIOUS
<1>2. IsSeq(s) /\ Len(s) = 0
  BY <1>1, EmptySeq, IsSeqIntro
<1>3. DOMAIN s = {}
  BY <1>2, IsSeqLen
<1>4. \A row : AllSelect(s, row) /\ Selects(Worth(s, a, row))
  BY <1>1, <1>3 DEF AllSelect, Selects, Worth
<1>5. Neat(s) /\ FindsIn(s, Len(a))
  BY <1>1, NothingNeat, WithinNothing
<1> QED BY <1>1, <1>4, <1>5 DEF Covers

LEMMA CoversLater ==
  ASSUME NEW text, NEW a, NEW b, IsSeq(a), IsSeq(b), NEW parts, Covers(text, a, parts)
  PROVE  Covers(text, a \o b, parts)
<1>1. FindsIn(text, Len(a)) /\ Len(a) \in Nat /\ Len(b) \in Nat
  BY IsSeqLen DEF Covers
<1>2. Len(a \o b) = Len(a) + Len(b)
  BY IsSeqConcat
<1>3. PICK n \in Nat : n = Len(a)
  BY <1>1
<1>4. PICK m \in Nat : m = Len(a \o b) /\ n <= m
  BY <1>1, <1>2, <1>3
<1>5. FindsIn(text, n)
  BY <1>1, <1>3
<1>6. FindsIn(text, m)
  BY <1>4, <1>5, WithinLater
<1>7. \A row : Worth(text, a \o b, row) = Worth(text, a, row)
  BY <1>1, WorthStable
<1> QED BY <1>1, <1>4, <1>6, <1>7 DEF Covers

LEMMA NoneSelects == Selects("none")
BY DEF Selects

LEMMA WithinGlue ==
  ASSUME NEW s, NEW t, IsSeq(s), IsSeq(t), NEW n, FindsIn(s, n), FindsIn(t, n)
  PROVE  FindsIn(Glue(s, t), n)
<1>1. FindsIn(<<Word("AND")>>, n) /\ IsSeq(<<Word("AND")>>)
  BY WithinWord
<1>2. FindsIn(s \o <<Word("AND")>>, n) /\ IsSeq(s \o <<Word("AND")>>)
  BY <1>1, WithinConcat, IsSeqConcat
<1>3. FindsIn(s \o <<Word("AND")>> \o t, n)
  BY <1>2, WithinConcat
<1> QED BY <1>3 DEF Glue

\* Texts joined by the client's AND.
LEMMA GlueSelects ==
  ASSUME NEW s, NEW t, Neat(s), Neat(t), NEW a
  PROVE  /\ Neat(Glue(s, t))
         /\ \A row : Selects(Worth(Glue(s, t), a, row)) <=> Selects(Worth(s, a, row)) /\ Selects(Worth(t, a, row))
<1>1. IsSeq(s) /\ IsSeq(t)
  BY DEF Neat, Balanced
<1>2. CASE s = <<>>
  <2>1. Glue(s, t) = t
    BY <1>2 DEF Glue
  <2>2. \A row : Worth(s, a, row) = "none"
    BY <1>2 DEF Worth
  <2> QED BY <2>1, <2>2, NoneSelects
<1>3. CASE s # <<>> /\ t = <<>>
  <2>1. Glue(s, t) = s
    BY <1>3 DEF Glue
  <2>2. \A row : Worth(t, a, row) = "none"
    BY <1>3 DEF Worth
  <2> QED BY <2>1, <2>2, NoneSelects
<1>4. CASE s # <<>> /\ t # <<>>
  <2>1. PICK w : w = Link(s, Word("AND"), t)
    OBVIOUS
  <2>2. Glue(s, t) = w
    BY <1>4, <2>1 DEF Glue, Link
  <2>3. Neat(w) /\ w # <<>> /\ \A row : Worth(w, a, row) = And2(Worth(s, a, row), Worth(t, a, row))
    BY <1>4, <2>1, WorthAnd
  <2>4. ASSUME NEW row
        PROVE  Selects(Worth(w, a, row)) <=> Selects(Worth(s, a, row)) /\ Selects(Worth(t, a, row))
    <3>1. PICK u : u = Worth(s, a, row)
      OBVIOUS
    <3>2. PICK v : v = Worth(t, a, row)
      OBVIOUS
    <3>3. u \in Truth /\ v \in Truth
      BY <1>1, <1>4, <3>1, <3>2, WorthTruth
    <3>4. Selects(And2(u, v)) <=> Selects(u) /\ Selects(v)
      BY <3>3, And2Selects
    <3> QED BY <2>3, <3>1, <3>2, <3>4
  <2> QED BY <2>2, <2>3, <2>4
<1> QED BY <1>2, <1>3, <1>4

LEMMA AllSelectMore ==
  ASSUME NEW parts, IsSeq(parts), NEW part, NEW row
  PROVE  AllSelect(Append(parts, part), row) <=> AllSelect(parts, row) /\ Selects(PartSays(part, row))
<1>1. PICK more : more = Append(parts, part)
  OBVIOUS
<1>2. PICK n \in Nat : n = Len(parts)
  BY IsSeqLen
<1>3. /\ DOMAIN parts = 1 .. n /\ DOMAIN more = 1 .. n + 1
      /\ \A i \in 1 .. n : more[i] = parts[i]
      /\ more[n + 1] = part
  <2>1. /\ IsSeq(more) /\ Len(more) = Len(parts) + 1
        /\ \A i \in 1 .. Len(parts) : more[i] = parts[i]
        /\ more[Len(parts) + 1] = part
    BY <1>1, IsSeqAppend
  <2> QED BY <1>2, <2>1, IsSeqLen
<1>4. \A i : i \in 1 .. n + 1 <=> i \in 1 .. n \/ i = n + 1
  OBVIOUS
<1> QED BY <1>1, <1>3, <1>4 DEF AllSelect

LEMMA GlueCovers ==
  ASSUME NEW s, NEW a, NEW parts, IsSeq(parts), Covers(s, a, parts),
         NEW t, IsSeq(s), IsSeq(t), FindsIn(t, Len(a)), NEW part,
         \A row \in Row : Neat(t) /\ (Selects(Worth(t, a, row)) <=> Selects(PartSays(part, row)))
  PROVE  Covers(Glue(s, t), a, Append(parts, part))
<1>1. PICK n : n = Len(a)
  OBVIOUS
<1>2. FindsIn(s, n) /\ FindsIn(t, n)
  BY <1>1 DEF Covers
<1>3. FindsIn(Glue(s, t), n)
  BY <1>2, WithinGlue
<1>4. ASSUME NEW row \in Row
      PROVE  /\ Neat(Glue(s, t))
             /\ Selects(Worth(Glue(s, t), a, row)) <=> AllSelect(Append(parts, part), row)
  <2>1. Neat(s) /\ (Selects(Worth(s, a, row)) <=> AllSelect(parts, row))
    BY DEF Covers
  <2>2. Neat(t)
    OBVIOUS
  <2>3. /\ Neat(Glue(s, t))
        /\ Selects(Worth(Glue(s, t), a, row)) <=> Selects(Worth(s, a, row)) /\ Selects(Worth(t, a, row))
    BY <2>1, <2>2, GlueSelects
  <2>4. AllSelect(Append(parts, part), row) <=> AllSelect(parts, row) /\ Selects(PartSays(part, row))
    BY AllSelectMore
  <2> QED BY <2>1, <2>3, <2>4
<1> QED BY <1>1, <1>3, <1>4 DEF Covers

(***************************************************************************)
(* What each part was asked for.                                           *)
(***************************************************************************)
\* A value of the client's own.
LEMMA ArgCovers ==
  ASSUME NEW a, IsSeq(a), NEW v \in Literal, Comparable(v.col, v.value),
         NEW t, t = One("=", v.col, Len(a), <<v.value>>).text,
         NEW part, part = [kind |-> "arg", arg |-> v]
  PROVE  /\ Slotted(t)
         /\ \A row \in Row :
              Neat(t) /\ (Selects(Worth(t, Append(a, v.value), row)) <=> Selects(PartSays(part, row)))
<1>1. PICK n : n = Len(a)
  OBVIOUS
<1>2. PICK x : x = Predicate("=", v.col, n, 1)
  OBVIOUS
<1>3. t = <<x>>
  BY <1>1, <1>2, IsSeqOne DEF One
<1>4. Slotted(t)
  <2>1. DOMAIN x.slots \subseteq Int
    BY <1>2, PredicateSlots
  <2> QED BY <1>3, <2>1, SlottedOne
<1>5. PICK b : b = Append(a, v.value)
  OBVIOUS
<1>6. b[n + 1] = v.value
  BY <1>1, <1>5, IsSeqAppend
<1>7. PICK value : value = v.value
  OBVIOUS
<1>8. PICK col : col = v.col
  OBVIOUS
<1>9. PICK sym : sym = "="
  OBVIOUS
<1>10. sym \in Compared /\ Comparable(col, value) /\ b[n + 1] = value /\ x = Predicate(sym, col, n, 1)
  BY <1>2, <1>6, <1>7, <1>8, <1>9 DEF Compared
<1>11. ASSUME NEW row \in Row
       PROVE  Neat(<<x>>) /\ (Selects(Worth(<<x>>, b, row)) <=> Selects(PartSays(part, row)))
  <2>1. /\ Neat(<<x>>) /\ <<x>> # <<>>
        /\ Worth(<<x>>, b, row) \in Sure
        /\ Worth(<<x>>, b, row) = "T" <=>
             row[col][2] # Null /\ value[2] # Null /\ CompareTo(sym, row[col][2], value[2])
    BY <1>10, PredicateSelects
  <2>2. value[2] # Null
    BY <1>10 DEF Comparable
  <2>3. CompareTo(sym, row[col][2], value[2]) <=> row[col][2] = value[2]
    BY <1>9 DEF CompareTo
  <2>4. PartSays(part, row) = Holds(row[col][2] = value[2])
    BY <1>7, <1>8 DEF PartSays
  <2>5. Selects(PartSays(part, row)) <=> row[col][2] = value[2]
    BY <2>4 DEF Holds, Selects
  <2> QED BY <2>1, <2>2, <2>3, <2>5, SureSelects
<1> QED BY <1>3, <1>4, <1>5, <1>11

\* A cursor.
LEMMA SeekCovers ==
  ASSUME NEW a, IsSeq(a), NEW s \in Seeks, SeekDecided(s), s.sorts # <<>>, DOMAIN s.cur # {},
         Order!FirstSortFault(s.sorts, s.cur) = "ok",
         NEW r, r = Seek(s.sorts, s.cur, Len(a)),
         NEW part, part = [kind |-> "seek", seek |-> s]
  PROVE  /\ Slotted(r.text)
         /\ \A row \in Row :
              Neat(r.text) /\ (Selects(Worth(r.text, a \o r.args, row)) <=> Selects(PartSays(part, row)))
<1>1. Slotted(r.text)
  BY SeekAssumption, IsSeqIntro, SlottedSeek
<1>2. ASSUME NEW row \in Row
      PROVE  Neat(r.text) /\ (Selects(Worth(r.text, a \o r.args, row)) <=> Selects(PartSays(part, row)))
  <2>1. /\ Neat(r.text) /\ r.text # <<>>
        /\ Selects(Worth(r.text, a \o r.args, row)) <=> Order!Seek(s.sorts, Bare(s.cur), Cells(row))
    BY SeekSelects
  <2>2. PartSays(part, row) = Holds(Order!Seek(s.sorts, Bare(s.cur), Cells(row)))
    BY DEF PartSays, Bare, Cells
  <2>3. Selects(PartSays(part, row)) <=> Order!Seek(s.sorts, Bare(s.cur), Cells(row))
    BY <2>2 DEF Holds, Selects
  <2> QED BY <2>1, <2>3
<1> QED BY <1>1, <1>2

(***************************************************************************)
(* The statement so far selects what it was asked to.  While a fragment is *)
(* rendered the compiler's invariants hold of it.                          *)
(***************************************************************************)
UnderWay == Formed /\ (\E base : Rendering(base)) /\ Reading(Condition) /\ Telling

Meant ==
  /\ dialect \in Target
  /\ IsSeq(args) /\ IsSeq(asked)
  /\ call \in InWhere \cup {"having", "none"}
  /\ call = "none" => result # "running"
  /\ call # "none" => UnderWay
  /\ call = "both" => pending \in Seq(Condition)
  /\ IF call = "excluding" THEN saved = "" ELSE exclude = ""
  /\ Slotted(where) /\ Slotted(having)
  /\ Covers(where, args, asked)

\* A rendering that begins asks for all its conditions.
LEMMA TopTells ==
  ASSUME NEW q, NEW top, top.form = "top", top.rest = q.conds, top.cols = <<>>, top.text = <<>>, top.live = 0,
         NEW a
  PROVE  StackTells(q, <<top>>, a)
<1>1. Coming(q, top) = Asked(q, top)
  <2>1. Coming(q, top) = Meanings(q.out, q.row, q.conds) \cup {}
    BY NothingColumnwise DEF Coming
  <2> QED BY <2>1 DEF Asked
<1>2. Searchable(q, top)
  BY DEF Searchable
<1>3. CallTells(q, top, {}, a)
  BY <1>1, <1>2, BeginsTelling
<1>4. PICK calls : calls = <<top>>
  OBVIOUS
<1>5. Len(calls) = 1 /\ calls[1] = top
  BY <1>4, IsSeqOne
<1>6. InnerGives(q, calls, 1) = {} /\ \A i \in 1 .. 1 : i = 1
  BY <1>5 DEF InnerGives
<1>7. StackTells(q, calls, a)
  BY <1>3, <1>5, <1>6 DEF StackTells
<1> QED BY <1>4, <1>7

LEMMA BeginUnderWay ==
  ASSUME dialect \in Dialect, IsSeq(args), NEW kind, NEW conds \in Seq(Condition), Begin(kind, conds)
  PROVE  UnderWay'
<1>1. PICK base \in Nat : base = Len(args) /\ Rendering(base)'
  BY Begins
<1>2. Reading(Condition)'
  BY BeginOver
<1>3. PICK top : top = [form |-> "top", node |-> Empty, rest |-> conds, cols |-> <<>>,
                        text |-> <<>>, live |-> 0, from |-> base]
  OBVIOUS
<1>4. /\ stack' = <<top>> /\ filter' = conds /\ sql' = <<>> /\ result' = "running"
      /\ args' = args /\ dialect' = dialect
  BY <1>1, <1>3 DEF Begin, Top
<1>5. /\ top.form = "top" /\ top.rest = conds /\ top.cols = <<>> /\ top.text = <<>> /\ top.live = 0
      /\ top.from = base
  BY <1>3
<1>6. Telling'
  <2>1. ASSUME NEW row \in Row PROVE StackTells(Scene(row)', stack', args')
    <3>1. Scene(row)'.conds = conds
      BY <1>4 DEF Scene
    <3>2. PICK q : q = Scene(row)'
      OBVIOUS
    <3>3. StackTells(q, <<top>>, args')
      BY <1>5, <3>1, <3>2, TopTells
    <3> QED BY <1>4, <3>2, <3>3
  <2> QED BY <1>4, <2>1 DEF Telling
<1>7. Formed'
  <2>1. IsSeq(conds)
    BY IsSeqIntro
  <2>2. Children(top)' = conds
    BY <1>4, <1>5 DEF Children
  <2>3. ToSet(<<>>) = {}
    BY DEF ToSet
  <2>4. base \in 0 .. base
    BY <1>1
  <2>5. Framed(top, base)'
    BY <1>5, <2>1, <2>2, <2>3, <2>4, SuffixItself DEF Framed
  <2>6. IsSeq(stack') /\ stack' # <<>> /\ DOMAIN stack' = {1} /\ stack'[1] = top
    BY <1>4, IsSeqOne
  <2>7. Len(args') = base
    BY <1>1, <1>4
  <2> QED BY <1>4, <2>5, <2>6, <2>7 DEF Formed
<1> QED BY <1>1, <1>2, <1>6, <1>7 DEF UnderWay

\* A fragment is begun.
LEMMA BeginMeant ==
  ASSUME Meant, NEW kind \in InWhere \cup {"having"}, NEW conds \in Seq(Condition), Begin(kind, conds),
         IsSeq(asked'), Slotted(where'), Slotted(having'), Covers(where', args, asked'),
         kind = "both" => pending' \in Seq(Condition),
         IF kind = "excluding" THEN saved' = "" ELSE exclude' = ""
  PROVE  Meant'
<1>1. call' = kind /\ args' = args /\ dialect' = dialect
  BY DEF Begin
<1>2. UnderWay'
  BY TargetAssumption, BeginUnderWay DEF Meant
<1>3. kind # "none"
  BY DEF InWhere
<1> QED BY <1>1, <1>2, <1>3 DEF Meant

\* Nothing is under way afterwards.
LEMMA RestMeant ==
  ASSUME Meant, call' = "none", result' # "running", dialect' = dialect, IsSeq(args'), IsSeq(asked'),
         exclude' = "", Slotted(where'), Slotted(having'), Covers(where', args', asked')
  PROVE  Meant'
BY DEF Meant, InWhere

LEMMA MeantAsks ==
  ASSUME Meant, Asks
  PROVE  /\ call = "none" /\ result # "running" /\ exclude = ""
         /\ IsSeq(args) /\ IsSeq(asked) /\ Slotted(where) /\ Slotted(having) /\ Covers(where, args, asked)
BY DEF Meant, Asks, InWhere

\* One more part, and its arguments.
LEMMA PartMeant ==
  ASSUME Meant, Asks, NEW b, IsSeq(b), args' = args \o b, NEW text, Slotted(text),
         NEW part, asked' = Append(asked, part), where' = Glue(where, text),
         FindsIn(text, Len(args')),
         \A row \in Row : Neat(text) /\ (Selects(Worth(text, args', row)) <=> Selects(PartSays(part, row))),
         UNCHANGED <<dialect, exclude, result, call, having>>
  PROVE  Meant'
<1>1. /\ call = "none" /\ result # "running" /\ exclude = ""
      /\ IsSeq(args) /\ IsSeq(asked) /\ Slotted(where) /\ Slotted(having) /\ Covers(where, args, asked)
  BY MeantAsks
<1>2. IsSeq(args')
  BY <1>1, IsSeqConcat
<1>3. PICK a : a = args'
  OBVIOUS
<1>4. Covers(where, a, asked)
  BY <1>1, <1>3, CoversLater
<1>5. IsSeq(where) /\ IsSeq(text)
  BY <1>1 DEF Slotted
<1>6. FindsIn(text, Len(a))
  BY <1>3
<1>7. \A row \in Row : Neat(text) /\ (Selects(Worth(text, a, row)) <=> Selects(PartSays(part, row)))
  BY <1>3
<1>8. Covers(Glue(where, text), a, Append(asked, part))
  BY <1>1, <1>4, <1>5, <1>6, <1>7, GlueCovers
<1>9. Slotted(where') /\ IsSeq(asked')
  BY <1>1, SlottedGlue, IsSeqAppend
<1> QED BY <1>1, <1>2, <1>3, <1>8, <1>9, RestMeant

LEMMA AppendConcat == ASSUME NEW s, IsSeq(s), NEW x PROVE Append(s, x) = s \o <<x>>
<1>1. PICK b : b = <<x>>
  OBVIOUS
<1>2. IsSeq(b) /\ Len(b) = 1 /\ b[1] = x
  BY <1>1, IsSeqOne
<1>3. PICK n \in Nat : n = Len(s)
  BY IsSeqLen
<1>4. PICK c : c = Append(s, x)
  OBVIOUS
<1>5. PICK d : d = s \o b
  OBVIOUS
<1>6. IsSeq(c) /\ Len(c) = n + 1 /\ c[n + 1] = x /\ \A i \in 1 .. n : c[i] = s[i]
  BY <1>3, <1>4, IsSeqAppend
<1>7. IsSeq(d) /\ Len(d) = n + 1 /\ d[n + 1] = x /\ \A i \in 1 .. n : d[i] = s[i]
  <2>1. /\ IsSeq(d) /\ Len(d) = Len(s) + Len(b)
        /\ \A i \in 1 .. Len(s) : d[i] = s[i]
        /\ \A i \in 1 .. Len(b) : d[Len(s) + i] = b[i]
    <3>1. IsSeq(s) /\ IsSeq(b)
      BY <1>2
    <3> QED BY ONLY <1>5, <3>1, IsSeqConcat
  <2>2. 1 \in 1 .. Len(b)
    BY <1>2
  <2> QED BY <1>2, <1>3, <2>1, <2>2
<1>8. \A i \in 1 .. n + 1 : i \in 1 .. n \/ i = n + 1
  OBVIOUS
<1>9. Len(c) = Len(d) /\ \A i \in 1 .. Len(c) : c[i] = d[i]
  BY <1>6, <1>7, <1>8
<1> QED BY <1>1, <1>4, <1>5, <1>6, <1>7, <1>9, IsSeqEqual

LEMMA ArgMeant == ASSUME FragmentsDecided, Meant, Arg PROVE Meant'
<1>1. PICK v \in Literal :
        /\ where' = Glue(where, One("=", v.col, Len(args), <<v.value>>).text)
        /\ args' = Append(args, v.value)
        /\ asked' = Append(asked, [kind |-> "arg", arg |-> v])
  BY DEF Arg
<1>2. Asks /\ UNCHANGED <<dialect, exclude, result, call, having>>
  BY DEF Arg
<1>3. IsSeq(args) /\ Len(args) \in Nat
  BY <1>2, MeantAsks, IsSeqLen
<1>4. PICK b : b = <<v.value>>
  OBVIOUS
<1>5. IsSeq(b) /\ Len(b) = 1
  BY <1>4, IsSeqOne
<1>6. args' = args \o b
  BY <1>1, <1>3, <1>4, AppendConcat
<1>7. PICK text : text = One("=", v.col, Len(args), <<v.value>>).text
  OBVIOUS
<1>8. PICK part : part = [kind |-> "arg", arg |-> v]
  OBVIOUS
<1>9. Comparable(v.col, v.value)
  BY DEF FragmentsDecided
<1>10. /\ Slotted(text)
       /\ \A row \in Row :
            Neat(text) /\ (Selects(Worth(text, Append(args, v.value), row)) <=> Selects(PartSays(part, row)))
  BY <1>3, <1>7, <1>8, <1>9, ArgCovers
<1>11. FindsIn(text, Len(args'))
  <2>1. Renders(One("=", v.col, Len(args), b), Len(args))
    BY <1>3, <1>5, OneRenders
  <2>2. One("=", v.col, Len(args), b).args = b
    BY DEF One
  <2>3. Shows(text, Len(args), Len(args) + Len(b))
    BY <1>4, <1>7, <2>1, <2>2 DEF Renders
  <2>4. Len(args') = Len(args) + Len(b)
    BY <1>3, <1>5, <1>6, IsSeqConcat
  <2>5. Shows(text, Len(args), Len(args'))
    BY <2>3, <2>4
  <2> QED BY <2>5, ShowsWithin
<1>12. \A row \in Row : Neat(text) /\ (Selects(Worth(text, args', row)) <=> Selects(PartSays(part, row)))
  BY <1>1, <1>10
<1>13. where' = Glue(where, text) /\ asked' = Append(asked, part)
  BY <1>1, <1>7, <1>8
<1> QED BY <1>2, <1>5, <1>6, <1>10, <1>11, <1>12, <1>13, PartMeant

LEMMA KeysetMeant == ASSUME FragmentsDecided, Meant, Keyset PROVE Meant'
<1>1. Asks /\ UNCHANGED <<dialect, exclude, result, call, having>>
  BY DEF Keyset
<1>2. /\ call = "none" /\ result # "running" /\ exclude = ""
      /\ IsSeq(args) /\ IsSeq(asked) /\ Slotted(where) /\ Slotted(having) /\ Covers(where, args, asked)
  BY <1>1, MeantAsks
<1>3. PICK s \in Seeks :
        \/ UNCHANGED <<args, where, asked>>
        \/ /\ s.sorts # <<>> /\ DOMAIN s.cur # {}
           /\ Order!FirstSortFault(s.sorts, s.cur) = "ok"
           /\ args' = args \o Seek(s.sorts, s.cur, Len(args)).args
           /\ where' = Glue(where, Seek(s.sorts, s.cur, Len(args)).text)
           /\ asked' = Append(asked, [kind |-> "seek", seek |-> s])
  BY DEF Keyset
<1>4. CASE UNCHANGED <<args, where, asked>>
  BY <1>1, <1>2, <1>4, RestMeant
<1>5. CASE /\ s.sorts # <<>> /\ DOMAIN s.cur # {}
           /\ Order!FirstSortFault(s.sorts, s.cur) = "ok"
           /\ args' = args \o Seek(s.sorts, s.cur, Len(args)).args
           /\ where' = Glue(where, Seek(s.sorts, s.cur, Len(args)).text)
           /\ asked' = Append(asked, [kind |-> "seek", seek |-> s])
  <2>1. PICK r : r = Seek(s.sorts, s.cur, Len(args))
    OBVIOUS
  <2>2. PICK part : part = [kind |-> "seek", seek |-> s]
    OBVIOUS
  <2>3. SeekDecided(s)
    BY DEF FragmentsDecided
  <2>4. /\ Slotted(r.text)
        /\ \A row \in Row :
             Neat(r.text) /\ (Selects(Worth(r.text, args \o r.args, row)) <=> Selects(PartSays(part, row)))
    BY <1>2, <1>5, <2>1, <2>2, <2>3, SeekCovers
  <2>5. IsSeq(r.args) /\ Shows(r.text, Len(args), Len(args) + Len(r.args))
    <3>1. IsSeq(s.sorts)
      BY SeekAssumption, IsSeqIntro
    <3>2. Len(args) \in Nat
      BY <1>2, IsSeqLen
    <3> QED BY <2>1, <3>1, <3>2, SeekRenders DEF Renders
  <2>6. PICK b : b = r.args
    OBVIOUS
  <2>7. PICK text : text = r.text
    OBVIOUS
  <2>8. args' = args \o b /\ where' = Glue(where, text) /\ asked' = Append(asked, part) /\ IsSeq(b)
    BY <1>5, <2>1, <2>2, <2>5, <2>6, <2>7
  <2>9. FindsIn(text, Len(args'))
    <3>1. Len(args') = Len(args) + Len(b)
      BY <1>2, <2>8, IsSeqConcat
    <3>2. Shows(text, Len(args), Len(args'))
      BY <2>5, <2>6, <2>7, <3>1
    <3> QED BY <3>2, ShowsWithin
  <2>10. \A row \in Row : Neat(text) /\ (Selects(Worth(text, args', row)) <=> Selects(PartSays(part, row)))
    BY <2>4, <2>6, <2>7, <2>8
  <2> QED BY <1>1, <2>4, <2>7, <2>8, <2>9, <2>10, PartMeant
<1> QED BY <1>3, <1>4, <1>5

\* A fragment begins, or is refused before anything is rendered.
LEMMA AskedMeant ==
  ASSUME Meant, Where \/ WhereExcluding \/ Having \/ WhereAndHaving
  PROVE  Meant'
<1>1. /\ call = "none" /\ result # "running" /\ exclude = ""
      /\ IsSeq(args) /\ IsSeq(asked) /\ Slotted(where) /\ Slotted(having) /\ Covers(where, args, asked)
  BY MeantAsks DEF Where, WhereExcluding, Having, WhereAndHaving, Meant, InWhere
<1>2. CASE Refused
  <2>1. UNCHANGED <<dialect, exclude, args, result, call, where, having, asked>>
    BY <1>2 DEF Refused, vars
  <2> QED BY <1>1, <2>1, RestMeant
<1>3. ASSUME NEW kind \in InWhere \cup {"having"}, NEW conds \in Filter, Begin(kind, conds),
             UNCHANGED <<where, having, asked>>,
             kind = "both" => pending' \in Seq(Condition),
             IF kind = "excluding" THEN saved' = "" ELSE exclude' = ""
      PROVE  Meant'
  <2>1. conds \in Seq(Condition)
    BY FilterAssumption
  <2>2. IsSeq(asked') /\ Slotted(where') /\ Slotted(having') /\ Covers(where', args, asked')
    BY <1>1, <1>3
  <2> QED BY <1>3, <2>1, <2>2, BeginMeant
<1>4. CASE Where
  <2>1. PICK conds \in Filter : Begin("where", conds)
    BY <1>4 DEF Where
  <2>2. UNCHANGED <<exclude, where, having, asked>> /\ "where" \in InWhere
    BY <1>4 DEF Where, InWhere
  <2> QED BY <1>1, <1>3, <2>1, <2>2
<1>5. CASE WhereExcluding
  <2>1. PICK conds \in Filter : Begin("excluding", conds)
    BY <1>5 DEF WhereExcluding
  <2>2. UNCHANGED <<where, having, asked>> /\ saved' = exclude /\ "excluding" \in InWhere
    BY <1>5 DEF WhereExcluding, InWhere
  <2> QED BY <1>1, <1>3, <2>1, <2>2
<1>6. CASE Having
  <2>1. PICK conds \in Filter :
          \/ Begin("having", conds) /\ UNCHANGED <<exclude, where, having, asked>>
          \/ Refused
    BY <1>6 DEF Having
  <2>2. CASE Begin("having", conds) /\ UNCHANGED <<exclude, where, having, asked>>
    BY <1>1, <1>3, <2>2
  <2> QED BY <1>2, <2>1, <2>2
<1>7. CASE WhereAndHaving
  <2>1. PICK w \in Filter, h \in Filter :
          \/ Begin("both", w) /\ pending' = h /\ UNCHANGED <<exclude, where, having, asked>>
          \/ Refused
    BY <1>7 DEF WhereAndHaving
  <2>2. CASE Begin("both", w) /\ pending' = h /\ UNCHANGED <<exclude, where, having, asked>>
    <3>1. pending' \in Seq(Condition) /\ "both" \in InWhere
      BY <2>2, FilterAssumption DEF InWhere
    <3> QED BY <1>1, <1>3, <2>2, <3>1
  <2> QED BY <1>2, <2>1, <2>2
<1> QED BY <1>4, <1>5, <1>6, <1>7

LEMMA RenderMeant == ASSUME AllDecided, Meant, Render PROVE Meant'
<1>1. result = "running" /\ Next /\ UNCHANGED own
  BY DEF Render
<1>2. call # "none" /\ UnderWay /\ dialect \in Target /\ IsSeq(args)
  BY <1>1 DEF Meant
<1>3. PICK base : Rendering(base)
  BY <1>2 DEF UnderWay
<1>4. PICK b : IsSeq(b) /\ args' = args \o b
  BY <1>1, <1>3, NextExtends DEF Extends
<1>5. UNCHANGED <<dialect, exclude>>
  BY <1>1 DEF Next, Skip, Malformed, Descend, UnknownField, BadOperator, HooksFail, RenderLeaf, OpenSearch,
              SearchColumn, Close, Return, Fail
<1>6. UnderWay'
  <2>1. Formed' /\ Rendering(base)'
    BY <1>1, <1>2, <1>3, NextFormed, NextRendering DEF UnderWay
  <2>2. Reading(Condition)'
    BY <1>1, <1>2, <1>3, AllChildren, NextReading DEF UnderWay
  <2>3. Telling'
    BY <1>1, <1>2, <1>3, NextTelling DEF UnderWay
  <2> QED BY <2>1, <2>2, <2>3 DEF UnderWay
<1>7. IsSeq(args')
  BY <1>2, <1>4, IsSeqConcat
<1>8. PICK a : a = args'
  OBVIOUS
<1>9. Covers(where, a, asked)
  BY <1>2, <1>4, <1>8, CoversLater DEF Meant
<1>10. Covers(where', args', asked')
  BY <1>1, <1>8, <1>9 DEF own
<1>11. UNCHANGED <<call, saved, pending, where, having, asked>>
  BY <1>1 DEF own
<1>12. IsSeq(asked') /\ Slotted(where') /\ Slotted(having')
  BY <1>11 DEF Meant
<1> QED BY <1>2, <1>5, <1>6, <1>7, <1>10, <1>11, <1>12 DEF Meant

\* A rendering that came out is worth what its part says.
LEMMA ReturnsMeant == ASSUME Meant, Returns PROVE Meant'
<1>1. call # "none" /\ result = "ok"
  BY DEF Returns, Rendered
<1>2. /\ UnderWay /\ IsSeq(args) /\ IsSeq(asked) /\ Slotted(where) /\ Slotted(having)
      /\ Covers(where, args, asked)
      /\ call \in InWhere \cup {"having"}
  BY <1>1 DEF Meant
<1>3. PICK base : Rendering(base)
  BY <1>2 DEF UnderWay
<1>4. Slotted(sql)
  BY <1>2, SlottedTokens DEF UnderWay, Formed
<1>5. FindsIn(sql, Len(args))
  BY <1>1, <1>3, ShowsWithin DEF Rendering
<1>6. exclude' = ""
  BY <1>1 DEF Meant, Returns, Restore
<1>7. CASE call = "having"
  <2>1. /\ having' = Glue(having, sql) /\ UNCHANGED <<where, asked>>
        /\ call' = "none" /\ UNCHANGED <<dialect, args, result>>
    BY <1>7 DEF Returns
  <2>2. Slotted(having')
    BY <1>2, <1>4, <2>1, SlottedGlue
  <2> QED BY <1>1, <1>2, <1>6, <2>1, <2>2, RestMeant
<1>8. CASE call # "having"
  <2>1. where' = Glue(where, sql) /\ asked' = Append(asked, Part) /\ having' = having
    BY <1>8 DEF Returns
  <2>2. PICK part : part = Part
    OBVIOUS
  <2>3. \A row \in Row : PartSays(part, row) = ListMeaning(exclude, filter, row)
    <3>1. part.kind = call /\ part.conds = filter /\ part.out = exclude
      BY <1>1, <2>2 DEF Part, Meant
    <3>2. part.kind # "arg" /\ part.kind # "seek"
      BY <1>2, <3>1 DEF InWhere
    <3> QED BY <3>1, <3>2 DEF PartSays
  <2>4. \A row \in Row : Neat(sql) /\ (Selects(Worth(sql, args, row)) <=> Selects(PartSays(part, row)))
    BY <1>1, <1>2, <2>3 DEF UnderWay, Telling
  <2>5. Covers(Glue(where, sql), args, Append(asked, part))
    BY <1>2, <1>4, <1>5, <2>4, GlueCovers DEF Slotted
  <2>6. /\ IsSeq(asked') /\ Slotted(where') /\ Slotted(having')
        /\ Covers(where', args, asked')
    BY <1>2, <1>4, <2>1, <2>2, <2>5, SlottedGlue, IsSeqAppend
  <2>7. CASE call = "both"
    <3>1. Begin("having", pending)
      BY <2>7 DEF Returns
    <3>2. pending \in Seq(Condition)
      BY <2>7 DEF Meant
    <3> QED BY <1>6, <2>6, <3>1, <3>2, BeginMeant
  <2>8. CASE call # "both"
    <3>1. call' = "none" /\ UNCHANGED <<dialect, args, result>>
      BY <2>8 DEF Returns
    <3> QED BY <1>1, <1>2, <1>6, <2>6, <3>1, RestMeant
  <2> QED BY <2>7, <2>8
<1> QED BY <1>7, <1>8

LEMMA FailsMeant == ASSUME Meant, Fails PROVE Meant'
<1>1. /\ call # "none" /\ result # "running" /\ call' = "none"
      /\ UNCHANGED <<dialect, args, result, having>>
      /\ (where' = <<>> /\ asked' = <<>>) \/ UNCHANGED <<where, asked>>
  BY DEF Fails, Rendered
<1>2. exclude' = ""
  BY DEF Meant, Fails, Restore
<1>3. /\ IsSeq(args) /\ IsSeq(asked) /\ Slotted(where) /\ Slotted(having) /\ Covers(where, args, asked)
  BY DEF Meant
<1>4. IsSeq(asked') /\ Slotted(where') /\ Covers(where', args, asked')
  BY <1>1, <1>3, SlottedNothing, CoversNothing, EmptySeq, IsSeqIntro
<1> QED BY <1>1, <1>2, <1>3, <1>4, RestMeant

LEMMA InitMeant == BuilderInit => Meant
<1> SUFFICES ASSUME BuilderInit PROVE Meant
  OBVIOUS
<1>1. /\ dialect \in Target /\ exclude = "" /\ call = "none" /\ result = "ok"
      /\ args = <<>> /\ where = <<>> /\ having = <<>> /\ asked = <<>>
  BY DEF BuilderInit
<1>2. IsSeq(<<>>)
  BY EmptySeq, IsSeqIntro
<1> QED BY <1>1, <1>2, SlottedNothing, CoversNothing DEF Meant

LEMMA NextMeant ==
  ASSUME FragmentsDecided, Meant, [BuilderNext]_<<vars, own>>
  PROVE  Meant'
<1>1. AllDecided
  BY DEF FragmentsDecided
<1>2. CASE BuilderNext
  BY <1>1, <1>2, ArgMeant, KeysetMeant, AskedMeant, RenderMeant, ReturnsMeant, FailsMeant DEF BuilderNext
<1>3. CASE UNCHANGED <<vars, own>>
  <2>1. UNCHANGED vars /\ UNCHANGED own
    BY <1>3
  <2>2. UnderWay => UnderWay'
    <3> SUFFICES ASSUME UnderWay PROVE UnderWay'
      OBVIOUS
    <3>1. PICK base : Rendering(base)
      BY DEF UnderWay
    <3>2. Formed' /\ Rendering(base)'
      BY <2>1, <3>1, NextFormed, NextRendering DEF UnderWay
    <3>3. Reading(Condition)'
      BY <2>1, <3>1, AllChildren, NextReading DEF UnderWay
    <3>4. dialect \in Target
      BY DEF Meant
    <3>5. Telling'
      BY <1>1, <2>1, <3>1, <3>4, NextTelling DEF UnderWay
    <3> QED BY <3>2, <3>3, <3>5 DEF UnderWay
  <2> QED BY <2>1, <2>2 DEF Meant, vars, own
<1> QED BY <1>2, <1>3

(***************************************************************************)
(* What the driver binds in the WHERE part of the statement.               *)
(***************************************************************************)
\* "$n" finds the n-th argument, wherever it stands.
LEMMA NumberedFinds == ASSUME dialect = "postgres", NEW text PROVE Bound(text) = Told(text, args)
<1> DEFINE bound(i) == [sym |-> text[i].sym, col |-> text[i].col, lit |-> text[i].lit,
                        a |-> [j \in DOMAIN text[i].slots |-> args[ArgumentOf(text, <<i, j>>)]]]
<1>1. Bound(text) = [i \in DOMAIN text |-> bound(i)]
  BY DEF Bound
<1>2. ASSUME NEW i PROVE bound(i) = Tell(text[i], args)
  <2>1. ASSUME NEW j PROVE ArgumentOf(text, <<i, j>>) = text[i].slots[j]
    BY DEF ArgumentOf, Shown
  <2>2. PICK x : x = text[i]
    OBVIOUS
  <2>3. [j \in DOMAIN x.slots |-> args[ArgumentOf(text, <<i, j>>)]] = [j \in DOMAIN x.slots |-> args[x.slots[j]]]
    BY <2>1, <2>2
  <2> QED BY <2>2, <2>3 DEF Tell
<1> HIDE DEF bound
<1>3. Told(text, args) = [i \in DOMAIN text |-> Tell(text[i], args)]
  BY DEF Told
<1> QED BY <1>1, <1>2, <1>3

LEMMA FirstOfTwo ==
  ASSUME NEW s, NEW t, IsSeq(s), IsSeq(t)
  PROVE  SubSeq(s \o t, 1, Len(s)) = s
<1>1. PICK w : w = s \o t
  OBVIOUS
<1>2. PICK n \in Nat : n = Len(s)
  BY IsSeqLen
<1>3. IsSeq(w) /\ Len(w) = n + Len(t) /\ Len(t) \in Nat /\ \A i \in 1 .. n : w[i] = s[i]
  BY <1>1, <1>2, IsSeqConcat, IsSeqLen
<1>4. n \in 0 .. Len(w)
  BY <1>3
<1>5. PICK p : p = SubSeq(w, 1, n)
  OBVIOUS
<1>6. IsSeq(p) /\ Len(p) = n /\ \A i \in 1 .. n : p[i] = w[i]
  BY <1>3, <1>4, <1>5, IsSeqPrefix
<1>7. Len(p) = Len(s) /\ \A i \in 1 .. Len(p) : p[i] = s[i]
  BY <1>2, <1>3, <1>6
<1> QED BY <1>1, <1>2, <1>5, <1>6, <1>7, IsSeqEqual

LEMMA MeantSelects ==
  ASSUME Meant, ~failed => StatementInOrder
  PROVE  WhereMeansItsParts
<1> SUFFICES ASSUME call = "none", ~failed \/ dialect = "postgres", NEW row \in Row
             PROVE  (\A i \in DOMAIN asked : Selects(PartSays(asked[i], row))) <=>
                      Selects(IF where = <<>> THEN "none"
                              ELSE Evaluate(SubSeq(Bound(Statement), 1, Len(where)), row))
  BY DEF WhereMeansItsParts
<1>1. IsSeq(args) /\ Slotted(where) /\ Slotted(having) /\ Covers(where, args, asked)
  BY DEF Meant
<1>2. IsSeq(where) /\ IsSeq(having) /\ Statement = where \o having
  BY <1>1 DEF Slotted, Statement
<1>3. Bound(Statement) = Told(Statement, args)
  <2>1. CASE dialect = "postgres"
    BY <2>1, NumberedFinds
  <2>2. CASE ~failed
    <3>1. InOrder(Statement, 0, Len(args))
      BY <2>2 DEF StatementInOrder
    <3>2. Slotted(Statement)
      BY <1>1, <1>2, SlottedConcat
    <3>3. PICK text : text = Statement
      OBVIOUS
    <3>4. IsSeq(text) /\ \A i \in DOMAIN text : DOMAIN text[i].slots \subseteq Int
      BY <3>2, <3>3 DEF Slotted
    <3>5. DOMAIN text \subseteq Int
      BY <3>4, IsSeqLen
    <3>6. InOrder(text, 0, Len(args))
      BY <3>1, <3>3
    <3>7. Bound(text) = Told(text, args)
      BY <1>1, <3>4, <3>5, <3>6, BoundIsTold
    <3> QED BY <3>3, <3>7
  <2> QED BY <2>1, <2>2
<1>4. SubSeq(Bound(Statement), 1, Len(where)) = Told(where, args)
  <2>1. Bound(Statement) = Told(where, args) \o Told(having, args)
    BY <1>2, <1>3, ToldConcat
  <2>2. /\ IsSeq(Told(where, args)) /\ Len(Told(where, args)) = Len(where)
        /\ IsSeq(Told(having, args))
    BY <1>2, ToldIs
  <2>3. PICK s : s = Told(where, args)
    OBVIOUS
  <2>4. PICK t : t = Told(having, args)
    OBVIOUS
  <2>5. SubSeq(s \o t, 1, Len(s)) = s
    BY <2>2, <2>3, <2>4, FirstOfTwo
  <2> QED BY <2>1, <2>2, <2>3, <2>4, <2>5
<1>5. Selects(Worth(where, args, row)) <=> AllSelect(asked, row)
  BY <1>1 DEF Covers
<1> QED BY <1>4, <1>5 DEF Worth, AllSelect

\* The rows that the WHERE text of a statement selects are those that all its parts
\* select, whatever the client asked for in whatever order: its filters, each
\* without what it excludes itself, its cursors by the order the database sorts in,
\* and its own values; also after a fragment that failed, where the placeholders
\* are numbered (builder.go:30-118, pagination.go, dialect.go:74-81).
THEOREM PartsAreMeant == ASSUME FragmentsDecided PROVE BuilderSpec => []WhereMeansItsParts
<1>1. Meant /\ [BuilderNext]_<<vars, own>> => Meant'
  BY NextMeant
<1>2. Meant /\ StatementInOrder => WhereMeansItsParts
  BY MeantSelects
<1> QED BY <1>1, <1>2, InitMeant, StatementsInOrder, PTL DEF BuilderSpec
=============================================================================
