--------------------------- MODULE MeaningProofs ----------------------------
(***************************************************************************)
(* The compiled text asks of every row exactly what the filter asks.       *)
(*                                                                         *)
(* First the reading of texts: where a balanced text is cut, what a text   *)
(* is worth from what its parts are worth, and which argument each of its  *)
(* placeholders finds.  Then every operator of every dialect, on one       *)
(* column.  Then the tree: the text of a call, the calls inside it and     *)
(* what it has still to visit together ask what its conditions mean, and   *)
(* every action of the compiler keeps that.                                *)
(***************************************************************************)
EXTENDS CompileProofs, FilterMeaning

(***************************************************************************)
(* Parentheses.                                                            *)
(***************************************************************************)
\* What a token adds to the depth.
Turn(x) == IF x.sym = "(" THEN 1 ELSE IF x.sym = ")" THEN -1 ELSE 0

Count(s, w, i) == Cardinality({j \in 1 .. i : s[j].sym = w})

LEMMA CountStep ==
  ASSUME NEW s, NEW w, NEW i \in Nat
  PROVE  /\ Count(s, w, 0) = 0
         /\ Count(s, w, i) \in Nat
         /\ Count(s, w, i + 1) = Count(s, w, i) + IF s[i + 1].sym = w THEN 1 ELSE 0
<1>1. PICK before : before = {j \in 1 .. i : s[j].sym = w}
  OBVIOUS
<1>2. PICK upto : upto = {j \in 1 .. i + 1 : s[j].sym = w}
  OBVIOUS
<1>3. IsFiniteSet(1 .. i)
  BY FS_Interval
<1>4. IsFiniteSet(before)
  BY <1>1, <1>3, FS_Subset
<1>5. Cardinality(before) \in Nat
  BY <1>4, FS_CardinalityType
<1>6. Count(s, w, 0) = 0
  <2>1. {j \in 1 .. 0 : s[j].sym = w} = {}
    OBVIOUS
  <2> QED BY <2>1, FS_EmptySet DEF Count
<1>7. Cardinality(upto) = Cardinality(before) + IF s[i + 1].sym = w THEN 1 ELSE 0
  <2>1. CASE s[i + 1].sym = w
    <3>1. upto = before \cup {i + 1} /\ i + 1 \notin before
      BY <1>1, <1>2, <2>1
    <3>2. Cardinality(upto) = Cardinality(before) + 1
      BY <1>4, <3>1, FS_AddElement
    <3> QED BY <2>1, <3>2
  <2>2. CASE s[i + 1].sym # w
    <3>1. upto = before
      <4>1. \A j : j \in 1 .. i + 1 <=> j \in 1 .. i \/ j = i + 1
        OBVIOUS
      <4> QED BY <1>1, <1>2, <2>2, <4>1
    <3> QED BY <1>5, <2>2, <3>1
  <2> QED BY <2>1, <2>2
<1> QED BY <1>1, <1>2, <1>5, <1>6, <1>7 DEF Count

LEMMA DepthStep ==
  ASSUME NEW s, NEW i \in Nat
  PROVE  /\ Depth(s, 0) = 0
         /\ Depth(s, i) \in Int
         /\ Depth(s, i + 1) = Depth(s, i) + Turn(s[i + 1])
<1>1. /\ Count(s, "(", 0) = 0 /\ Count(s, "(", i) \in Nat
      /\ Count(s, "(", i + 1) = Count(s, "(", i) + IF s[i + 1].sym = "(" THEN 1 ELSE 0
  BY CountStep
<1>2. /\ Count(s, ")", 0) = 0 /\ Count(s, ")", i) \in Nat
      /\ Count(s, ")", i + 1) = Count(s, ")", i) + IF s[i + 1].sym = ")" THEN 1 ELSE 0
  BY CountStep
<1>3. \A k : Depth(s, k) = Count(s, "(", k) - Count(s, ")", k)
  BY DEF Depth, Count
<1> QED BY <1>1, <1>2, <1>3 DEF Turn

\* After k tokens, t goes on with the n tokens of s.
Spells(t, k, s, n) == \A i \in 1 .. n : t[k + i].sym = s[i].sym

\* The depth in a stretch of another text is the same but for the depth where
\* the stretch begins.
LEMMA DepthOfStretch ==
  ASSUME NEW s, NEW t, NEW k \in Nat, NEW n \in Nat, Spells(t, k, s, n), NEW m \in 0 .. n
  PROVE  Depth(t, k + m) = Depth(t, k) + Depth(s, m)
<1> DEFINE Bad == {i \in 0 .. n : Depth(t, k + i) # Depth(t, k) + Depth(s, i)}
<1>1. SUFFICES ASSUME Bad # {} PROVE FALSE
  OBVIOUS
<1>2. Bad \subseteq Nat
  OBVIOUS
<1>3. PICK i \in Bad : \A j \in Bad : i <= j
  BY <1>1, <1>2, Least
<1>4. i # 0
  BY <1>3, DepthStep
<1>5. i - 1 \in 0 .. n /\ i - 1 \in Nat /\ k + (i - 1) \in Nat /\ i - 1 \notin Bad /\ i \in 1 .. n
  BY <1>3, <1>4
<1>6. Depth(t, k + (i - 1)) = Depth(t, k) + Depth(s, i - 1)
  BY <1>5
<1>7. Depth(s, i - 1) \in Int /\ Depth(s, (i - 1) + 1) = Depth(s, i - 1) + Turn(s[(i - 1) + 1])
  BY <1>5, DepthStep
<1>8. Depth(t, k + (i - 1) + 1) = Depth(t, k + (i - 1)) + Turn(t[k + (i - 1) + 1])
  BY <1>5, DepthStep
<1>9. (i - 1) + 1 = i /\ k + (i - 1) + 1 = k + i
  BY <1>5
<1>10. Turn(t[k + i]) = Turn(s[i]) /\ Turn(s[i]) \in Int
  BY <1>5 DEF Turn, Spells
<1>11. Depth(t, k) \in Int
  BY DepthStep
<1>12. Depth(t, k + i) = Depth(t, k) + Depth(s, i)
  BY <1>6, <1>7, <1>8, <1>9, <1>10, <1>11
<1> QED BY <1>3, <1>12

\* Every parenthesis is closed, and none before it is opened.
Balanced(s) ==
  /\ IsSeq(s)
  /\ \A i \in 0 .. Len(s) : Depth(s, i) >= 0
  /\ Depth(s, Len(s)) = 0

LEMMA DepthOfConcat ==
  ASSUME NEW s, NEW t, IsSeq(s), IsSeq(t)
  PROVE  /\ Len(s) \in Nat /\ Len(t) \in Nat /\ Len(s \o t) = Len(s) + Len(t)
         /\ \A i \in 0 .. Len(s) : Depth(s \o t, i) = Depth(s, i)
         /\ \A i \in 0 .. Len(t) : Depth(s \o t, Len(s) + i) = Depth(s, Len(s)) + Depth(t, i)
<1>1. PICK m : m = Len(s)
  OBVIOUS
<1>2. PICK n : n = Len(t)
  OBVIOUS
<1>3. PICK c : c = s \o t
  OBVIOUS
<1>4. m \in Nat /\ n \in Nat /\ Len(c) = m + n
  BY <1>1, <1>2, <1>3, IsSeqLen, IsSeqConcat
<1>11. PICK none : none = 0
  OBVIOUS
<1>5. Spells(c, none, s, m)
  BY <1>1, <1>3, <1>4, <1>11, IsSeqConcat DEF Spells
<1>6. Spells(c, m, t, n)
  BY <1>1, <1>2, <1>3, <1>4, IsSeqConcat DEF Spells
<1>7. \A i \in 0 .. m : Depth(c, none + i) = Depth(c, none) + Depth(s, i)
  <2>1. none \in Nat /\ m \in Nat
    BY <1>4, <1>11
  <2> QED BY <1>5, <2>1, DepthOfStretch
<1>8. \A i \in 0 .. n : Depth(c, m + i) = Depth(c, m) + Depth(t, i)
  BY <1>4, <1>6, DepthOfStretch
<1>9. \A i \in 0 .. m : Depth(c, i) = Depth(s, i)
  <2> TAKE i \in 0 .. m
  <2>1. none + i = i /\ Depth(c, none) = 0 /\ Depth(s, i) \in Int
    BY <1>4, <1>11, DepthStep
  <2> QED BY <1>7, <2>1
<1>10. \A i \in 0 .. n : Depth(c, m + i) = Depth(s, m) + Depth(t, i)
  BY <1>4, <1>8, <1>9
<1> QED BY <1>1, <1>2, <1>3, <1>4, <1>9, <1>10

\* The cuts of a text that stands behind n others.
Shift(n, C) == {n + i : i \in C}

LEMMA Shifts ==
  ASSUME NEW n \in Nat
  PROVE  Shift(n, {}) = {} /\ Shift(n, {1}) = {n + 1} /\ \A C : \A i \in C : n + i \in Shift(n, C)
BY DEF Shift

\* Texts put one after another.
LEMMA BalancedConcat ==
  ASSUME NEW s, NEW t, Balanced(s), Balanced(t)
  PROVE  /\ Balanced(s \o t)
         /\ \A w : Cuts(s \o t, w) = Cuts(s, w) \cup Shift(Len(s), Cuts(t, w))
<1>1. PICK m : m = Len(s)
  OBVIOUS
<1>2. PICK n : n = Len(t)
  OBVIOUS
<1>3. PICK c : c = s \o t
  OBVIOUS
<1>4. /\ IsSeq(s) /\ IsSeq(t) /\ IsSeq(c) /\ m \in Nat /\ n \in Nat /\ Len(c) = m + n
      /\ DOMAIN s = 1 .. m /\ DOMAIN t = 1 .. n /\ DOMAIN c = 1 .. m + n
  BY <1>1, <1>2, <1>3, IsSeqConcat, IsSeqLen DEF Balanced
<1>5. \A i \in 0 .. m : Depth(c, i) = Depth(s, i)
  BY <1>1, <1>3, <1>4, DepthOfConcat
<1>6. \A i \in 0 .. n : Depth(c, m + i) = Depth(t, i)
  <2>1. \A i \in 0 .. n : Depth(c, m + i) = Depth(s, m) + Depth(t, i)
    BY <1>1, <1>2, <1>3, <1>4, DepthOfConcat
  <2>2. Depth(s, m) = 0
    BY <1>1 DEF Balanced
  <2>3. \A i \in 0 .. n : Depth(t, i) \in Int
    BY DepthStep
  <2> QED BY <2>1, <2>2, <2>3
<1>7. \A i \in 0 .. m + n : i \in 0 .. m \/ (i - m \in 0 .. n /\ i = m + (i - m))
  BY <1>4
<1>8. Balanced(c)
  <2>1. \A i \in 0 .. m : Depth(c, i) >= 0
    BY <1>1, <1>5 DEF Balanced
  <2>2. \A i \in 0 .. n : Depth(c, m + i) >= 0
    BY <1>2, <1>6 DEF Balanced
  <2>3. Depth(c, m + n) = 0
    BY <1>2, <1>4, <1>6 DEF Balanced
  <2>4. \A i \in 0 .. m + n : Depth(c, i) >= 0
    BY <1>7, <2>1, <2>2
  <2> QED BY <1>4, <2>3, <2>4 DEF Balanced
<1>9. ASSUME NEW w
      PROVE  Cuts(c, w) = Cuts(s, w) \cup Shift(m, Cuts(t, w))
  <2>1. \A i \in 1 .. m : c[i] = s[i]
    BY <1>1, <1>3, <1>4, IsSeqConcat
  <2>2. \A i \in 1 .. n : c[m + i] = t[i]
    BY <1>1, <1>2, <1>3, <1>4, IsSeqConcat
  <2>3. \A i \in 1 .. m : i \in Cuts(c, w) <=> i \in Cuts(s, w)
    BY <1>4, <1>5, <2>1 DEF Cuts
  <2>4. \A i \in 1 .. n : m + i \in Cuts(c, w) <=> i \in Cuts(t, w)
    BY <1>4, <1>6, <2>2 DEF Cuts
  <2>5. Cuts(c, w) \subseteq 1 .. m + n /\ Cuts(s, w) \subseteq 1 .. m /\ Cuts(t, w) \subseteq 1 .. n
    BY <1>4 DEF Cuts
  <2>6. \A i \in 1 .. m + n : i \in 1 .. m \/ (i - m \in 1 .. n /\ i = m + (i - m))
    BY <1>4
  <2> QED BY <2>3, <2>4, <2>5, <2>6 DEF Shift
<1> QED BY <1>1, <1>3, <1>8, <1>9

LEMMA BalancedNothing == Balanced(<<>>) /\ \A w : Cuts(<<>>, w) = {}
<1>1. IsSeq(<<>>) /\ Len(<<>>) = 0 /\ DOMAIN <<>> = {}
  BY EmptySeq DEF IsSeq
<1>2. Depth(<<>>, 0) = 0
  BY DepthStep
<1> QED BY <1>1, <1>2 DEF Balanced, Cuts

LEMMA BalancedOne ==
  ASSUME NEW x, x.sym \notin {"(", ")"}
  PROVE  Balanced(<<x>>) /\ \A w : Cuts(<<x>>, w) = IF x.sym = w THEN {1} ELSE {}
<1>1. PICK s : s = <<x>>
  OBVIOUS
<1>2. IsSeq(s) /\ Len(s) = 1 /\ s[1] = x /\ DOMAIN s = 1 .. 1
  BY <1>1, IsSeqOne, IsSeqLen
<1>3. Depth(s, 0) = 0 /\ Depth(s, 0 + 1) = Depth(s, 0) + Turn(s[0 + 1])
  BY DepthStep
<1>4. Depth(s, 1) = 0
  BY <1>2, <1>3 DEF Turn
<1>5. \A i \in 0 .. 1 : i = 0 \/ i = 1
  OBVIOUS
<1>6. Balanced(s)
  BY <1>2, <1>3, <1>4, <1>5 DEF Balanced
<1>7. \A w : Cuts(s, w) = IF x.sym = w THEN {1} ELSE {}
  <2>1. \A i : i \in 1 .. 1 <=> i = 1
    OBVIOUS
  <2> QED BY <1>2, <1>4, <2>1 DEF Cuts
<1> QED BY <1>1, <1>6, <1>7

\* A text in parentheses.
LEMMA BalancedEnclosed ==
  ASSUME NEW t, Balanced(t), t # <<>>, NEW open, open.sym = "(", NEW close, close.sym = ")",
         NEW c, c = <<open>> \o t \o <<close>>
  PROVE  /\ Balanced(c) /\ Cuts(c, "OR") = {} /\ Cuts(c, "AND") = {}
         /\ Enclosed(c) /\ c[1].sym = "(" /\ SubSeq(c, 2, Len(c) - 1) = t
<1>1. PICK n : n = Len(t)
  OBVIOUS
<1>2. PICK b : b = <<open>> \o t
  OBVIOUS
<1>3. IsSeq(t) /\ n \in Nat /\ n # 0 /\ DOMAIN t = 1 .. n
  BY <1>1, IsSeqLen DEF Balanced
<1>4. IsSeq(<<open>>) /\ Len(<<open>>) = 1 /\ <<open>>[1] = open /\ IsSeq(<<close>>) /\ Len(<<close>>) = 1 /\ <<close>>[1] = close
  BY IsSeqOne
<1>5. /\ IsSeq(b) /\ Len(b) = 1 + n
      /\ b[1] = open /\ \A i \in 1 .. n : b[1 + i] = t[i]
  <2>1. /\ IsSeq(b) /\ Len(b) = 1 + n
        /\ \A i \in 1 .. 1 : b[i] = <<open>>[i]
        /\ \A i \in 1 .. n : b[1 + i] = t[i]
    BY <1>1, <1>2, <1>3, <1>4, IsSeqConcat
  <2> QED BY <1>4, <2>1
<1>6. /\ IsSeq(c) /\ Len(c) = n + 2 /\ DOMAIN c = 1 .. n + 2
      /\ c[1] = open /\ c[n + 2] = close /\ \A i \in 1 .. n : c[1 + i] = t[i]
  <2>1. /\ IsSeq(c) /\ Len(c) = Len(b) + 1
        /\ \A i \in 1 .. Len(b) : c[i] = b[i]
        /\ \A i \in 1 .. 1 : c[Len(b) + i] = <<close>>[i]
    BY <1>2, <1>4, <1>5, IsSeqConcat
  <2>2. c[(1 + n) + 1] = close
    BY <1>4, <1>5, <2>1
  <2>3. \A i \in 1 .. n : 1 + i \in 1 .. 1 + n
    BY <1>3
  <2>4. 1 \in 1 .. 1 + n /\ (1 + n) + 1 = n + 2
    BY <1>3
  <2> QED BY <1>3, <1>5, <2>1, <2>2, <2>3, <2>4, IsSeqLen
<1>7. Depth(c, 0) = 0 /\ Depth(c, 1) = 1
  <2>1. Depth(c, 0) = 0 /\ Depth(c, 0 + 1) = Depth(c, 0) + Turn(c[0 + 1])
    BY DepthStep
  <2> QED BY <1>6, <2>1 DEF Turn
<1>8. PICK one : one = 1
  OBVIOUS
<1>9. /\ \A i \in 0 .. n : Depth(c, 1 + i) >= 1
      /\ Depth(c, n + 2) = 0
  <2>1. Spells(c, one, t, n)
    BY <1>6, <1>8 DEF Spells
  <2>2. \A i \in 0 .. n : Depth(c, one + i) = Depth(c, one) + Depth(t, i)
    <3> TAKE i \in 0 .. n
    <3>1. one \in Nat
      BY <1>8
    <3> QED BY <1>3, <2>1, <3>1, DepthOfStretch
  <2>3. \A i \in 0 .. n : Depth(t, i) >= 0 /\ Depth(t, i) \in Int
    BY <1>1, DepthStep DEF Balanced
  <2>4. \A i \in 0 .. n : Depth(c, 1 + i) >= 1
    BY <1>7, <1>8, <2>2, <2>3
  <2>5. PICK k : k = 1 + n
    OBVIOUS
  <2>6. k \in Nat /\ n \in 0 .. n /\ k = one + n /\ k + 1 = n + 2
    BY <1>3, <1>8, <2>5
  <2>7. Depth(c, k) = 1
    BY <1>1, <1>7, <1>8, <2>2, <2>6 DEF Balanced
  <2>8. Depth(c, k + 1) = Depth(c, k) + Turn(c[k + 1])
    BY <2>6, DepthStep
  <2>9. Depth(c, n + 2) = 0
    <3>1. c[k + 1].sym = ")"
      BY <1>6, <2>6
    <3>2. Turn(c[k + 1]) = -1
      BY <3>1 DEF Turn
    <3>3. PICK before, after : before = Depth(c, k) /\ after = Depth(c, k + 1)
      OBVIOUS
    <3>4. PICK turn : turn = Turn(c[k + 1])
      OBVIOUS
    <3>5. before = 1 /\ turn = -1 /\ after = before + turn
      BY <2>7, <2>8, <3>2, <3>3, <3>4
    <3>6. after = 0
      BY <3>5
    <3> QED BY <2>6, <3>3, <3>6
  <2> QED BY <2>4, <2>9
<1>10. \A i \in 1 .. n + 1 : Depth(c, i) > 0
  <2> TAKE i \in 1 .. n + 1
  <2>1. i - 1 \in 0 .. n /\ 1 + (i - 1) = i /\ i \in Nat
    BY <1>3
  <2>2. Depth(c, i) >= 1 /\ Depth(c, i) \in Int
    BY <1>9, <2>1, DepthStep
  <2> QED BY <2>2
<1>11. Balanced(c)
  <2>1. \A i \in 0 .. n + 2 : i = 0 \/ i \in 1 .. n + 1 \/ i = n + 2
    BY <1>3
  <2>2. \A i \in 0 .. n + 2 : Depth(c, i) \in Int
    BY DepthStep
  <2>3. \A i \in 0 .. n + 2 : Depth(c, i) >= 0
    BY <1>7, <1>9, <1>10, <2>1, <2>2
  <2> QED BY <1>6, <1>9, <2>3 DEF Balanced
<1>12. ASSUME NEW w \in {"OR", "AND"} PROVE Cuts(c, w) = {}
  <2>1. \A i \in 1 .. n + 2 : i \in 1 .. n + 1 \/ i = n + 2
    BY <1>3
  <2>2. c[n + 2].sym # w
    BY <1>6
  <2>3. \A i \in 1 .. n + 1 : Depth(c, i) # 0
    BY <1>10
  <2> QED BY <1>6, <2>1, <2>2, <2>3 DEF Cuts
<1>13. Enclosed(c)
  BY <1>3, <1>6, <1>10 DEF Enclosed
<1>14. SubSeq(c, 2, Len(c) - 1) = t
  <2>1. SubSeq(c, 2, n + 1) = [i \in 1 .. n |-> c[1 + i]]
    BY <1>3, <1>6 DEF IsSeq
  <2>2. t = [i \in 1 .. n |-> t[i]]
    BY <1>1, <1>3, LenProperties DEF IsSeq
  <2>3. [i \in 1 .. n |-> c[1 + i]] = [i \in 1 .. n |-> t[i]]
    BY <1>6
  <2> QED BY <1>3, <1>6, <2>1, <2>2, <2>3
<1> QED BY <1>6, <1>11, <1>12, <1>13, <1>14

(***************************************************************************)
(* What a text evaluates to, from what its parts do.                       *)
(***************************************************************************)
LEMMA MaxIs ==
  ASSUME NEW n \in Nat, NEW C, C \subseteq 1 .. n, C # {}
  PROVE  Max(C) \in C /\ \A y \in C : Max(C) >= y
<1> DEFINE T == {n - y : y \in C}
<1>1. T \subseteq Nat /\ T # {}
  OBVIOUS
<1>2. PICK x \in T : \A y \in T : x <= y
  BY <1>1, Least
<1>3. PICK z \in C : x = n - z
  BY <1>2
<1>4. \A y \in C : z >= y
  <2> TAKE y \in C
  <2>1. n - y \in T /\ y \in Nat /\ z \in Nat
    OBVIOUS
  <2>2. n - z <= n - y
    BY <1>2, <1>3, <2>1
  <2> QED BY <2>1, <2>2
<1>5. \E w \in C : \A y \in C : w >= y
  BY <1>3, <1>4
<1> QED BY <1>5 DEF Max

LEMMA LastCut ==
  ASSUME NEW s, IsSeq(s), NEW w, Cuts(s, w) # {}
  PROVE  /\ Max(Cuts(s, w)) \in Cuts(s, w) /\ Max(Cuts(s, w)) \in 1 .. Len(s)
         /\ \A i \in Cuts(s, w) : Max(Cuts(s, w)) >= i
<1>1. Len(s) \in Nat /\ DOMAIN s = 1 .. Len(s)
  BY IsSeqLen
<1>2. Cuts(s, w) \subseteq 1 .. Len(s)
  BY <1>1 DEF Cuts
<1>3. PICK n : n = Len(s)
  OBVIOUS
<1>4. PICK C : C = Cuts(s, w)
  OBVIOUS
<1>5. Max(C) \in C /\ \A y \in C : Max(C) >= y
  BY <1>1, <1>2, <1>3, <1>4, MaxIs
<1> QED BY <1>2, <1>4, <1>5

\* The texts that the value of a text is made of.
Pieces(t) ==
  IF t = <<>> THEN {}
  ELSE IF Cuts(t, "OR") # {} THEN {Before(t, "OR"), After(t, "OR")}
  ELSE IF Cuts(t, "AND") # {} THEN {Before(t, "AND"), After(t, "AND")}
  ELSE IF t[1].sym = "NOT" THEN {Tail(t)}
  ELSE IF Enclosed(t) THEN {SubSeq(t, 2, Len(t) - 1)}
  ELSE {}

\* The value of a text, from those of its pieces.
Parsed(t, row, value) ==
  IF t = <<>> THEN "error"
  ELSE IF Cuts(t, "OR") # {} THEN Or3({value[Before(t, "OR")], value[After(t, "OR")]})
  ELSE IF Cuts(t, "AND") # {} THEN And3({value[Before(t, "AND")], value[After(t, "AND")]})
  ELSE IF t[1].sym = "NOT" THEN Not3(value[Tail(t)])
  ELSE IF Enclosed(t) THEN value[SubSeq(t, 2, Len(t) - 1)]
  ELSE IF Len(t) = 1 /\ t[1].col \in DOMAIN row
  THEN Test(t[1].sym, t[1].lit, t[1].a, row[t[1].col])
  ELSE "error"

Truth == {"T", "F", "U", "error"}

LEMMA SubSeqIn ==
  ASSUME NEW S, NEW s \in Seq(S), NEW a \in Nat, NEW b \in Nat, a >= 1, b <= Len(s)
  PROVE  /\ SubSeq(s, a, b) \in Seq(S)
         /\ Len(SubSeq(s, a, b)) = IF a <= b THEN b - a + 1 ELSE 0
         /\ \A i \in 1 .. b - a + 1 : SubSeq(s, a, b)[i] = s[a + i - 1]
<1>1. Len(s) \in Nat /\ \A i \in 1 .. Len(s) : s[i] \in S
  BY ElementOfSeq, LenProperties
<1>2. \A i \in a .. b : s[i] \in S
  BY <1>1
<1> QED BY <1>2, SubSeqProperties

LEMMA PiecesAreSmaller ==
  ASSUME NEW S, NEW t \in Seq(S), NEW p \in Pieces(t)
  PROVE  p \in Seq(S) /\ Len(p) \in Nat /\ Len(p) < Len(t)
<1>1. IsSeq(t) /\ Len(t) \in Nat /\ t # <<>>
  BY IsSeqIntro, LenProperties DEF Pieces
<1>2. PICK n : n = Len(t)
  OBVIOUS
<1>3. n \in Nat /\ n # 0
  BY <1>1, <1>2, IsSeqLen
<1>4. ASSUME NEW w, Cuts(t, w) # {}, p \in {Before(t, w), After(t, w)}
      PROVE  p \in Seq(S) /\ Len(p) \in Nat /\ Len(p) < n
  <2>1. PICK m : m = Max(Cuts(t, w))
    OBVIOUS
  <2>2. m \in 1 .. n
    BY <1>1, <1>2, <1>4, <2>1, LastCut
  <2>3. CASE p = Before(t, w)
    <3>1. PICK b : b = m - 1
      OBVIOUS
    <3>2. b \in Nat /\ b <= n
      BY <1>3, <2>2, <3>1
    <3>3. p = SubSeq(t, 1, b)
      BY <2>1, <2>3, <3>1 DEF Before
    <3>4. p \in Seq(S) /\ Len(p) = IF 1 <= b THEN b - 1 + 1 ELSE 0
      <4>1. PICK one : one = 1
        OBVIOUS
      <4>2. one \in Nat /\ one >= 1 /\ p = SubSeq(t, one, b)
        BY <3>3, <4>1
      <4>3. p \in Seq(S) /\ Len(p) = IF one <= b THEN b - one + 1 ELSE 0
        BY <1>2, <3>2, <4>2, SubSeqIn
      <4> QED BY <4>1, <4>3
    <3> QED BY <1>3, <2>2, <3>1, <3>2, <3>4
  <2>4. CASE p = After(t, w)
    <3>1. PICK a : a = m + 1
      OBVIOUS
    <3>2. a \in Nat /\ a >= 1
      BY <2>2, <3>1
    <3>3. p = SubSeq(t, a, n)
      BY <1>2, <2>1, <2>4, <3>1 DEF After
    <3>4. p \in Seq(S) /\ Len(p) = IF a <= n THEN n - a + 1 ELSE 0
      BY <1>2, <1>3, <3>2, <3>3, SubSeqIn
    <3> QED BY <1>3, <2>2, <3>1, <3>4
  <2> QED BY <1>4, <2>3, <2>4
<1>5. CASE p = Tail(t)
  <2>1. Tail(t) \in Seq(S) /\ Len(Tail(t)) = Len(t) - 1
    BY <1>1, HeadTailProperties
  <2> QED BY <1>1, <1>2, <1>3, <1>5, <2>1
<1>6. CASE p = SubSeq(t, 2, Len(t) - 1)
  <2>1. PICK b : b = n - 1
    OBVIOUS
  <2>2. b \in Nat /\ b <= n
    BY <1>3, <2>1
  <2>3. PICK two : two = 2
    OBVIOUS
  <2>4. two \in Nat /\ two >= 1
    BY <2>3
  <2>5. p = SubSeq(t, two, b)
    BY <1>2, <1>6, <2>1, <2>3
  <2>6. p \in Seq(S) /\ Len(p) = IF two <= b THEN b - two + 1 ELSE 0
    BY <1>2, <2>2, <2>4, <2>5, SubSeqIn
  <2> QED BY <1>2, <1>3, <2>1, <2>3, <2>6
<1>7. \/ \E w : Cuts(t, w) # {} /\ p \in {Before(t, w), After(t, w)}
      \/ p = Tail(t) \/ p = SubSeq(t, 2, Len(t) - 1)
  BY DEF Pieces
<1> QED BY <1>2, <1>4, <1>5, <1>6, <1>7

LEMMA HoldsTruth == \A b : Holds(b) \in {"T", "F"}
BY DEF Holds

LEMMA TestTruth == \A sym, lit, a, cell : Test(sym, lit, a, cell) \in Truth
<1> TAKE sym, lit, a, cell
<1>1. OverScalar(sym, lit, a, cell) \in Truth
  <2> DEFINE b1 == CompareTo(sym, cell[2], Cast(cell, a[1]))
             b2 == (sym = "IN") = (\E i \in DOMAIN a : Cast(cell, a[i]) = cell[2])
  <2>1. CASE sym \in {"=", "!=", ">", ">=", "<", "<="}
    BY <2>1, HoldsTruth DEF OverScalar, Truth
  <2>2. CASE sym \in {"IN", "NOT IN"}
    BY <2>2, HoldsTruth DEF OverScalar, Truth
  <2>3. CASE sym \in {"= ANY", "IN json_each", "<> ALL", "NOT IN json_each"}
    BY <2>3, HoldsTruth DEF OverScalar, Truth
  <2>4. CASE sym = "BETWEEN"
    BY <2>4, HoldsTruth DEF OverScalar, Truth
  <2>5. CASE sym = "BETWEEN now"
    BY <2>5, HoldsTruth DEF OverScalar, Truth
  <2>6. CASE sym \in {"ILIKE", "LIKE ESCAPE"}
    BY <2>6, HoldsTruth DEF OverScalar, Truth
  <2>7. CASE sym = "LOWER LIKE"
    BY <2>7, HoldsTruth DEF OverScalar, Truth
  <2>8. CASE sym \notin {"=", "!=", ">", ">=", "<", "<=", "IN", "NOT IN", "= ANY", "IN json_each",
                         "<> ALL", "NOT IN json_each", "BETWEEN", "BETWEEN now", "ILIKE", "LIKE ESCAPE", "LOWER LIKE"}
    BY <2>8 DEF OverScalar, Truth
  <2> QED BY <2>1, <2>2, <2>3, <2>4, <2>5, <2>6, <2>7, <2>8
<1>2. OverMap(sym, cell[2], a) \in Truth
  <2>1. CASE sym \in {"?", "mapContains", "EXISTS key", "JSON_CONTAINS_PATH"}
    BY <2>1, HoldsTruth DEF OverMap, Truth
  <2>2. CASE sym = "?&"
    BY <2>2, HoldsTruth DEF OverMap, Truth
  <2>3. CASE sym \in {"->> =", "JSON_EXTRACT ="}
    BY <2>3, HoldsTruth DEF OverMap, Truth
  <2>4. CASE sym \in {"[] =", "EXISTS key value"}
    BY <2>4, HoldsTruth DEF OverMap, Truth
  <2>5. CASE sym \notin {"?", "mapContains", "EXISTS key", "JSON_CONTAINS_PATH", "?&", "->> =", "JSON_EXTRACT =",
                         "[] =", "EXISTS key value"}
    BY <2>5 DEF OverMap, Truth
  <2> QED BY <2>1, <2>2, <2>3, <2>4, <2>5
<1> QED BY <1>1, <1>2, HoldsTruth DEF Test, Truth

LEMMA AlgebraTruth ==
  /\ \A S : And3(S) \in Truth
  /\ \A S : Or3(S) \in Truth
  /\ \A v \in Truth : Not3(v) \in Truth
BY DEF And3, Or3, Not3, Truth

\* v is the function that Evaluate defines, on the texts over S.
Parses(v, S, row) ==
  DOMAIN v = Seq(S) /\ v = [t \in Seq(S) |-> Parsed(t, row, v)]

LEMMA ParsedReads ==
  ASSUME NEW row, NEW t, NEW v, NEW w, \A p \in Pieces(t) : v[p] = w[p]
  PROVE  Parsed(t, row, v) = Parsed(t, row, w)
<1>1. CASE t = <<>> BY <1>1 DEF Parsed
<1>2. CASE t # <<>> /\ Cuts(t, "OR") # {}
  <2>1. v[Before(t, "OR")] = w[Before(t, "OR")] /\ v[After(t, "OR")] = w[After(t, "OR")]
    BY <1>2 DEF Pieces
  <2> QED BY <1>2, <2>1 DEF Parsed
<1>3. CASE t # <<>> /\ Cuts(t, "OR") = {} /\ Cuts(t, "AND") # {}
  <2>1. v[Before(t, "AND")] = w[Before(t, "AND")] /\ v[After(t, "AND")] = w[After(t, "AND")]
    BY <1>3 DEF Pieces
  <2> QED BY <1>3, <2>1 DEF Parsed
<1>4. CASE t # <<>> /\ Cuts(t, "OR") = {} /\ Cuts(t, "AND") = {}
  BY <1>4 DEF Parsed, Pieces
<1> QED BY <1>1, <1>2, <1>3, <1>4

LEMMA ParsesExists ==
  ASSUME NEW row, NEW S
  PROVE  \E v : Parses(v, S, row) /\ v \in [Seq(S) -> Truth]
<1> DEFINE D == Seq(S)
           kids == [t \in D |-> Pieces(t)]
           height == [t \in D |-> Len(t)]
           step == [t \in D |-> [r \in [kids[t] -> Truth] |-> Parsed(t, row, r)]]
<1>1. \A t \in D : kids[t] = Pieces(t) /\ height[t] = Len(t)
  OBVIOUS
<1>2. \A t \in D : Len(t) \in Nat /\ Pieces(t) \subseteq D /\ \A p \in Pieces(t) : Len(p) < Len(t)
  BY PiecesAreSmaller, LenProperties
<1>3. FallsIn(D, kids, height)
  <2> HIDE DEF kids, height, D
  <2> QED BY <1>1, <1>2 DEF FallsIn
<1>4. \A t \in D : \A r \in [kids[t] -> Truth] : step[t][r] = Parsed(t, row, r)
  OBVIOUS
<1> HIDE DEF D, kids, height, step
<1>5. \A t \in D : \A r \in [kids[t] -> Truth] : Parsed(t, row, r) \in Truth
  <2> TAKE t \in D
  <2> TAKE r \in [kids[t] -> Truth]
  <2>1. \A p \in Pieces(t) : r[p] \in Truth
    BY <1>1
  <2>2. CASE Cuts(t, "OR") # {} \/ Cuts(t, "AND") # {} \/ t = <<>>
    BY <2>2, AlgebraTruth DEF Parsed, Truth
  <2>3. CASE Cuts(t, "OR") = {} /\ Cuts(t, "AND") = {} /\ t # <<>> /\ t[1].sym = "NOT"
    <3>1. r[Tail(t)] \in Truth
      BY <2>1, <2>3 DEF Pieces
    <3> QED BY <2>3, <3>1, AlgebraTruth DEF Parsed
  <2>4. CASE Cuts(t, "OR") = {} /\ Cuts(t, "AND") = {} /\ t # <<>> /\ t[1].sym # "NOT" /\ Enclosed(t)
    <3>1. r[SubSeq(t, 2, Len(t) - 1)] \in Truth
      BY <2>1, <2>4 DEF Pieces
    <3> QED BY <2>4, <3>1 DEF Parsed
  <2>5. CASE Cuts(t, "OR") = {} /\ Cuts(t, "AND") = {} /\ t # <<>> /\ t[1].sym # "NOT" /\ ~Enclosed(t)
    <3>1. "error" \in Truth
      BY DEF Truth
    <3> QED BY <2>5, <3>1, TestTruth DEF Parsed
  <2> QED BY <2>2, <2>3, <2>4, <2>5
<1>6. \A t \in D : \A r \in [kids[t] -> Truth] : step[t][r] \in Truth
  BY <1>4, <1>5
<1>7. PICK g : Computes(g, D, kids, step)
  BY <1>3, TreeRecursion
<1>8. g \in [D -> Truth]
  BY <1>3, <1>6, <1>7, RecursionType
<1>9. \A c \in D : [k \in kids[c] |-> g[k]] \in [kids[c] -> Truth]
  BY <1>3, <1>8 DEF FallsIn
<1>13. \A c \in D : g[c] = step[c][[k \in kids[c] |-> g[k]]]
  BY <1>7 DEF Computes
<1>10. ASSUME NEW c \in D PROVE g[c] = Parsed(c, row, g)
  <2>1. PICK r : r = [k \in kids[c] |-> g[k]]
    OBVIOUS
  <2>2. r \in [kids[c] -> Truth] /\ g[c] = step[c][r]
    BY <1>9, <1>13, <2>1
  <2>3. g[c] = Parsed(c, row, r)
    BY <1>4, <2>2
  <2>4. \A p \in Pieces(c) : r[p] = g[p]
    BY <1>1, <2>1
  <2> QED BY <2>3, <2>4, ParsedReads
<1>11. DOMAIN g = D /\ g = [c \in D |-> g[c]]
  BY <1>8
<1>12. [c \in D |-> g[c]] = [c \in D |-> Parsed(c, row, g)]
  BY <1>10
<1> QED BY <1>8, <1>11, <1>12 DEF Parses, D

\* The choice of what a text may be made of does not show.
LEMMA ParsesAgree ==
  ASSUME NEW row, NEW S, NEW R, R \subseteq S, NEW v, Parses(v, S, row), NEW w, Parses(w, R, row)
  PROVE  \A t \in Seq(R) : v[t] = w[t]
<1> DEFINE Bad == {Len(t) : t \in {t \in Seq(R) : v[t] # w[t]}}
<1>1. SUFFICES ASSUME Bad # {} PROVE FALSE
  OBVIOUS
<1>2. Bad \subseteq Nat
  BY LenProperties
<1>3. PICK n \in Bad : \A m \in Bad : n <= m
  BY <1>1, <1>2, Least
<1>4. PICK t \in Seq(R) : n = Len(t) /\ v[t] # w[t]
  BY <1>3
<1>5. t \in Seq(S)
  BY SeqMonotonic
<1>6. v[t] = Parsed(t, row, v) /\ w[t] = Parsed(t, row, w)
  BY <1>5 DEF Parses
<1>7. ASSUME NEW p \in Pieces(t) PROVE v[p] = w[p]
  <2>1. p \in Seq(R) /\ Len(p) \in Nat /\ Len(p) < n /\ n \in Nat
    BY <1>2, <1>4, PiecesAreSmaller
  <2>2. Len(p) \notin Bad
    BY <1>3, <2>1
  <2> QED BY <2>1, <2>2
<1> QED BY <1>4, <1>6, <1>7, ParsedReads

LEMMA EvaluateParses ==
  ASSUME NEW row, NEW s
  PROVE  \E v : Parses(v, ToSet(s), row) /\ v \in [Seq(ToSet(s)) -> Truth] /\ Evaluate(s, row) = v[s]
<1>1. Evaluate(s, row) = (CHOOSE v : v = [t \in Seq(ToSet(s)) |-> Parsed(t, row, v)])[s]
  BY DEF Evaluate, Parsed
<1>2. PICK S : S = ToSet(s)
  OBVIOUS
<1>3. \E v : v = [t \in Seq(S) |-> Parsed(t, row, v)]
  <2>1. PICK v : Parses(v, S, row)
    BY ParsesExists
  <2> QED BY <2>1 DEF Parses
<1>4. PICK v : v = (CHOOSE f : f = [t \in Seq(S) |-> Parsed(t, row, f)])
  OBVIOUS
<1>5. v = [t \in Seq(S) |-> Parsed(t, row, v)]
  BY <1>3, <1>4
<1>6. Parses(v, S, row)
  BY <1>5 DEF Parses
<1>7. PICK w : Parses(w, S, row) /\ w \in [Seq(S) -> Truth]
  BY ParsesExists
<1>8. \A t \in Seq(S) : v[t] = w[t]
  BY <1>6, <1>7, ParsesAgree
<1>9. v \in [Seq(S) -> Truth]
  BY <1>6, <1>7, <1>8 DEF Parses
<1> QED BY <1>1, <1>2, <1>4, <1>6, <1>9

LEMMA EvaluateIs ==
  ASSUME NEW s, IsSeq(s), NEW row
  PROVE  /\ Evaluate(s, row) \in Truth
         /\ \E v : Evaluate(s, row) = Parsed(s, row, v) /\ \A p \in Pieces(s) : v[p] = Evaluate(p, row)
<1>1. PICK S : S = ToSet(s)
  OBVIOUS
<1>2. s \in Seq(S)
  BY <1>1 DEF IsSeq, ToSet
<1>3. PICK v : Parses(v, S, row) /\ v \in [Seq(S) -> Truth] /\ Evaluate(s, row) = v[s]
  BY <1>1, EvaluateParses
<1>4. Evaluate(s, row) \in Truth
  BY <1>2, <1>3
<1>5. v[s] = Parsed(s, row, v)
  BY <1>2, <1>3 DEF Parses
<1>6. ASSUME NEW p \in Pieces(s) PROVE v[p] = Evaluate(p, row)
  <2>1. p \in Seq(S)
    BY <1>2, PiecesAreSmaller
  <2>2. PICK R : R = ToSet(p)
    OBVIOUS
  <2>3. R \subseteq S /\ p \in Seq(R)
    <3>1. IsSeq(p)
      BY <2>1, IsSeqIntro
    <3>2. R \subseteq S
      <4>1. \A i \in DOMAIN p : p[i] \in S
        BY <2>1, ElementOfSeq, LenProperties
      <4> QED BY <2>2, <4>1 DEF ToSet
    <3> QED BY <2>2, <3>1, <3>2 DEF IsSeq, ToSet
  <2>4. PICK w : Parses(w, R, row) /\ Evaluate(p, row) = w[p]
    BY <2>2, EvaluateParses
  <2> QED BY <1>3, <2>3, <2>4, ParsesAgree
<1> QED BY <1>3, <1>4, <1>5, <1>6

(***************************************************************************)
(* Truth values under AND and OR.                                          *)
(***************************************************************************)
LEMMA And3Values ==
  ASSUME NEW S
  PROVE  /\ And3(S) = "error" <=> "error" \in S
         /\ And3(S) = "F" <=> "error" \notin S /\ "F" \in S
         /\ And3(S) = "U" <=> "error" \notin S /\ "F" \notin S /\ "U" \in S
         /\ And3(S) = "T" <=> "error" \notin S /\ "F" \notin S /\ "U" \notin S
BY DEF And3

LEMMA Or3Values ==
  ASSUME NEW S
  PROVE  /\ Or3(S) = "error" <=> "error" \in S
         /\ Or3(S) = "T" <=> "error" \notin S /\ "T" \in S
         /\ Or3(S) = "U" <=> "error" \notin S /\ "T" \notin S /\ "U" \in S
         /\ Or3(S) = "F" <=> "error" \notin S /\ "T" \notin S /\ "U" \notin S
BY DEF Or3

LEMMA And3Flat ==
  ASSUME NEW S, NEW R
  PROVE  And3(S \cup {And3(R)}) = And3(S \cup R)
<1>1. PICK r : r = And3(R)
  OBVIOUS
<1>2. PICK a : a = And3(S \cup {r})
  OBVIOUS
<1>3. PICK b : b = And3(S \cup R)
  OBVIOUS
<1>4. /\ r \in Truth
      /\ (r = "error") <=> "error" \in R
      /\ (r = "F") <=> "error" \notin R /\ "F" \in R
      /\ (r = "U") <=> "error" \notin R /\ "F" \notin R /\ "U" \in R
      /\ (r = "T") <=> "error" \notin R /\ "F" \notin R /\ "U" \notin R
  BY <1>1, And3Values, AlgebraTruth
<1>5. /\ a \in Truth
      /\ (a = "error") <=> "error" \in S \/ r = "error"
      /\ (a = "F") <=> ("error" \notin S /\ r # "error") /\ ("F" \in S \/ r = "F")
      /\ (a = "U") <=> ("error" \notin S /\ r # "error") /\ ("F" \notin S /\ r # "F") /\ ("U" \in S \/ r = "U")
  BY <1>2, AlgebraTruth DEF And3
<1>6. /\ b \in Truth
      /\ (b = "error") <=> "error" \in S \/ "error" \in R
      /\ (b = "F") <=> ("error" \notin S /\ "error" \notin R) /\ ("F" \in S \/ "F" \in R)
      /\ (b = "U") <=> ("error" \notin S /\ "error" \notin R) /\ ("F" \notin S /\ "F" \notin R) /\ ("U" \in S \/ "U" \in R)
  BY <1>3, AlgebraTruth DEF And3
<1>7. a = b
  BY <1>4, <1>5, <1>6 DEF Truth
<1> QED BY <1>1, <1>2, <1>3, <1>7

LEMMA Or3Flat ==
  ASSUME NEW S, NEW R
  PROVE  Or3(S \cup {Or3(R)}) = Or3(S \cup R)
<1>1. PICK r : r = Or3(R)
  OBVIOUS
<1>2. PICK a : a = Or3(S \cup {r})
  OBVIOUS
<1>3. PICK b : b = Or3(S \cup R)
  OBVIOUS
<1>4. /\ r \in Truth
      /\ (r = "error") <=> "error" \in R
      /\ (r = "T") <=> "error" \notin R /\ "T" \in R
      /\ (r = "U") <=> "error" \notin R /\ "T" \notin R /\ "U" \in R
      /\ (r = "F") <=> "error" \notin R /\ "T" \notin R /\ "U" \notin R
  BY <1>1, Or3Values, AlgebraTruth
<1>5. /\ a \in Truth
      /\ (a = "error") <=> "error" \in S \/ r = "error"
      /\ (a = "T") <=> ("error" \notin S /\ r # "error") /\ ("T" \in S \/ r = "T")
      /\ (a = "U") <=> ("error" \notin S /\ r # "error") /\ ("T" \notin S /\ r # "T") /\ ("U" \in S \/ r = "U")
  BY <1>2, AlgebraTruth DEF Or3
<1>6. /\ b \in Truth
      /\ (b = "error") <=> "error" \in S \/ "error" \in R
      /\ (b = "T") <=> ("error" \notin S /\ "error" \notin R) /\ ("T" \in S \/ "T" \in R)
      /\ (b = "U") <=> ("error" \notin S /\ "error" \notin R) /\ ("T" \notin S /\ "T" \notin R) /\ ("U" \in S \/ "U" \in R)
  BY <1>3, AlgebraTruth DEF Or3
<1>7. a = b
  BY <1>4, <1>5, <1>6 DEF Truth
<1> QED BY <1>1, <1>2, <1>3, <1>7

LEMMA OfOne == ASSUME NEW v \in Truth PROVE And3({v}) = v /\ Or3({v}) = v
BY DEF And3, Or3, Truth

And2(u, v) == And3({u, v})
Or2(u, v) == Or3({u, v})

LEMMA And2Assoc ==
  ASSUME NEW u, NEW v, NEW w
  PROVE  And2(And2(u, v), w) = And2(u, And2(v, w))
<1>1. {And3({u, v}), w} = {w} \cup {And3({u, v})} /\ {u, And3({v, w})} = {u} \cup {And3({v, w})}
  OBVIOUS
<1>2. {w} \cup {u, v} = {u} \cup {v, w}
  OBVIOUS
<1>3. And3({w} \cup {And3({u, v})}) = And3({w} \cup {u, v})
  BY And3Flat
<1>4. And3({u} \cup {And3({v, w})}) = And3({u} \cup {v, w})
  BY And3Flat
<1> QED BY <1>1, <1>2, <1>3, <1>4 DEF And2

(***************************************************************************)
(* Texts joined by a connective.                                           *)
(***************************************************************************)
LEMMA PrefixOf ==
  ASSUME NEW s, NEW t, IsSeq(s), IsSeq(t)
  PROVE  SubSeq(s \o t, 1, Len(s)) = s
<1>0. PICK c : c = s \o t
  OBVIOUS
<1>1. PICK m : m = Len(s)
  OBVIOUS
<1>2. PICK n : n = Len(t)
  OBVIOUS
<1>3. /\ IsSeq(c) /\ m \in Nat /\ n \in Nat /\ Len(c) = m + n
      /\ \A i \in 1 .. m : c[i] = s[i]
      /\ \A i \in 1 .. n : c[m + i] = t[i]
  BY <1>0, <1>1, <1>2, IsSeqConcat, IsSeqLen
<1>4. SubSeq(c, 1, m) = s
  <2>1. m <= Len(c)
    BY <1>3
  <2>2. /\ IsSeq(SubSeq(c, 1, m)) /\ Len(SubSeq(c, 1, m)) = m
        /\ \A i \in 1 .. m : SubSeq(c, 1, m)[i] = c[i]
    BY <1>3, <2>1, IsSeqPrefix
  <2>3. \A i \in 1 .. m : SubSeq(c, 1, m)[i] = s[i]
    BY <1>3, <2>2
  <2>4. PICK p : p = SubSeq(c, 1, m)
    OBVIOUS
  <2>5. IsSeq(p) /\ Len(p) = Len(s) /\ \A i \in 1 .. Len(p) : p[i] = s[i]
    BY <1>1, <2>2, <2>3, <2>4
  <2> QED BY <2>4, <2>5, IsSeqEqual
<1> QED BY <1>0, <1>1, <1>4

LEMMA SuffixOf ==
  ASSUME NEW s, NEW t, IsSeq(s), IsSeq(t)
  PROVE  SubSeq(s \o t, Len(s) + 1, Len(s \o t)) = t
<1>0. PICK c : c = s \o t
  OBVIOUS
<1>1. PICK m : m = Len(s)
  OBVIOUS
<1>2. PICK n : n = Len(t)
  OBVIOUS
<1>3. /\ IsSeq(c) /\ m \in Nat /\ n \in Nat /\ Len(c) = m + n
      /\ \A i \in 1 .. m : c[i] = s[i]
      /\ \A i \in 1 .. n : c[m + i] = t[i]
  BY <1>0, <1>1, <1>2, IsSeqConcat, IsSeqLen
<1>5. SubSeq(c, m + 1, m + n) = t
  <2>1. PICK R : c \in Seq(R)
    BY <1>3 DEF IsSeq
  <2>2. PICK a : a = m + 1
    OBVIOUS
  <2>3. PICK b : b = m + n
    OBVIOUS
  <2>4. PICK p : p = SubSeq(c, a, b)
    OBVIOUS
  <2>5. /\ a \in Nat /\ b \in Nat /\ a >= 1 /\ b <= Len(c)
    BY <1>3, <2>2, <2>3
  <2>6. /\ p \in Seq(R) /\ Len(p) = IF a <= b THEN b - a + 1 ELSE 0
        /\ \A i \in 1 .. b - a + 1 : p[i] = c[a + i - 1]
    BY <2>1, <2>4, <2>5, SubSeqIn
  <2>7. Len(p) = n
    BY <1>3, <2>2, <2>3, <2>6
  <2>8. \A i \in 1 .. n : i \in 1 .. b - a + 1 /\ a + i - 1 = m + i
    BY <1>3, <2>2, <2>3
  <2>9. \A i \in 1 .. n : p[i] = t[i]
    BY <1>3, <2>6, <2>8
  <2>10. IsSeq(p)
    BY <2>6, IsSeqIntro
  <2>11. p = t
    BY <1>2, <2>7, <2>9, <2>10, IsSeqEqual
  <2> QED BY <2>2, <2>3, <2>4, <2>11
<1> QED BY <1>0, <1>1, <1>3, <1>5

LEMMA ConcatAssoc ==
  ASSUME NEW r, NEW s, NEW t, IsSeq(r), IsSeq(s), IsSeq(t)
  PROVE  (r \o s) \o t = r \o (s \o t)
<1> DEFINE R == {r[i] : i \in DOMAIN r} \cup {s[i] : i \in DOMAIN s} \cup {t[i] : i \in DOMAIN t}
<1>1. r \in Seq(R) /\ s \in Seq(R) /\ t \in Seq(R)
  BY SeqMonotonic DEF IsSeq
<1> HIDE DEF R
<1> QED BY <1>1, ConcatAssociative

\* Two texts with a token between.
Link(s, x, t) == s \o <<x>> \o t
Behind(s, x) == s \o <<x>>
Ahead(x, t) == <<x>> \o t

LEMMA LinkIs ==
  ASSUME NEW s, NEW t, IsSeq(s), IsSeq(t), NEW x
  PROVE  /\ Link(s, x, t) = Behind(s, x) \o t /\ Link(s, x, t) = s \o Ahead(x, t)
         /\ IsSeq(Behind(s, x)) /\ Len(Behind(s, x)) = Len(s) + 1 /\ IsSeq(Ahead(x, t))
<1>1. IsSeq(<<x>>) /\ Len(<<x>>) = 1
  BY IsSeqOne
<1>2. (s \o <<x>>) \o t = s \o (<<x>> \o t)
  BY <1>1, ConcatAssoc
<1>3. IsSeq(s \o <<x>>) /\ Len(s \o <<x>>) = Len(s) + 1 /\ IsSeq(<<x>> \o t)
  BY <1>1, IsSeqConcat
<1> QED BY <1>2, <1>3 DEF Link, Behind, Ahead

\* The cuts of two texts with a token between.
LEMMA JoinedBy ==
  ASSUME NEW s, NEW t, Balanced(s), Balanced(t), NEW x, x.sym \notin {"(", ")"}
  PROVE  Balanced(Link(s, x, t)) /\ Link(s, x, t) # <<>>
<1>1. PICK b : b = Behind(s, x)
  OBVIOUS
<1>2. PICK c : c = Link(s, x, t)
  OBVIOUS
<1>3. IsSeq(s) /\ IsSeq(t) /\ Len(s) \in Nat /\ Len(t) \in Nat
  BY IsSeqLen DEF Balanced
<1>4. IsSeq(b) /\ Len(b) = Len(s) + 1 /\ c = b \o t
  BY <1>1, <1>2, <1>3, LinkIs
<1>5. Balanced(<<x>>) /\ \A w : Cuts(<<x>>, w) = IF x.sym = w THEN {1} ELSE {}
  BY BalancedOne
<1>6. Balanced(b) /\ \A w : Cuts(b, w) = Cuts(s, w) \cup Shift(Len(s), Cuts(<<x>>, w))
  BY <1>1, <1>5, BalancedConcat DEF Behind
<1>7. Balanced(c) /\ \A w : Cuts(c, w) = Cuts(b, w) \cup Shift(Len(b), Cuts(t, w))
  BY <1>4, <1>6, BalancedConcat
<1>8. c # <<>>
  <2>1. Len(c) = Len(b) + Len(t)
    BY <1>3, <1>4, IsSeqConcat
  <2>2. Len(c) # 0 /\ IsSeq(c)
    BY <1>3, <1>4, <1>7, <2>1 DEF Balanced
  <2> QED BY <2>2, IsSeqLen
<1> QED BY <1>2, <1>7, <1>8

LEMMA JoinedCuts ==
  ASSUME NEW s, NEW t, Balanced(s), Balanced(t), NEW x, x.sym \notin {"(", ")"}, NEW w
  PROVE  Cuts(Link(s, x, t), w) =
           Cuts(s, w) \cup (IF x.sym = w THEN {Len(s) + 1} ELSE {}) \cup Shift(Len(s) + 1, Cuts(t, w))
<1>1. PICK b : b = Behind(s, x)
  OBVIOUS
<1>2. PICK c : c = Link(s, x, t)
  OBVIOUS
<1>3. IsSeq(s) /\ IsSeq(t) /\ Len(s) \in Nat /\ Len(t) \in Nat
  BY IsSeqLen DEF Balanced
<1>4. IsSeq(b) /\ Len(b) = Len(s) + 1 /\ c = b \o t
  BY <1>1, <1>2, <1>3, LinkIs
<1>5. Balanced(<<x>>) /\ \A v : Cuts(<<x>>, v) = IF x.sym = v THEN {1} ELSE {}
  BY BalancedOne
<1>6. Balanced(b) /\ \A v : Cuts(b, v) = Cuts(s, v) \cup Shift(Len(s), Cuts(<<x>>, v))
  BY <1>1, <1>5, BalancedConcat DEF Behind
<1>7. Balanced(c) /\ \A v : Cuts(c, v) = Cuts(b, v) \cup Shift(Len(b), Cuts(t, v))
  BY <1>4, <1>6, BalancedConcat
<1>9. Cuts(c, w) = Cuts(s, w) \cup (IF x.sym = w THEN {Len(s) + 1} ELSE {}) \cup Shift(Len(s) + 1, Cuts(t, w))
  <2>1. Cuts(<<x>>, w) = IF x.sym = w THEN {1} ELSE {}
    BY <1>5
  <2>2. Shift(Len(s), Cuts(<<x>>, w)) = IF x.sym = w THEN {Len(s) + 1} ELSE {}
    BY <1>3, <2>1, Shifts
  <2>3. Cuts(b, w) = Cuts(s, w) \cup (IF x.sym = w THEN {Len(s) + 1} ELSE {})
    BY <1>6, <2>2
  <2>4. Cuts(c, w) = Cuts(b, w) \cup Shift(Len(s) + 1, Cuts(t, w))
    BY <1>4, <1>7
  <2> QED BY <2>3, <2>4
<1> QED BY <1>2, <1>9

\* The last cut is the one behind all others.
LEMMA LastCutIs ==
  ASSUME NEW s, IsSeq(s), NEW w, NEW m \in Cuts(s, w), \A i \in Cuts(s, w) : m >= i
  PROVE  Max(Cuts(s, w)) = m
<1>1. Cuts(s, w) # {}
  OBVIOUS
<1>2. Max(Cuts(s, w)) \in Cuts(s, w) /\ Max(Cuts(s, w)) >= m
  BY <1>1, LastCut
<1>3. m >= Max(Cuts(s, w))
  BY <1>2
<1>4. \A i \in Cuts(s, w) : i \in Int
  BY IsSeqLen DEF Cuts
<1> QED BY <1>2, <1>3, <1>4

LEMMA SplitAt ==
  ASSUME NEW s, NEW t, Balanced(s), Balanced(t), NEW x, x.sym \notin {"(", ")"}, Cuts(t, x.sym) = {}
  PROVE  /\ Cuts(Link(s, x, t), x.sym) # {}
         /\ Before(Link(s, x, t), x.sym) = s /\ After(Link(s, x, t), x.sym) = t
<1>1. IsSeq(s) /\ IsSeq(t) /\ Len(s) \in Nat /\ Len(t) \in Nat /\ DOMAIN s = 1 .. Len(s)
  BY IsSeqLen DEF Balanced
<1>2. PICK w : w = x.sym
  OBVIOUS
<1>3. PICK c : c = Link(s, x, t)
  OBVIOUS
<1>4. PICK m : m = Len(s) + 1
  OBVIOUS
<1>5. Balanced(c) /\ Cuts(c, w) = Cuts(s, w) \cup {m} \cup Shift(m, Cuts(t, w))
  <2>1. Balanced(c)
    BY <1>3, JoinedBy
  <2>2. Cuts(c, w) = Cuts(s, w) \cup (IF x.sym = w THEN {Len(s) + 1} ELSE {}) \cup Shift(Len(s) + 1, Cuts(t, w))
    BY <1>3, JoinedCuts
  <2> QED BY <1>2, <1>4, <2>1, <2>2
<1>6. Cuts(c, w) = Cuts(s, w) \cup {m}
  <2>1. Shift(m, Cuts(t, w)) = {}
    BY <1>2 DEF Shift
  <2> QED BY <1>5, <2>1
<1>7. \A i \in Cuts(s, w) : i \in 1 .. Len(s)
  BY <1>1 DEF Cuts
<1>8. m \in Cuts(c, w) /\ \A i \in Cuts(c, w) : m >= i
  BY <1>1, <1>4, <1>6, <1>7
<1>9. IsSeq(c)
  BY <1>5 DEF Balanced
<1>10. Max(Cuts(c, w)) = m
  BY <1>8, <1>9, LastCutIs
<1>11. PICK b : b = Behind(s, x)
  OBVIOUS
<1>12. PICK d : d = Ahead(x, t)
  OBVIOUS
<1>13. IsSeq(b) /\ Len(b) = m /\ IsSeq(d)
  BY <1>1, <1>4, <1>11, <1>12, LinkIs
<1>17. c = b \o t
  BY <1>1, <1>3, <1>11, LinkIs
<1>18. c = s \o d
  BY <1>1, <1>3, <1>12, LinkIs
<1>14. SubSeq(c, m + 1, Len(c)) = t
  <2>1. SubSeq(c, Len(b) + 1, Len(c)) = t
    BY <1>1, <1>13, <1>17, SuffixOf
  <2> QED BY <1>13, <2>1
<1>15. SubSeq(c, 1, m - 1) = s
  <2>1. SubSeq(c, 1, Len(s)) = s
    BY <1>1, <1>13, <1>18, PrefixOf
  <2>2. m - 1 = Len(s)
    BY <1>1, <1>4
  <2> QED BY <2>1, <2>2
<1>16. Cuts(c, w) # {} /\ Before(c, w) = s /\ After(c, w) = t
  BY <1>8, <1>10, <1>14, <1>15 DEF Before, After
<1> QED BY <1>2, <1>3, <1>16

LEMMA LinkAssoc ==
  ASSUME NEW r, NEW s, NEW t, IsSeq(r), IsSeq(s), IsSeq(t), NEW x, NEW y
  PROVE  Link(r, x, Link(s, y, t)) = Link(Link(r, x, s), y, t)
<1>1. PICK a : a = Behind(r, x)
  OBVIOUS
<1>2. PICK b : b = Ahead(y, t)
  OBVIOUS
<1>3. IsSeq(a) /\ IsSeq(b) /\ Link(s, y, t) = s \o b /\ Link(r, x, s) = a \o s
  BY <1>1, <1>2, LinkIs
<1>4. IsSeq(s \o b) /\ IsSeq(a \o s)
  BY <1>3, IsSeqConcat
<1>5. PICK c : c = s \o b
  OBVIOUS
<1>6. PICK d : d = a \o s
  OBVIOUS
<1>7. Link(r, x, c) = a \o c
  BY <1>1, <1>4, <1>5, LinkIs, ZenonT(60)
<1>8. Link(d, y, t) = d \o b
  BY <1>2, <1>4, <1>6, LinkIs
<1>9. (a \o s) \o b = a \o (s \o b)
  BY <1>3, ConcatAssoc
<1> QED BY <1>3, <1>5, <1>6, <1>7, <1>8, <1>9

\* A text with a cut is two texts with the connective between.
LEMMA CutInTwo ==
  ASSUME NEW u, Balanced(u), NEW w, Cuts(u, w) # {}, w \notin {"(", ")"}
  PROVE  \E y, p, q : /\ u = Link(p, y, q) /\ y.sym = w /\ Balanced(p) /\ Balanced(q)
                      /\ Cuts(q, w) = {} /\ Len(p) < Len(u)
                      /\ p = Before(u, w) /\ q = After(u, w)
<1>1. PICK n : n = Len(u)
  OBVIOUS
<1>2. PICK m : m = Max(Cuts(u, w))
  OBVIOUS
<1>3. IsSeq(u) /\ n \in Nat /\ DOMAIN u = 1 .. n
  BY <1>1, IsSeqLen DEF Balanced
<1>4. m \in Cuts(u, w) /\ m \in 1 .. n /\ \A i \in Cuts(u, w) : m >= i
  BY <1>1, <1>2, <1>3, LastCut
<1>5. PICK k : k = m - 1
  OBVIOUS
<1>6. k \in Nat /\ k <= n /\ k < n /\ m = k + 1 /\ m \in Nat /\ n - m \in Nat
  BY <1>3, <1>4, <1>5
<1>7. PICK p : p = SubSeq(u, 1, k)
  OBVIOUS
<1>8. IsSeq(p) /\ Len(p) = k /\ \A i \in 1 .. k : p[i] = u[i]
  <2>1. k <= Len(u)
    BY <1>1, <1>6
  <2> QED BY <1>3, <1>6, <1>7, <2>1, IsSeqPrefix
<1>9. PICK q : q = SubSeq(u, m + 1, n)
  OBVIOUS
<1>10. PICK r : r = n - m
  OBVIOUS
<1>11. IsSeq(q) /\ Len(q) = r /\ \A i \in 1 .. r : q[i] = u[m + i]
  <2>1. PICK R : u \in Seq(R)
    BY <1>3 DEF IsSeq
  <2>2. PICK a : a = m + 1
    OBVIOUS
  <2>3. /\ a \in Nat /\ a >= 1 /\ n <= Len(u)
    BY <1>1, <1>3, <1>6, <2>2
  <2>4. /\ q \in Seq(R) /\ Len(q) = IF a <= n THEN n - a + 1 ELSE 0
        /\ \A i \in 1 .. n - a + 1 : q[i] = u[a + i - 1]
    BY <1>3, <1>9, <2>1, <2>2, <2>3, SubSeqIn
  <2>5. Len(q) = r
    BY <1>3, <1>6, <1>10, <2>2, <2>4
  <2>6. \A i \in 1 .. r : i \in 1 .. n - a + 1 /\ a + i - 1 = m + i
    BY <1>3, <1>6, <1>10, <2>2
  <2> QED BY <2>4, <2>5, <2>6, IsSeqIntro
<1>12. PICK y : y = u[m]
  OBVIOUS
<1>13. y.sym = w /\ Depth(u, m) = 0
  BY <1>4, <1>12 DEF Cuts
<1>14. r \in Nat /\ n = k + 1 + r
  BY <1>3, <1>6, <1>10
<1>15. u = Link(p, y, q)
  <2>1. PICK b : b = Behind(p, y)
    OBVIOUS
  <2>2. IsSeq(<<y>>) /\ Len(<<y>>) = 1 /\ <<y>>[1] = y
    BY IsSeqOne
  <2>3. /\ IsSeq(b) /\ Len(b) = Len(p) + 1 /\ \A i \in 1 .. Len(p) : b[i] = p[i]
        /\ \A i \in 1 .. 1 : b[Len(p) + i] = <<y>>[i]
    BY <1>8, <2>1, <2>2, IsSeqConcat DEF Behind
  <2>4. Len(b) = m /\ b[m] = y /\ \A i \in 1 .. k : b[i] = u[i]
    BY <1>6, <1>8, <2>2, <2>3
  <2>5. PICK c : c = b \o q
    OBVIOUS
  <2>6. /\ IsSeq(c) /\ Len(c) = m + r
        /\ \A i \in 1 .. m : c[i] = b[i]
        /\ \A i \in 1 .. r : c[m + i] = q[i]
    <3>1. IsSeq(b)
      BY <2>3
    <3>2. /\ IsSeq(c) /\ Len(c) = Len(b) + Len(q)
          /\ \A i \in 1 .. Len(b) : c[i] = b[i]
          /\ \A i \in 1 .. Len(q) : c[Len(b) + i] = q[i]
      BY <1>11, <2>5, <3>1, IsSeqConcat
    <3> QED BY <1>11, <2>4, <3>2
  <2>7. \A i \in 1 .. m : c[i] = u[i]
    <3> TAKE i \in 1 .. m
    <3>1. i \in 1 .. k \/ i = m
      BY <1>6
    <3> QED BY <1>12, <2>4, <2>6, <3>1
  <2>8. \A i \in 1 .. n : c[i] = u[i]
    <3> TAKE i \in 1 .. n
    <3>1. CASE i \in 1 .. m
      BY <2>7, <3>1
    <3>2. CASE i \notin 1 .. m
      <4>1. PICK j : j = i - m
        OBVIOUS
      <4>2. j \in 1 .. r /\ i = m + j
        BY <1>3, <1>6, <1>10, <3>2, <4>1
      <4> QED BY <1>11, <2>6, <4>2
    <3> QED BY <3>1, <3>2
  <2>9. Len(c) = Len(u)
    BY <1>1, <1>6, <1>14, <2>6
  <2>10. c = u
    BY <1>1, <1>3, <2>6, <2>8, <2>9, IsSeqEqual
  <2>11. c = Link(p, y, q)
    BY <1>8, <1>11, <2>1, <2>5, LinkIs
  <2> QED BY <2>10, <2>11
<1>16. PICK none : none = 0
  OBVIOUS
<1>17. \A i \in 0 .. k : Depth(u, i) = Depth(p, i)
  <2>1. Spells(u, none, p, k)
    BY <1>6, <1>8, <1>16 DEF Spells
  <2> TAKE i \in 0 .. k
  <2>2. none \in Nat
    BY <1>16
  <2>3. Depth(u, none + i) = Depth(u, none) + Depth(p, i)
    BY <1>6, <2>1, <2>2, DepthOfStretch
  <2>4. none + i = i /\ Depth(u, none) = 0 /\ Depth(p, i) \in Int
    BY <1>6, <1>16, DepthStep
  <2> QED BY <2>3, <2>4
<1>18. \A i \in 0 .. r : Depth(u, m + i) = Depth(q, i)
  <2>1. Spells(u, m, q, r)
    BY <1>11 DEF Spells
  <2> TAKE i \in 0 .. r
  <2>2. Depth(u, m + i) = Depth(u, m) + Depth(q, i)
    <3>1. m \in Nat /\ r \in Nat
      BY <1>6, <1>14
    <3> QED BY <2>1, <3>1, DepthOfStretch
  <2>3. Depth(q, i) \in Int
    BY DepthStep
  <2> QED BY <1>13, <2>2, <2>3
<1>19. \A i \in 0 .. n : Depth(u, i) >= 0
  BY <1>1 DEF Balanced
<1>20. Depth(u, n) = 0
  BY <1>1 DEF Balanced
<1>21. Balanced(p)
  <2>1. Depth(u, k) \in Int /\ Depth(u, k + 1) = Depth(u, k) + Turn(u[k + 1])
    BY <1>6, DepthStep
  <2>2. Turn(u[k + 1]) = 0
    BY <1>6, <1>12, <1>13 DEF Turn
  <2>3. Depth(u, k) = 0
    BY <1>6, <1>13, <2>1, <2>2
  <2>4. k \in 0 .. k /\ \A i \in 0 .. k : i \in 0 .. n
    BY <1>3, <1>6
  <2> QED BY <1>8, <1>17, <1>19, <2>3, <2>4 DEF Balanced
<1>22. Balanced(q)
  <2>1. r \in 0 .. r /\ m + r = n /\ \A i \in 0 .. r : m + i \in 0 .. n
    BY <1>3, <1>6, <1>10, <1>14
  <2>2. Depth(q, r) = 0
    BY <1>18, <1>20, <2>1
  <2> QED BY <1>11, <1>18, <1>19, <2>1, <2>2 DEF Balanced
<1>23. Cuts(q, w) = {}
  <2> SUFFICES ASSUME NEW i \in Cuts(q, w) PROVE FALSE
    OBVIOUS
  <2>1. i \in 1 .. r /\ q[i].sym = w /\ Depth(q, i) = 0
    BY <1>11, IsSeqLen DEF Cuts
  <2>2. m + i \in 1 .. n /\ i \in 0 .. r /\ ~(m >= m + i)
    BY <1>3, <1>6, <1>10, <1>14, <2>1
  <2>3. u[m + i].sym = w /\ Depth(u, m + i) = 0
    BY <1>11, <1>18, <2>1, <2>2
  <2>4. m + i \in Cuts(u, w)
    BY <1>3, <2>2, <2>3 DEF Cuts
  <2> QED BY <1>4, <2>2, <2>4
<1>24. p = Before(u, w) /\ q = After(u, w)
  BY <1>1, <1>2, <1>5, <1>7, <1>9 DEF Before, After
<1>25. Len(p) < Len(u)
  BY <1>1, <1>6, <1>8
<1> QED BY <1>13, <1>15, <1>21, <1>22, <1>23, <1>24, <1>25

LEMMA EvaluateOr ==
  ASSUME NEW s, IsSeq(s), s # <<>>, Cuts(s, "OR") # {}, NEW row
  PROVE  Evaluate(s, row) = Or2(Evaluate(Before(s, "OR"), row), Evaluate(After(s, "OR"), row))
<1>1. PICK v : Evaluate(s, row) = Parsed(s, row, v) /\ \A p \in Pieces(s) : v[p] = Evaluate(p, row)
  BY EvaluateIs
<1>2. Before(s, "OR") \in Pieces(s) /\ After(s, "OR") \in Pieces(s)
  BY DEF Pieces
<1>3. Parsed(s, row, v) = Or2(v[Before(s, "OR")], v[After(s, "OR")])
  BY DEF Parsed, Or2
<1> QED BY <1>1, <1>2, <1>3

LEMMA EvaluateAnd ==
  ASSUME NEW s, IsSeq(s), s # <<>>, Cuts(s, "OR") = {}, Cuts(s, "AND") # {}, NEW row
  PROVE  Evaluate(s, row) = And2(Evaluate(Before(s, "AND"), row), Evaluate(After(s, "AND"), row))
<1>1. PICK v : Evaluate(s, row) = Parsed(s, row, v) /\ \A p \in Pieces(s) : v[p] = Evaluate(p, row)
  BY EvaluateIs
<1>2. Before(s, "AND") \in Pieces(s) /\ After(s, "AND") \in Pieces(s)
  BY DEF Pieces
<1>3. Parsed(s, row, v) = And2(v[Before(s, "AND")], v[After(s, "AND")])
  BY DEF Parsed, And2
<1> QED BY <1>1, <1>2, <1>3

\* OR between two texts, the second without an OR of its own.
LEMMA OrTogether ==
  ASSUME NEW s, NEW t, Balanced(s), Balanced(t), Cuts(t, "OR") = {}, NEW x, x.sym = "OR", NEW row
  PROVE  /\ Balanced(Link(s, x, t)) /\ Link(s, x, t) # <<>>
         /\ Evaluate(Link(s, x, t), row) = Or2(Evaluate(s, row), Evaluate(t, row))
<1>1. x.sym \notin {"(", ")"} /\ Cuts(t, x.sym) = {}
  OBVIOUS
<1>2. PICK c : c = Link(s, x, t)
  OBVIOUS
<1>3. Balanced(c) /\ c # <<>>
  BY <1>1, <1>2, JoinedBy
<1>4. Cuts(c, x.sym) # {} /\ Before(c, x.sym) = s /\ After(c, x.sym) = t
  BY <1>1, <1>2, SplitAt
<1>5. IsSeq(c)
  BY <1>3 DEF Balanced
<1>6. Cuts(c, "OR") # {} /\ Before(c, "OR") = s /\ After(c, "OR") = t
  BY <1>4
<1>7. Evaluate(c, row) = Or2(Evaluate(Before(c, "OR"), row), Evaluate(After(c, "OR"), row))
  BY <1>3, <1>5, <1>6, EvaluateOr
<1> QED BY <1>2, <1>3, <1>6, <1>7

\* No OR stands outside the parentheses.
Grouped(s) == Cuts(s, "OR") = {}

LEMMA LinkGrouped ==
  ASSUME NEW s, NEW t, Balanced(s), Balanced(t), Grouped(s), Grouped(t), NEW x, x.sym = "AND"
  PROVE  Balanced(Link(s, x, t)) /\ Link(s, x, t) # <<>> /\ Grouped(Link(s, x, t))
<1>1. x.sym \notin {"(", ")"} /\ "OR" # x.sym
  OBVIOUS
<1>2. PICK c : c = Link(s, x, t)
  OBVIOUS
<1>3. PICK w : w = "OR"
  OBVIOUS
<1>4. Balanced(c) /\ c # <<>> /\ Cuts(c, w) = Cuts(s, w) \cup Shift(Len(s) + 1, Cuts(t, w))
  <2>1. Balanced(c) /\ c # <<>>
    BY <1>1, <1>2, JoinedBy
  <2>2. Cuts(c, w) = Cuts(s, w) \cup (IF x.sym = w THEN {Len(s) + 1} ELSE {}) \cup Shift(Len(s) + 1, Cuts(t, w))
    BY <1>1, <1>2, JoinedCuts
  <2> QED BY <1>1, <1>3, <2>1, <2>2
<1>5. Shift(Len(s) + 1, Cuts(t, w)) = {}
  BY <1>3 DEF Shift, Grouped
<1>6. Cuts(c, w) = {}
  BY <1>3, <1>4, <1>5 DEF Grouped
<1> QED BY <1>2, <1>3, <1>4, <1>6 DEF Grouped

\* AND between two texts without an OR, however many ANDs they have.
LEMMA AndTogether ==
  ASSUME NEW s, NEW t, Balanced(s), Balanced(t), Grouped(s), Grouped(t), NEW x, x.sym = "AND", NEW row
  PROVE  Evaluate(Link(s, x, t), row) = And2(Evaluate(s, row), Evaluate(t, row))
<1> DEFINE And(u) == Evaluate(Link(s, x, u), row) = And2(Evaluate(s, row), Evaluate(u, row))
           Bad == {n \in Nat : \E u : Balanced(u) /\ Grouped(u) /\ Len(u) = n /\ ~And(u)}
<1>1. Bad = {}
  <2> SUFFICES ASSUME Bad # {} PROVE FALSE
    OBVIOUS
  <2>1. Bad \subseteq Nat
    OBVIOUS
  <2>2. PICK n \in Bad : \A m \in Bad : n <= m
    BY <2>1, Least
  <2>3. PICK u : Balanced(u) /\ Grouped(u) /\ Len(u) = n /\ ~And(u)
    BY <2>2
  <2>4. \A v : Balanced(v) /\ Grouped(v) /\ Len(v) \in Nat /\ Len(v) < n => And(v)
    <3> TAKE v
    <3>1. HAVE Balanced(v) /\ Grouped(v) /\ Len(v) \in Nat /\ Len(v) < n
    <3>2. ~(n <= Len(v))
      BY <2>1, <3>1
    <3>3. Len(v) \notin Bad
      BY <2>2, <3>2
    <3> QED BY <3>1, <3>3
  <2> HIDE DEF Bad
  <2>5. PICK d : d = Link(s, x, u)
    OBVIOUS
  <2>6. IsSeq(d) /\ d # <<>> /\ Cuts(d, "OR") = {}
    <3>1. Balanced(d) /\ d # <<>> /\ Grouped(d)
      BY <2>3, <2>5, LinkGrouped
    <3> QED BY <3>1 DEF Balanced, Grouped
  <2>7. CASE Cuts(u, "AND") = {}
    <3>1. x.sym \notin {"(", ")"} /\ Cuts(u, x.sym) = {}
      BY <2>7
    <3>2. Cuts(d, x.sym) # {} /\ Before(d, x.sym) = s /\ After(d, x.sym) = u
      BY <2>3, <2>5, <3>1, SplitAt
    <3>3. Cuts(d, "AND") # {} /\ Before(d, "AND") = s /\ After(d, "AND") = u
      BY <3>2
    <3>4. Evaluate(d, row) = And2(Evaluate(Before(d, "AND"), row), Evaluate(After(d, "AND"), row))
      BY <2>6, <3>3, EvaluateAnd
    <3> QED BY <2>3, <2>5, <3>3, <3>4
  <2>8. CASE Cuts(u, "AND") # {}
    <3>0. PICK y, p, q : /\ u = Link(p, y, q) /\ y.sym = "AND" /\ Balanced(p) /\ Balanced(q)
                         /\ Cuts(q, "AND") = {} /\ Len(p) < Len(u)
                         /\ p = Before(u, "AND") /\ q = After(u, "AND")
      BY <2>3, <2>8, CutInTwo
    <3>1. /\ u = Link(p, y, q) /\ y.sym = "AND" /\ Balanced(p) /\ Balanced(q)
          /\ Cuts(q, "AND") = {} /\ Len(p) < Len(u)
      BY <3>0
    <3>2. Len(p) \in Nat /\ Len(p) < n
      BY <2>3, <3>1, IsSeqLen DEF Balanced
    <3>3. Grouped(p) /\ Grouped(q)
      <4>1. PICK w : w = "OR"
        OBVIOUS
      <4>2. y.sym \notin {"(", ")"} /\ w # y.sym /\ IsSeq(p)
        BY <3>1, <4>1 DEF Balanced
      <4>3. Cuts(u, w) = Cuts(p, w) \cup Shift(Len(p) + 1, Cuts(q, w))
        <5>1. Cuts(u, w) = Cuts(p, w) \cup (IF y.sym = w THEN {Len(p) + 1} ELSE {}) \cup Shift(Len(p) + 1, Cuts(q, w))
          BY <3>1, <4>2, JoinedCuts
        <5> QED BY <4>2, <5>1
      <4>4. Cuts(p, w) = {} /\ Shift(Len(p) + 1, Cuts(q, w)) = {}
        BY <2>3, <4>1, <4>3 DEF Grouped
      <4>5. Cuts(q, w) = {}
        BY <4>4 DEF Shift
      <4> QED BY <4>1, <4>4, <4>5 DEF Grouped
    <3>4. PICK e : e = Link(s, x, p)
      OBVIOUS
    <3>5. Balanced(e) /\ Grouped(e)
      BY <3>1, <3>3, <3>4, LinkGrouped
    <3>6. d = Link(e, y, q)
      <4>1. IsSeq(s) /\ IsSeq(p) /\ IsSeq(q)
        BY <3>1 DEF Balanced
      <4> QED BY <2>5, <3>1, <3>4, <4>1, LinkAssoc
    <3>7. y.sym \notin {"(", ")"} /\ Cuts(q, y.sym) = {}
      BY <3>1
    <3>8. Cuts(d, y.sym) # {} /\ Before(d, y.sym) = e /\ After(d, y.sym) = q
      BY <3>1, <3>5, <3>6, <3>7, SplitAt
    <3>9. Cuts(d, "AND") # {} /\ Before(d, "AND") = e /\ After(d, "AND") = q
      BY <3>1, <3>8
    <3>10. Evaluate(d, row) = And2(Evaluate(Before(d, "AND"), row), Evaluate(After(d, "AND"), row))
      BY <2>6, <3>9, EvaluateAnd
    <3>11. Evaluate(e, row) = And2(Evaluate(s, row), Evaluate(p, row))
      BY <2>4, <3>1, <3>2, <3>3, <3>4
    <3>12. Evaluate(u, row) = And2(Evaluate(p, row), Evaluate(q, row))
      <4>1. IsSeq(u) /\ Cuts(u, "OR") = {}
        BY <2>3 DEF Balanced, Grouped
      <4>2. u # <<>>
        BY <3>1, <3>7, JoinedBy
      <4>3. Evaluate(u, row) = And2(Evaluate(Before(u, "AND"), row), Evaluate(After(u, "AND"), row))
        BY <2>8, <4>1, <4>2, EvaluateAnd
      <4> QED BY <3>0, <4>3
    <3>13. PICK a, b, c : a = Evaluate(s, row) /\ b = Evaluate(p, row) /\ c = Evaluate(q, row)
      OBVIOUS
    <3>14. Evaluate(d, row) = And2(And2(a, b), c) /\ Evaluate(u, row) = And2(b, c)
      BY <3>9, <3>10, <3>11, <3>12, <3>13
    <3>15. And2(And2(a, b), c) = And2(a, And2(b, c))
      BY And2Assoc
    <3>16. Evaluate(d, row) = And2(Evaluate(s, row), Evaluate(u, row))
      BY <3>13, <3>14, <3>15
    <3> QED BY <2>3, <2>5, <3>16
  <2> QED BY <2>7, <2>8
<1>2. Len(t) \in Nat
  BY IsSeqLen DEF Balanced
<1> QED BY <1>1, <1>2

(***************************************************************************)
(* Parentheses, negation, and a single test.                               *)
(***************************************************************************)
Enclose(open, t, close) == <<open>> \o t \o <<close>>

LEMMA EncloseReads ==
  ASSUME NEW t, Balanced(t), t # <<>>, NEW open, open.sym = "(", NEW close, close.sym = ")", NEW row
  PROVE  /\ Balanced(Enclose(open, t, close)) /\ Enclose(open, t, close) # <<>>
         /\ Grouped(Enclose(open, t, close)) /\ Cuts(Enclose(open, t, close), "AND") = {}
         /\ Evaluate(Enclose(open, t, close), row) = Evaluate(t, row)
<1>1. PICK c : c = Enclose(open, t, close)
  OBVIOUS
<1>2. /\ Balanced(c) /\ Cuts(c, "OR") = {} /\ Cuts(c, "AND") = {}
      /\ Enclosed(c) /\ c[1].sym = "(" /\ SubSeq(c, 2, Len(c) - 1) = t
  BY <1>1, BalancedEnclosed DEF Enclose
<1>3. IsSeq(c)
  BY <1>2 DEF Balanced
<1>4. c # <<>>
  <2>1. Len(c) \in Nat /\ Len(c) > 2
    BY <1>2, <1>3, IsSeqLen DEF Enclosed
  <2>2. Len(c) # 0
    BY <2>1
  <2> QED BY <1>3, <2>2, IsSeqLen
<1>5. PICK v : Evaluate(c, row) = Parsed(c, row, v) /\ \A p \in Pieces(c) : v[p] = Evaluate(p, row)
  BY <1>3, EvaluateIs
<1>6. Pieces(c) = {t}
  BY <1>2, <1>4 DEF Pieces
<1>7. Parsed(c, row, v) = v[t]
  BY <1>2, <1>4 DEF Parsed
<1>8. Evaluate(c, row) = Evaluate(t, row)
  BY <1>5, <1>6, <1>7
<1> QED BY <1>1, <1>2, <1>4, <1>8 DEF Grouped

LEMMA TailOfAhead ==
  ASSUME NEW x, NEW t, IsSeq(t)
  PROVE  IsSeq(Ahead(x, t)) /\ Ahead(x, t) # <<>> /\ Ahead(x, t)[1] = x /\ Tail(Ahead(x, t)) = t
<1>1. PICK c : c = Ahead(x, t)
  OBVIOUS
<1>2. IsSeq(<<x>>) /\ Len(<<x>>) = 1 /\ <<x>>[1] = x
  BY IsSeqOne
<1>3. /\ IsSeq(c) /\ Len(c) = 1 + Len(t)
      /\ \A i \in 1 .. 1 : c[i] = <<x>>[i]
      /\ \A i \in 1 .. Len(t) : c[1 + i] = t[i]
  BY <1>1, <1>2, IsSeqConcat DEF Ahead
<1>4. Len(t) \in Nat
  BY IsSeqLen
<1>5. c # <<>> /\ c[1] = x
  <2>1. Len(c) # 0
    BY <1>3, <1>4
  <2> QED BY <1>2, <1>3, <2>1, IsSeqLen
<1>6. PICK R : c \in Seq(R)
  BY <1>3 DEF IsSeq
<1>7. IsSeq(Tail(c)) /\ Len(Tail(c)) = Len(t) /\ \A i \in 1 .. Len(t) : Tail(c)[i] = t[i]
  <2>1. IsSeq(Tail(c))
    BY <1>3, <1>5, IsSeqTail
  <2>2. /\ Len(Tail(c)) = Len(c) - 1
        /\ \A i \in 1 .. Len(Tail(c)) : Tail(c)[i] = c[i + 1]
    BY <1>5, <1>6, HeadTailProperties
  <2>3. Len(Tail(c)) = Len(t)
    BY <1>3, <1>4, <2>2
  <2>4. \A i \in 1 .. Len(t) : i + 1 = 1 + i
    BY <1>4
  <2> QED BY <1>3, <2>1, <2>2, <2>3, <2>4
<1>8. PICK d : d = Tail(c)
  OBVIOUS
<1>9. d = t
  BY <1>7, <1>8, IsSeqEqual
<1> QED BY <1>1, <1>3, <1>5, <1>8, <1>9

LEMMA NotReads ==
  ASSUME NEW t, Balanced(t), t # <<>>, Grouped(t), Cuts(t, "AND") = {}, NEW x, x.sym = "NOT", NEW row
  PROVE  /\ Balanced(Ahead(x, t)) /\ Ahead(x, t) # <<>> /\ Grouped(Ahead(x, t))
         /\ Evaluate(Ahead(x, t), row) = Not3(Evaluate(t, row))
<1>1. PICK c : c = Ahead(x, t)
  OBVIOUS
<1>2. IsSeq(t)
  BY DEF Balanced
<1>3. IsSeq(c) /\ c # <<>> /\ c[1] = x /\ Tail(c) = t
  BY <1>1, <1>2, TailOfAhead
<1>4. x.sym \notin {"(", ")"}
  OBVIOUS
<1>5. Balanced(<<x>>) /\ \A w : Cuts(<<x>>, w) = IF x.sym = w THEN {1} ELSE {}
  BY <1>4, BalancedOne
<1>6. PICK b : b = <<x>>
  OBVIOUS
<1>7. Balanced(b) /\ Cuts(b, "OR") = {} /\ Cuts(b, "AND") = {}
  BY <1>5, <1>6
<1>8. c = b \o t
  BY <1>1, <1>6 DEF Ahead
<1>9. Balanced(c) /\ \A w : Cuts(c, w) = Cuts(b, w) \cup Shift(Len(b), Cuts(t, w))
  BY <1>7, <1>8, BalancedConcat
<1>10. Cuts(c, "OR") = {} /\ Cuts(c, "AND") = {}
  BY <1>7, <1>9 DEF Grouped, Shift
<1>11. PICK v : Evaluate(c, row) = Parsed(c, row, v) /\ \A p \in Pieces(c) : v[p] = Evaluate(p, row)
  BY <1>3, EvaluateIs
<1>12. Pieces(c) = {t}
  BY <1>3, <1>10 DEF Pieces
<1>13. Parsed(c, row, v) = Not3(v[t])
  BY <1>3, <1>10 DEF Parsed
<1>14. Evaluate(c, row) = Not3(Evaluate(t, row))
  BY <1>11, <1>12, <1>13
<1> QED BY <1>1, <1>3, <1>9, <1>10, <1>14 DEF Grouped

LEMMA TestReads ==
  ASSUME NEW x, x.sym \notin {"(", ")", "NOT", "AND", "OR"}, NEW row, x.col \in DOMAIN row
  PROVE  /\ Balanced(<<x>>) /\ <<x>> # <<>> /\ Grouped(<<x>>)
         /\ Evaluate(<<x>>, row) = Test(x.sym, x.lit, x.a, row[x.col])
<1>1. PICK c : c = <<x>>
  OBVIOUS
<1>2. IsSeq(c) /\ Len(c) = 1 /\ c[1] = x
  BY <1>1, IsSeqOne
<1>3. c # <<>>
  <2>1. Len(c) # 0
    BY <1>2
  <2> QED BY <1>2, <2>1, IsSeqLen
<1>4. x.sym \notin {"(", ")"} /\ x.sym # "OR" /\ x.sym # "AND"
  OBVIOUS
<1>5. Balanced(c) /\ Cuts(c, "OR") = {} /\ Cuts(c, "AND") = {}
  BY <1>1, <1>4, BalancedOne
<1>6. ~Enclosed(c)
  BY <1>2 DEF Enclosed
<1>7. PICK v : Evaluate(c, row) = Parsed(c, row, v)
  BY <1>2, EvaluateIs
<1>8. Parsed(c, row, v) = Test(x.sym, x.lit, x.a, row[x.col])
  BY <1>2, <1>3, <1>5, <1>6 DEF Parsed
<1> QED BY <1>1, <1>3, <1>5, <1>7, <1>8 DEF Grouped

(***************************************************************************)
(* Text as the compiler writes it, given its arguments.                    *)
(***************************************************************************)
Tell(x, a) ==
  [sym |-> x.sym, col |-> x.col, lit |-> x.lit, a |-> [j \in DOMAIN x.slots |-> a[x.slots[j]]]]

Told(text, a) == [i \in DOMAIN text |-> Tell(text[i], a)]

LEMMA ToldIs ==
  ASSUME NEW text, IsSeq(text), NEW a
  PROVE  /\ IsSeq(Told(text, a)) /\ Len(Told(text, a)) = Len(text)
         /\ \A i \in 1 .. Len(text) : Told(text, a)[i] = Tell(text[i], a) /\ Told(text, a)[i].sym = text[i].sym
<1>1. PICK n : n = Len(text)
  OBVIOUS
<1>2. n \in Nat /\ DOMAIN text = 1 .. n
  BY <1>1, IsSeqLen
<1>3. PICK t : t = Told(text, a)
  OBVIOUS
<1>4. t = [i \in 1 .. n |-> Tell(text[i], a)]
  BY <1>2, <1>3 DEF Told
<1>5. t = [i \in 1 .. n |-> t[i]] /\ \A i \in 1 .. n : t[i] = Tell(text[i], a)
  BY <1>4
<1>6. IsSeq(t) /\ Len(t) = n
  BY <1>2, <1>5, IsSeqFunction
<1>7. \A i \in 1 .. n : t[i].sym = text[i].sym
  BY <1>5 DEF Tell
<1> QED BY <1>1, <1>3, <1>5, <1>6, <1>7

\* Parentheses and connectives are where they were.
LEMMA ToldShape ==
  ASSUME NEW text, IsSeq(text), NEW a
  PROVE  /\ Balanced(text) => Balanced(Told(text, a))
         /\ \A w : Cuts(Told(text, a), w) = Cuts(text, w)
<1>1. PICK n : n = Len(text)
  OBVIOUS
<1>2. PICK t : t = Told(text, a)
  OBVIOUS
<1>3. /\ n \in Nat /\ DOMAIN text = 1 .. n /\ IsSeq(t) /\ Len(t) = n
      /\ \A i \in 1 .. n : t[i].sym = text[i].sym
  BY <1>1, <1>2, IsSeqLen, ToldIs
<1>4. DOMAIN t = 1 .. n
  BY <1>3, IsSeqLen
<1>5. ASSUME NEW m \in 0 .. n PROVE Depth(t, m) = Depth(text, m)
  <2>1. PICK z \in Nat : z = 0
    OBVIOUS
  <2>2. z \in Nat /\ Spells(t, z, text, n)
    BY <1>3, <2>1 DEF Spells
  <2>5. n \in Nat
    BY <1>3
  <2>3. Depth(t, z + m) = Depth(t, z) + Depth(text, m)
    BY <2>2, <2>5, DepthOfStretch
  <2>4. Depth(t, 0) = 0 /\ Depth(text, m) \in Int
    BY DepthStep
  <2> QED BY <2>1, <2>3, <2>4
<1>6. Balanced(text) => Balanced(t)
  BY <1>1, <1>3, <1>5 DEF Balanced
<1>7. ASSUME NEW w PROVE Cuts(t, w) = Cuts(text, w)
  BY <1>3, <1>4, <1>5 DEF Cuts
<1> QED BY <1>2, <1>6, <1>7

LEMMA ToldConcat ==
  ASSUME NEW s, NEW t, IsSeq(s), IsSeq(t), NEW a
  PROVE  Told(s \o t, a) = Told(s, a) \o Told(t, a)
<1>1. PICK c : c = s \o t
  OBVIOUS
<1>2. PICK m : m = Len(s)
  OBVIOUS
<1>3. PICK n : n = Len(t)
  OBVIOUS
<1>4. /\ IsSeq(c) /\ m \in Nat /\ n \in Nat /\ Len(c) = m + n
      /\ \A i \in 1 .. m : c[i] = s[i]
      /\ \A i \in 1 .. n : c[m + i] = t[i]
  BY <1>1, <1>2, <1>3, IsSeqConcat, IsSeqLen
<1>5. PICK p : p = Told(s, a)
  OBVIOUS
<1>6. PICK q : q = Told(t, a)
  OBVIOUS
<1>7. PICK d : d = Told(c, a)
  OBVIOUS
<1>8. /\ IsSeq(p) /\ Len(p) = m /\ \A i \in 1 .. m : p[i] = Tell(s[i], a)
  BY <1>2, <1>5, ToldIs
<1>9. /\ IsSeq(q) /\ Len(q) = n /\ \A i \in 1 .. n : q[i] = Tell(t[i], a)
  BY <1>3, <1>6, ToldIs
<1>10. /\ IsSeq(d) /\ Len(d) = m + n /\ \A i \in 1 .. m + n : d[i] = Tell(c[i], a)
  BY <1>4, <1>7, ToldIs
<1>11. PICK e : e = p \o q
  OBVIOUS
<1>12. /\ IsSeq(e) /\ Len(e) = m + n
       /\ \A i \in 1 .. m : e[i] = p[i]
       /\ \A i \in 1 .. n : e[m + i] = q[i]
  BY <1>8, <1>9, <1>11, IsSeqConcat, SMTT(30)
<1>13. ASSUME NEW i \in 1 .. m + n PROVE d[i] = e[i]
  <2>1. CASE i <= m
    BY <1>4, <1>8, <1>10, <1>12, <2>1
  <2>2. CASE i > m
    <3>1. PICK j \in 1 .. n : i = m + j
      <4>1. i - m \in 1 .. n /\ i = m + (i - m)
        BY <1>4, <2>2
      <4> QED BY <4>1
    <3>2. d[i] = Tell(t[j], a)
      BY <1>4, <1>10, <3>1
    <3>3. e[i] = Tell(t[j], a)
      BY <1>9, <1>12, <3>1
    <3> QED BY <3>2, <3>3
  <2> QED BY <1>4, <2>1, <2>2
<1>14. d = e
  BY <1>10, <1>12, <1>13, IsSeqEqual
<1> QED BY <1>1, <1>5, <1>6, <1>7, <1>11, <1>14

LEMMA ToldOne == ASSUME NEW x, NEW a PROVE Told(<<x>>, a) = <<Tell(x, a)>>
<1>1. PICK s : s = <<x>>
  OBVIOUS
<1>2. IsSeq(s) /\ Len(s) = 1 /\ s[1] = x
  BY <1>1, IsSeqOne
<1>3. PICK t : t = Told(s, a)
  OBVIOUS
<1>4. IsSeq(t) /\ Len(t) = 1 /\ t[1] = Tell(x, a)
  BY <1>2, <1>3, ToldIs
<1>5. PICK u : u = <<Tell(x, a)>>
  OBVIOUS
<1>6. IsSeq(u) /\ Len(u) = 1 /\ u[1] = Tell(x, a)
  BY <1>5, IsSeqOne
<1>7. \A i \in 1 .. 1 : t[i] = u[i]
  BY <1>4, <1>6
<1>8. t = u
  BY <1>4, <1>6, <1>7, IsSeqEqual
<1> QED BY <1>1, <1>3, <1>5, <1>8

LEMMA ToldLink ==
  ASSUME NEW s, NEW t, IsSeq(s), IsSeq(t), NEW x, NEW a
  PROVE  /\ Told(Link(s, x, t), a) = Link(Told(s, a), Tell(x, a), Told(t, a))
         /\ Told(Ahead(x, t), a) = Ahead(Tell(x, a), Told(t, a))
         /\ Told(Behind(s, x), a) = Behind(Told(s, a), Tell(x, a))
         /\ IsSeq(Ahead(x, t)) /\ IsSeq(Behind(s, x)) /\ IsSeq(Link(s, x, t))
<1>1. PICK o : o = <<x>>
  OBVIOUS
<1>2. IsSeq(o) /\ Told(o, a) = <<Tell(x, a)>>
  BY <1>1, IsSeqOne, ToldOne
<1>3. PICK b : b = s \o o
  OBVIOUS
<1>4. IsSeq(b) /\ Told(b, a) = Told(s, a) \o <<Tell(x, a)>>
  BY <1>2, <1>3, IsSeqConcat, ToldConcat
<1>5. PICK d : d = o \o t
  OBVIOUS
<1>6. IsSeq(d) /\ Told(d, a) = <<Tell(x, a)>> \o Told(t, a)
  <2>3. IsSeq(o)
    BY <1>2
  <2>1. Told(o \o t, a) = Told(o, a) \o Told(t, a)
    BY <2>3, ToldConcat
  <2>2. IsSeq(o \o t)
    BY <1>2, IsSeqConcat
  <2> QED BY <1>2, <1>5, <2>1, <2>2
<1>7. IsSeq(b \o t)
  BY <1>4, IsSeqConcat
<1>8. Told(b \o t, a) = Told(b, a) \o Told(t, a)
  <2>1. IsSeq(b)
    BY <1>4
  <2> QED BY <2>1, ToldConcat
<1> QED BY <1>1, <1>3, <1>4, <1>5, <1>6, <1>7, <1>8 DEF Link, Ahead, Behind

\* What the arguments bound later change: nothing.
FindsIn(text, n) == \A i \in DOMAIN text : \A j \in DOMAIN text[i].slots : text[i].slots[j] \in 1 .. n

LEMMA ToldStable ==
  ASSUME NEW text, NEW a, NEW b, IsSeq(a), IsSeq(b), FindsIn(text, Len(a))
  PROVE  Told(text, a \o b) = Told(text, a)
<1>1. PICK c : c = a \o b
  OBVIOUS
<1>2. \A i \in 1 .. Len(a) : c[i] = a[i]
  BY <1>1, IsSeqConcat
<1>3. ASSUME NEW i \in DOMAIN text PROVE Tell(text[i], c) = Tell(text[i], a)
  <2>1. \A j \in DOMAIN text[i].slots : c[text[i].slots[j]] = a[text[i].slots[j]]
    BY <1>2 DEF FindsIn
  <2>2. [j \in DOMAIN text[i].slots |-> c[text[i].slots[j]]] = [j \in DOMAIN text[i].slots |-> a[text[i].slots[j]]]
    BY <2>1
  <2> QED BY <2>2 DEF Tell
<1>4. Told(text, c) = Told(text, a)
  BY <1>3 DEF Told
<1> QED BY <1>1, <1>4

(***************************************************************************)
(* What a text is worth on a row, given its arguments.                     *)
(***************************************************************************)
Worth(text, a, row) == IF text = <<>> THEN "none" ELSE Evaluate(Told(text, a), row)

LEMMA WorthStable ==
  ASSUME NEW text, NEW a, NEW b, IsSeq(a), IsSeq(b), FindsIn(text, Len(a)), NEW row
  PROVE  Worth(text, a \o b, row) = Worth(text, a, row)
BY ToldStable DEF Worth

LEMMA WorthTruth ==
  ASSUME NEW text, IsSeq(text), NEW a, NEW row
  PROVE  /\ text # <<>> => Worth(text, a, row) \in Truth
         /\ text = <<>> => Worth(text, a, row) = "none"
         /\ "none" \notin Truth
<1>1. IsSeq(Told(text, a))
  BY ToldIs
<1>2. Evaluate(Told(text, a), row) \in Truth
  BY <1>1, EvaluateIs
<1> QED BY <1>2 DEF Worth, Truth

\* A text that stands for itself beside any other: balanced, and no OR outside
\* the parentheses.
Neat(text) == Balanced(text) /\ Grouped(text)

LEMMA NotNothing ==
  ASSUME NEW text, IsSeq(text), NEW a
  PROVE  text # <<>> <=> Told(text, a) # <<>>
<1>1. IsSeq(Told(text, a)) /\ Len(Told(text, a)) = Len(text)
  BY ToldIs
<1>2. text = <<>> <=> Len(text) = 0
  BY IsSeqLen
<1>3. Told(text, a) = <<>> <=> Len(Told(text, a)) = 0
  BY <1>1, IsSeqLen
<1> QED BY <1>1, <1>2, <1>3

LEMMA WorthOr ==
  ASSUME NEW s, NEW t, Balanced(s), Balanced(t), Grouped(t), s # <<>>, t # <<>>, NEW a, NEW row
  PROVE  /\ Balanced(Link(s, Word("OR"), t)) /\ Link(s, Word("OR"), t) # <<>>
         /\ Worth(Link(s, Word("OR"), t), a, row) = Or2(Worth(s, a, row), Worth(t, a, row))
<1>1. PICK x : x = Word("OR")
  OBVIOUS
<1>2. PICK y : y = Tell(x, a)
  OBVIOUS
<1>3. x.sym = "OR" /\ y.sym = "OR" /\ "OR" \notin {"(", ")"}
  BY <1>1, <1>2 DEF Word, Tell
<1>4. IsSeq(s) /\ IsSeq(t)
  BY DEF Balanced
<1>5. PICK p : p = Told(s, a)
  OBVIOUS
<1>6. PICK q : q = Told(t, a)
  OBVIOUS
<1>7. Balanced(p) /\ Balanced(q) /\ Cuts(q, "OR") = {}
  BY <1>4, <1>5, <1>6, ToldShape DEF Grouped
<1>8. Evaluate(Link(p, y, q), row) = Or2(Evaluate(p, row), Evaluate(q, row))
  BY <1>3, <1>7, OrTogether
<1>9. Balanced(Link(s, x, t)) /\ Link(s, x, t) # <<>>
  BY <1>3, JoinedBy
<1>10. Told(Link(s, x, t), a) = Link(p, y, q)
  BY <1>2, <1>4, <1>5, <1>6, ToldLink
<1> QED BY <1>1, <1>5, <1>6, <1>8, <1>9, <1>10 DEF Worth

LEMMA WorthAnd ==
  ASSUME NEW s, NEW t, Neat(s), Neat(t), s # <<>>, t # <<>>, NEW a, NEW row
  PROVE  /\ Neat(Link(s, Word("AND"), t)) /\ Link(s, Word("AND"), t) # <<>>
         /\ Worth(Link(s, Word("AND"), t), a, row) = And2(Worth(s, a, row), Worth(t, a, row))
<1>1. PICK x : x = Word("AND")
  OBVIOUS
<1>2. PICK y : y = Tell(x, a)
  OBVIOUS
<1>3. x.sym = "AND" /\ y.sym = "AND"
  BY <1>1, <1>2 DEF Word, Tell
<1>4. IsSeq(s) /\ IsSeq(t) /\ Balanced(s) /\ Balanced(t) /\ Grouped(s) /\ Grouped(t)
  BY DEF Balanced, Neat
<1>5. PICK p : p = Told(s, a)
  OBVIOUS
<1>6. PICK q : q = Told(t, a)
  OBVIOUS
<1>7. Balanced(p) /\ Balanced(q) /\ Grouped(p) /\ Grouped(q)
  BY <1>4, <1>5, <1>6, ToldShape DEF Grouped
<1>8. Evaluate(Link(p, y, q), row) = And2(Evaluate(p, row), Evaluate(q, row))
  BY <1>3, <1>7, AndTogether
<1>9. Balanced(Link(s, x, t)) /\ Link(s, x, t) # <<>> /\ Grouped(Link(s, x, t))
  BY <1>3, <1>4, LinkGrouped
<1>10. Told(Link(s, x, t), a) = Link(p, y, q)
  BY <1>2, <1>4, <1>5, <1>6, ToldLink
<1> QED BY <1>1, <1>5, <1>6, <1>8, <1>9, <1>10 DEF Worth, Neat

Parens(text) == <<Word("(")>> \o text \o <<Word(")")>>

LEMMA WorthParens ==
  ASSUME NEW t, Balanced(t), t # <<>>, NEW a, NEW row
  PROVE  /\ Neat(Parens(t)) /\ Parens(t) # <<>> /\ Cuts(Parens(t), "AND") = {}
         /\ Worth(Parens(t), a, row) = Worth(t, a, row)
<1>1. PICK x : x = Word("(")
  OBVIOUS
<1>2. PICK y : y = Word(")")
  OBVIOUS
<1>3. PICK u : u = Tell(x, a)
  OBVIOUS
<1>4. PICK v : v = Tell(y, a)
  OBVIOUS
<1>5. x.sym = "(" /\ y.sym = ")" /\ u.sym = "(" /\ v.sym = ")"
  BY <1>1, <1>2, <1>3, <1>4 DEF Word, Tell
<1>6. IsSeq(t)
  BY DEF Balanced
<1>7. PICK q : q = Told(t, a)
  OBVIOUS
<1>8. Balanced(q) /\ q # <<>>
  BY <1>6, <1>7, ToldShape, NotNothing
<1>9. PICK c : c = Enclose(x, t, y)
  OBVIOUS
<1>10. Balanced(c) /\ c # <<>> /\ Grouped(c) /\ Cuts(c, "AND") = {}
  BY <1>5, <1>9, EncloseReads
<1>11. Evaluate(Enclose(u, q, v), row) = Evaluate(q, row)
  BY <1>5, <1>8, EncloseReads
<1>12. Told(c, a) = Enclose(u, q, v)
  <2>1. PICK d : d = Ahead(x, t)
    OBVIOUS
  <2>2. IsSeq(d) /\ Told(d, a) = Ahead(u, q)
    BY <1>3, <1>6, <1>7, <2>1, ToldLink
  <2>3. c = Behind(d, y)
    BY <1>9, <2>1 DEF Enclose, Ahead, Behind
  <2>4. Told(c, a) = Behind(Told(d, a), v)
    BY <1>4, <2>2, <2>3, ToldLink
  <2> QED BY <2>2, <2>4 DEF Enclose, Ahead, Behind
<1>13. c = Parens(t)
  BY <1>1, <1>2, <1>9 DEF Parens, Enclose
<1> QED BY <1>7, <1>10, <1>11, <1>12, <1>13 DEF Worth, Neat

LEMMA WorthNegated ==
  ASSUME NEW t, Balanced(t), t # <<>>, NEW a, NEW row
  PROVE  /\ Neat(Negated(t)) /\ Negated(t) # <<>>
         /\ Worth(Negated(t), a, row) = Not3(Worth(t, a, row))
<1>1. PICK x : x = Word("NOT")
  OBVIOUS
<1>2. PICK y : y = Tell(x, a)
  OBVIOUS
<1>3. x.sym = "NOT" /\ y.sym = "NOT"
  BY <1>1, <1>2 DEF Word, Tell
<1>4. PICK c : c = Parens(t)
  OBVIOUS
<1>5. Balanced(c) /\ Grouped(c) /\ c # <<>> /\ Cuts(c, "AND") = {} /\ Worth(c, a, row) = Worth(t, a, row)
  BY <1>4, WorthParens DEF Neat
<1>6. IsSeq(c)
  BY <1>5 DEF Balanced
<1>7. PICK q : q = Told(c, a)
  OBVIOUS
<1>8. Balanced(q) /\ q # <<>> /\ Grouped(q) /\ Cuts(q, "AND") = {}
  BY <1>5, <1>6, <1>7, ToldShape, NotNothing DEF Grouped
<1>9. PICK d : d = Ahead(x, c)
  OBVIOUS
<1>10. Balanced(d) /\ d # <<>> /\ Grouped(d)
  BY <1>3, <1>5, <1>9, NotReads
<1>11. Evaluate(Ahead(y, q), row) = Not3(Evaluate(q, row))
  BY <1>3, <1>8, NotReads
<1>12. Told(d, a) = Ahead(y, q)
  BY <1>2, <1>6, <1>7, <1>9, ToldLink
<1>13. d = Negated(t)
  <2>1. PICK u : u = Word("(")
    OBVIOUS
  <2>2. PICK e : e = <<Word(")")>>
    OBVIOUS
  <2>3. IsSeq(<<x>>) /\ IsSeq(<<u>>) /\ IsSeq(e) /\ IsSeq(t)
    BY <2>2, IsSeqOne DEF Balanced
  <2>4. PICK f : f = t \o e
    OBVIOUS
  <2>5. IsSeq(f)
    BY <2>3, <2>4, IsSeqConcat
  <2>6. c = <<u>> \o f
    BY <1>4, <2>1, <2>2, <2>3, <2>4, ConcatAssoc DEF Parens
  <2>7. (<<x>> \o <<u>>) \o f = <<x>> \o (<<u>> \o f)
    BY <2>3, <2>5, ConcatAssoc
  <2>8. <<x>> \o <<u>> = <<x, u>>
    <3>1. PICK h : h = <<x, u>>
      OBVIOUS
    <3>2. PICK k : k = <<x>> \o <<u>>
      OBVIOUS
    <3>3. IsSeq(h) /\ Len(h) = 2 /\ h[1] = x /\ h[2] = u
      <4>1. h \in Seq({x, u})
        BY <3>1
      <4> QED BY <3>1, <4>1, IsSeqIntro
    <3>4. IsSeq(k) /\ Len(k) = 1 + 1 /\ k[1] = x /\ k[1 + 1] = u
      BY <3>2, IsSeqOne, IsSeqConcat
    <3>5. Len(h) = Len(k) /\ \A i \in 1 .. Len(h) : h[i] = k[i]
      BY <3>3, <3>4
    <3>6. IsSeq(h) /\ IsSeq(k)
      BY <3>3, <3>4
    <3>7. h = k
      BY <3>5, <3>6, IsSeqEqual
    <3> QED BY <3>1, <3>2, <3>7
  <2>9. IsSeq(<<x>> \o <<u>>)
    BY <2>3, IsSeqConcat
  <2>10. PICK g : g = <<x>> \o <<u>>
    OBVIOUS
  <2>11. (g \o t) \o e = g \o (t \o e)
    BY <2>3, <2>9, <2>10, ConcatAssoc
  <2>12. Negated(t) = (g \o t) \o e
    BY <1>1, <2>1, <2>2, <2>8, <2>10 DEF Negated
  <2> QED BY <1>9, <2>4, <2>6, <2>7, <2>10, <2>11, <2>12 DEF Ahead
<1> QED BY <1>5, <1>7, <1>10, <1>11, <1>12, <1>13 DEF Worth, Neat

\* One token over a column of the row.
LEMMA WorthTest ==
  ASSUME NEW x, x.sym \notin {"(", ")", "NOT", "AND", "OR"}, NEW row, x.col \in DOMAIN row,
         NEW a, NEW g, g = [j \in DOMAIN x.slots |-> a[x.slots[j]]]
  PROVE  /\ Neat(<<x>>) /\ <<x>> # <<>>
         /\ Worth(<<x>>, a, row) = Test(x.sym, x.lit, g, row[x.col])
<1>1. PICK y : y = Tell(x, a)
  OBVIOUS
<1>2. y.sym = x.sym /\ y.col = x.col /\ y.lit = x.lit /\ y.a = g
  BY <1>1 DEF Tell
<1>3. Balanced(<<x>>) /\ <<x>> # <<>> /\ Grouped(<<x>>)
  BY TestReads
<1>4. Evaluate(<<y>>, row) = Test(y.sym, y.lit, y.a, row[y.col])
  BY <1>2, TestReads
<1>5. Told(<<x>>, a) = <<y>>
  BY <1>1, ToldOne
<1> QED BY <1>2, <1>3, <1>4, <1>5 DEF Worth, Neat

(***************************************************************************)
(* The argument that a placeholder finds.                                  *)
(***************************************************************************)
\* f numbers the elements of S from 1 to n, each differently.
Numbers(f, S, n) ==
  /\ \A p \in S : f[p] \in 1 .. n
  /\ \A v \in 1 .. n : \E p \in S : f[p] = v
  /\ \A p, q \in S : f[p] = f[q] => p = q

LEMMA CountByNumber ==
  ASSUME NEW S, NEW f, NEW n \in Nat, Numbers(f, S, n)
  PROVE  IsFiniteSet(S) /\ Cardinality(S) = n
<1> DEFINE g == [v \in 1 .. n |-> CHOOSE p \in S : f[p] = v]
<1>1. \A v \in 1 .. n : g[v] \in S /\ f[g[v]] = v
  BY DEF Numbers
<1>2. g \in [1 .. n -> S]
  BY <1>1
<1> HIDE DEF g
<1>3. \A v, w \in 1 .. n : g[v] = g[w] => v = w
  BY <1>1
<1>4. \A p \in S : \E v \in 1 .. n : g[v] = p
  BY <1>1 DEF Numbers
<1>5. g \in Bijection(1 .. n, S)
  BY <1>2, <1>3, <1>4 DEF Bijection, Injection, Surjection, IsInjective
<1>6. ExistsBijection(1 .. n, S)
  BY <1>5 DEF ExistsBijection
<1>7. IsFiniteSet(1 .. n) /\ Cardinality(1 .. n) = n
  BY FS_Interval
<1> QED BY <1>6, <1>7, FS_Bijection

LEMMA Numbered ==
  ASSUME NEW text, NEW n \in Nat, InOrder(text, 0, n),
         DOMAIN text \subseteq Int, \A i \in DOMAIN text : DOMAIN text[i].slots \subseteq Int
  PROVE  /\ Cardinality(Places(text)) = n
         /\ \A p \in Places(text) : Shown(text, p) \in 1 .. n /\ Mark(text, p) = Shown(text, p)
<1> DEFINE S == Places(text)
           f == [p \in S |-> Shown(text, p)]
<1>1. /\ \A p \in S : f[p] \in 1 .. n
      /\ \A v \in 1 .. n : \E p \in S : f[p] = v
      /\ \A p, q \in S : Precedes(q, p) => f[q] < f[p]
  <2>1. {Shown(text, p) : p \in S} = 1 .. n
    BY DEF InOrder
  <2> QED BY <2>1 DEF InOrder
<1>2. \A p, q \in S : p = q \/ Precedes(p, q) \/ Precedes(q, p)
  <2>1. TAKE p, q \in S
  <2>2. PICK i \in DOMAIN text : \E j \in DOMAIN text[i].slots : p = <<i, j>>
    BY DEF Places
  <2>3. PICK j \in DOMAIN text[i].slots : p = <<i, j>>
    BY <2>2
  <2>4. PICK k \in DOMAIN text : \E l \in DOMAIN text[k].slots : q = <<k, l>>
    BY DEF Places
  <2>5. PICK l \in DOMAIN text[k].slots : q = <<k, l>>
    BY <2>4
  <2>6. i \in Int /\ j \in Int /\ k \in Int /\ l \in Int
    BY <2>3, <2>5
  <2>7. Precedes(p, q) <=> i < k \/ (i = k /\ j < l)
    BY <2>3, <2>5 DEF Precedes
  <2>8. Precedes(q, p) <=> k < i \/ (k = i /\ l < j)
    BY <2>3, <2>5 DEF Precedes
  <2>9. i = k /\ j = l => p = q
    BY <2>3, <2>5
  <2> QED BY <2>6, <2>7, <2>8, <2>9
<1>3. \A p \in S : f[p] = Shown(text, p)
  OBVIOUS
<1> HIDE DEF S, f
<1>4. \A p, q \in S : f[p] = f[q] => p = q
  <2>1. TAKE p, q \in S
  <2>2. Precedes(p, q) => f[p] < f[q]
    BY <1>1
  <2>3. Precedes(q, p) => f[q] < f[p]
    BY <1>1
  <2>4. f[p] \in Int /\ f[q] \in Int
    BY <1>1
  <2> QED BY <1>2, <2>2, <2>3, <2>4
<1>7. Numbers(f, S, n)
  BY <1>1, <1>4 DEF Numbers
<1>5. Cardinality(S) = n
  BY <1>7, CountByNumber
<1>6. ASSUME NEW p \in S PROVE Mark(text, p) = f[p]
  <2>1. PICK m : m = f[p]
    OBVIOUS
  <2>2. m \in 1 .. n
    BY <1>1, <2>1
  <2>3. PICK R : R = {q \in S : Precedes(q, p)}
    OBVIOUS
  <2>4. PICK k : k = m - 1
    OBVIOUS
  <2>5. k \in Nat /\ k <= n /\ m = k + 1
    BY <2>2, <2>4
  <2>6. ASSUME NEW q \in S PROVE (q \in R) <=> f[q] \in 1 .. k
    <3>1. f[q] \in 1 .. n /\ f[p] = m
      BY <1>1, <2>1
    <3>2. q \in R => f[q] < m
      BY <1>1, <2>1, <2>3
    <3>3. f[q] < m => q # p /\ ~Precedes(p, q)
      <4>1. Precedes(p, q) => f[p] < f[q]
        BY <1>1
      <4> QED BY <2>2, <3>1, <4>1
    <3>4. f[q] < m => q \in R
      BY <1>2, <2>3, <3>3
    <3> QED BY <2>2, <2>5, <3>1, <3>2, <3>4
  <2>7. \A q \in R : q \in S
    BY <2>3
  <2>8. \A q \in R : f[q] \in 1 .. k
    BY <2>6, <2>7
  <2>9. \A v \in 1 .. k : \E q \in R : f[q] = v
    <3>1. \A v \in 1 .. k : v \in 1 .. n
      BY <2>2, <2>5
    <3> QED BY <1>1, <2>6, <3>1
  <2>10. \A q, r \in R : f[q] = f[r] => q = r
    BY <1>4, <2>7
  <2>11. Cardinality(R) = k
    <3>1. Numbers(f, R, k)
      BY <2>8, <2>9, <2>10 DEF Numbers
    <3> QED BY <2>5, <3>1, CountByNumber
  <2>12. Mark(text, p) = 1 + Cardinality(R)
    BY <2>3 DEF Mark, S
  <2> QED BY <2>1, <2>5, <2>11, <2>12
<1> QED BY <1>1, <1>3, <1>5, <1>6 DEF S

\* What the driver binds is what the compiler bound.
LEMMA BoundIsTold ==
  ASSUME NEW text, InOrder(text, 0, Len(args)), IsSeq(args),
         DOMAIN text \subseteq Int, \A i \in DOMAIN text : DOMAIN text[i].slots \subseteq Int
  PROVE  Executable(text) /\ Bound(text) = Told(text, args)
<1>1. Len(args) \in Nat /\ DOMAIN args = 1 .. Len(args)
  BY IsSeqLen
<1>2. /\ Cardinality(Places(text)) = Len(args)
      /\ \A p \in Places(text) : Shown(text, p) \in 1 .. Len(args) /\ ArgumentOf(text, p) = Shown(text, p)
  BY <1>1, Numbered DEF ArgumentOf
<1>3. Executable(text)
  BY <1>1, <1>2 DEF Executable
<1>4. ASSUME NEW i \in DOMAIN text
      PROVE  [j \in DOMAIN text[i].slots |-> args[ArgumentOf(text, <<i, j>>)]]
               = [j \in DOMAIN text[i].slots |-> args[text[i].slots[j]]]
  <2>1. \A j \in DOMAIN text[i].slots : <<i, j>> \in Places(text) /\ Shown(text, <<i, j>>) = text[i].slots[j]
    BY DEF Places, Shown
  <2>2. \A j \in DOMAIN text[i].slots : ArgumentOf(text, <<i, j>>) = text[i].slots[j]
    BY <1>2, <2>1
  <2> QED BY <2>2
<1>5. Bound(text) = Told(text, args)
  BY <1>4 DEF Bound, Told, Tell
<1> QED BY <1>3, <1>5

(***************************************************************************)
(* One operator on one cell, as it is meant.                               *)
(***************************************************************************)
LEMMA HoldsSame == ASSUME NEW A, NEW B, A <=> B PROVE Holds(A) = Holds(B)
BY DEF Holds

Argument(f, c, i) == Read(f.type, c.values[i])
Arguments(f, c) == {Argument(f, c, i) : i \in DOMAIN c.values}
Keys(c) == {c.pairs[i].key : i \in DOMAIN c.pairs}
ChoicesHold(c, m) ==
  \A i \in DOMAIN c.pairs :
    \/ c.pairs[i].values = <<>>
    \/ c.pairs[i].key \in DOMAIN m /\ m[c.pairs[i].key] \in ToSet(c.pairs[i].values)
\* What the dialects ask: every value of every pair.
HasPairs(c, m) ==
  \A i \in DOMAIN c.pairs : \A j \in DOMAIN c.pairs[i].values :
    c.pairs[i].key \in DOMAIN m /\ m[c.pairs[i].key] = c.pairs[i].values[j]
Alike(f, c, x, match) == <<Lower[x], Lower[Argument(f, c, 1)]>> \in Affixes[match]

LEMMA OnCellScalar ==
  ASSUME NEW f, NEW c, NEW x
  PROVE  /\ c.op = "_eq" => OnCell(f, c, x) = (x = Argument(f, c, 1))
         /\ c.op = "_ne" => OnCell(f, c, x) = (x # Argument(f, c, 1))
         /\ c.op = "_in" => OnCell(f, c, x) = (x \in Arguments(f, c))
         /\ c.op = "_nin" => OnCell(f, c, x) = (x \notin Arguments(f, c))
BY Zenon DEF OnCell, Argument, Arguments

LEMMA OnCellOrder ==
  ASSUME NEW f, NEW c, NEW x
  PROVE  /\ c.op = "_gt" => OnCell(f, c, x) = (x > Argument(f, c, 1))
         /\ c.op = "_gte" => OnCell(f, c, x) = (x >= Argument(f, c, 1))
         /\ c.op = "_lt" => OnCell(f, c, x) = (x < Argument(f, c, 1))
         /\ c.op = "_lte" => OnCell(f, c, x) = (x <= Argument(f, c, 1))
         /\ c.op = "_between" => OnCell(f, c, x) = (Argument(f, c, 1) <= x /\ x <= Argument(f, c, 2))
BY Zenon DEF OnCell, Argument

LEMMA OnCellMatch ==
  ASSUME NEW f, NEW c, NEW x
  PROVE  /\ c.op = "_like" => OnCell(f, c, x) = Alike(f, c, x, "substring")
         /\ c.op = "_starts_with" => OnCell(f, c, x) = Alike(f, c, x, "prefix")
         /\ c.op = "_ends_with" => OnCell(f, c, x) = Alike(f, c, x, "suffix")
         /\ c.op = "_last" => OnCell(f, c, x) = (-Period(c) <= x /\ x <= 0)
         /\ c.op = "_within" => OnCell(f, c, x) = (0 <= x /\ x <= Period(c))
BY Zenon DEF OnCell, Argument, Alike

LEMMA OnCellArray ==
  ASSUME NEW f, NEW c, NEW x
  PROVE  /\ c.op = "_contains" => OnCell(f, c, x) = (Arguments(f, c) \subseteq x)
         /\ c.op = "_contains_any" => OnCell(f, c, x) = (Arguments(f, c) \cap x # {})
         /\ c.op = "_not_contains" => OnCell(f, c, x) = ~(Arguments(f, c) \subseteq x)
         /\ c.op = "_not_contains_any" => OnCell(f, c, x) = (Arguments(f, c) \cap x = {})
BY Zenon DEF OnCell, Argument, Arguments

LEMMA OnCellMap ==
  ASSUME NEW f, NEW c, NEW x
  PROVE  /\ c.op = "_has_keys" => OnCell(f, c, x) = (Keys(c) \subseteq DOMAIN x)
         /\ c.op = "_not_has_keys" => OnCell(f, c, x) = ~(Keys(c) \subseteq DOMAIN x)
         /\ c.op = "_has_key_values" => OnCell(f, c, x) = ChoicesHold(c, x)
         /\ c.op = "_not_has_key_values" => OnCell(f, c, x) = ~ChoicesHold(c, x)
BY Zenon DEF OnCell, Keys, ChoicesHold

\* Where no map holds one of several values asked of a key, a choice among them
\* and all of them are the same.
LEMMA ChoicesAre ==
  ASSUME NEW c, c.pairs \in Seq(KeyValue), NEW m, ValuesAgree(c, m)
  PROVE  ChoicesHold(c, m) <=> HasPairs(c, m)
<1>1. ASSUME NEW i \in DOMAIN c.pairs
      PROVE  (\/ c.pairs[i].values = <<>>
              \/ c.pairs[i].key \in DOMAIN m /\ m[c.pairs[i].key] \in ToSet(c.pairs[i].values))
             <=> (\A j \in DOMAIN c.pairs[i].values :
                    c.pairs[i].key \in DOMAIN m /\ m[c.pairs[i].key] = c.pairs[i].values[j])
  <2>1. PICK key, values : key = c.pairs[i].key /\ values = c.pairs[i].values
    OBVIOUS
  <2>2. key \in DOMAIN m /\ m[key] \in ToSet(values) => ToSet(values) = {m[key]}
    BY <1>1, <2>1 DEF ValuesAgree
  <2>3. values \in Seq(Text)
    <3>1. c.pairs[i] \in KeyValue
      BY <1>1
    <3> QED BY <2>1, <3>1 DEF KeyValue
  <2>4. values = <<>> => DOMAIN values = {}
    BY EmptySeq
  <2>5. values # <<>> => 1 \in DOMAIN values
    BY <2>3
  <2>6. ToSet(values) = {values[j] : j \in DOMAIN values}
    BY DEF ToSet
  <2>7. CASE values = <<>>
    BY <2>1, <2>4, <2>7
  <2>8. CASE values # <<>>
    <3>1. ASSUME key \in DOMAIN m, m[key] \in ToSet(values)
          PROVE  \A j \in DOMAIN values : key \in DOMAIN m /\ m[key] = values[j]
      BY <2>2, <2>6, <3>1
    <3>2. ASSUME \A j \in DOMAIN values : key \in DOMAIN m /\ m[key] = values[j]
          PROVE  key \in DOMAIN m /\ m[key] \in ToSet(values)
      BY <2>5, <2>6, <2>8, <3>2
    <3> QED BY <2>1, <2>8, <3>1, <3>2
  <2> QED BY <2>7, <2>8
<1> QED BY <1>1, Zenon DEF ChoicesHold, HasPairs

(***************************************************************************)
(* What a renderer's text is worth.                                        *)
(***************************************************************************)
\* r is the text of something worth v on the row, a being bound before.
Tells(r, a, row, v) ==
  /\ Neat(r.text) /\ r.text # <<>> /\ IsSeq(r.args)
  /\ Worth(r.text, a \o r.args, row) = v

Connectives == {"(", ")", "NOT", "AND", "OR"}

LEMMA BoundHere ==
  ASSUME NEW a, NEW b, IsSeq(a), IsSeq(b), NEW k \in Nat, NEW n \in Nat, k + n <= Len(b)
  PROVE  [j \in 1 .. n |-> (a \o b)[Len(a) + k + j]] = [j \in 1 .. n |-> b[k + j]]
<1>1. Len(a) \in Nat
  BY IsSeqLen
<1>2. PICK s : s = a \o b
  OBVIOUS
<1>3. \A i \in 1 .. Len(b) : s[Len(a) + i] = b[i]
  BY <1>2, IsSeqConcat
<1>4. Len(b) \in Nat
  BY IsSeqLen
<1>5. ASSUME NEW j \in 1 .. n PROVE s[Len(a) + k + j] = b[k + j]
  <2>1. k + j \in 1 .. Len(b) /\ Len(a) + k + j = Len(a) + (k + j)
    BY <1>1, <1>4
  <2> QED BY <1>3, <2>1
<1>6. [j \in 1 .. n |-> s[Len(a) + k + j]] = [j \in 1 .. n |-> b[k + j]]
  BY <1>5
<1> QED BY <1>2, <1>6

LEMMA AllOfIt ==
  ASSUME NEW a, NEW b, IsSeq(a), IsSeq(b)
  PROVE  [j \in 1 .. Len(b) |-> (a \o b)[Len(a) + j]] = b
<1>1. Len(b) \in Nat /\ b = [j \in 1 .. Len(b) |-> b[j]]
  <2>1. PICK R : b \in Seq(R)
    BY DEF IsSeq
  <2>2. Len(b) \in Nat /\ b \in [1 .. Len(b) -> R]
    BY <2>1, LenProperties
  <2> QED BY <2>2
<1>2. PICK s : s = a \o b
  OBVIOUS
<1>3. \A i \in 1 .. Len(b) : s[Len(a) + i] = b[i]
  BY <1>2, IsSeqConcat
<1>4. [j \in 1 .. Len(b) |-> s[Len(a) + j]] = [j \in 1 .. Len(b) |-> b[j]]
  BY <1>3
<1> QED BY <1>1, <1>2, <1>4

LEMMA OneTells ==
  ASSUME NEW a, NEW bound, IsSeq(a), IsSeq(bound), NEW sym, sym \notin Connectives,
         NEW row, NEW col \in DOMAIN row
  PROVE  Tells(One(sym, col, Len(a), bound), a, row, Test(sym, <<>>, bound, row[col]))
<1>1. PICK x : x = Predicate(sym, col, Len(a), Len(bound))
  OBVIOUS
<1>2. x.sym = sym /\ x.col = col /\ x.lit = <<>> /\ x.slots = [i \in 1 .. Len(bound) |-> Len(a) + i]
  BY <1>1 DEF Predicate
<1>3. PICK b : b = a \o bound
  OBVIOUS
<1>4. bound = [j \in 1 .. Len(bound) |-> b[Len(a) + j]]
  BY <1>3, AllOfIt
<1>5. DOMAIN x.slots = 1 .. Len(bound) /\ \A j \in 1 .. Len(bound) : x.slots[j] = Len(a) + j
  BY <1>2
<1>6. bound = [j \in DOMAIN x.slots |-> b[x.slots[j]]]
  BY <1>4, <1>5
<1>7. x.sym \notin {"(", ")", "NOT", "AND", "OR"} /\ x.col \in DOMAIN row
  BY <1>2 DEF Connectives
<1>8. Neat(<<x>>) /\ <<x>> # <<>> /\ Worth(<<x>>, b, row) = Test(x.sym, x.lit, bound, row[x.col])
  BY <1>6, <1>7, WorthTest
<1>9. One(sym, col, Len(a), bound) = [text |-> <<x>>, args |-> bound]
  BY <1>1 DEF One
<1> QED BY <1>2, <1>3, <1>8, <1>9 DEF Tells

\* What Resolve makes of it.
LEMMA ResolvedTells ==
  ASSUME NEW r, NEW a, NEW row, NEW v, Tells(r, a, row, v)
  PROVE  Tells(Resolved(r), a, row, v) /\ Resolved(r).ok
BY DEF Tells, Resolved

LEMMA TestOf ==
  ASSUME NEW sym, sym \notin {"IS NULL", "IS NOT NULL"}, NEW lit, NEW b, NEW cell
  PROVE  /\ cell[1] = "null" => Test(sym, lit, b, cell) = IF sym \in OverJsonEach THEN "F" ELSE "U"
         /\ cell[1] = "set" => Test(sym, lit, b, cell) = Holds(OverArray(sym, cell[2], b))
         /\ cell[1] = "map" => Test(sym, lit, b, cell) = OverMap(sym, cell[2], b)
         /\ cell[1] \in {"str", "num", "bool", "time"} => Test(sym, lit, b, cell) = OverScalar(sym, lit, b, cell)
BY DEF Test

LEMMA OnColumnIs ==
  ASSUME NEW f, NEW c, c.op \notin NullTests, NEW cell
  PROVE  /\ AsksNothing(f, c) => OnColumn(f, c, cell) = "none"
         /\ ~AsksNothing(f, c) => OnColumn(f, c, cell) =
              IF cell[1] = "null" THEN "U" ELSE Holds(OnCell(f, c, cell[2]))
BY DEF OnColumn

(***************************************************************************)
(* Comparisons.                                                            *)
(***************************************************************************)
\* r answers v on the row: with no text it asks nothing.
Answers(r, a, row, v) ==
  /\ r.ok
  /\ Neat(r.text) /\ IsSeq(r.args)
  /\ Worth(r.text, a \o r.args, row) = v

LEMMA TellsAnswers ==
  ASSUME NEW r, NEW a, NEW row, NEW v, Tells(r, a, row, v)
  PROVE  Answers(Resolved(r), a, row, v)
BY DEF Tells, Answers, Resolved

LEMMA SkippedAnswers ==
  ASSUME NEW a, IsSeq(a), NEW row
  PROVE  Answers(Skipped, a, row, "none")
<1>1. Balanced(<<>>) /\ Cuts(<<>>, "OR") = {}
  BY BalancedNothing
<1>2. IsSeq(<<>>)
  BY <1>1 DEF Balanced
<1> QED BY <1>1, <1>2 DEF Answers, Skipped, Resolved, Nothing, Neat, Grouped, Worth

\* Neither a connective nor a test for NULL, nor one that SQLite's json_each
\* answers on NULL.
Plain(sym) == sym \notin Connectives \cup {"IS NULL", "IS NOT NULL"} \cup OverJsonEach

Scalars == {"str", "num", "bool", "time"}

LEMMA PlainTells ==
  ASSUME NEW a, NEW bound, IsSeq(a), IsSeq(bound), NEW sym, Plain(sym),
         NEW row, NEW col \in DOMAIN row, row[col][1] \in Scalars \cup {"null"},
         NEW b, row[col][1] # "null" => OverScalar(sym, <<>>, bound, row[col]) = Holds(b)
  PROVE  Tells(One(sym, col, Len(a), bound), a, row, IF row[col][1] = "null" THEN "U" ELSE Holds(b))
<1>1. sym \notin Connectives /\ sym \notin {"IS NULL", "IS NOT NULL"} /\ sym \notin OverJsonEach
  BY DEF Plain
<1>2. Tells(One(sym, col, Len(a), bound), a, row, Test(sym, <<>>, bound, row[col]))
  BY <1>1, OneTells
<1>3. PICK cell : cell = row[col]
  OBVIOUS
<1>4. Test(sym, <<>>, bound, cell) = IF cell[1] = "null" THEN "U" ELSE Holds(b)
  <2>1. CASE cell[1] = "null"
    BY <1>1, <2>1, TestOf, ZenonT(60)
  <2>2. CASE cell[1] # "null"
    <3>1. cell[1] \in {"str", "num", "bool", "time"}
      BY <1>3, <2>2 DEF Scalars
    <3>2. Test(sym, <<>>, bound, cell) = OverScalar(sym, <<>>, bound, cell)
      BY <1>1, <3>1 DEF Test
    <3> QED BY <1>3, <2>2, <3>2
  <2> QED BY <2>1, <2>2
<1> QED BY <1>2, <1>3, <1>4

LEMMA ComparisonIs ==
  ASSUME NEW f, NEW c, NEW x, c.op \in Equality \cup Ordering
  PROVE  Holds(OnCell(f, c, x)) = Holds(CompareTo(Cmp[c.op], x, Argument(f, c, 1)))
<1>1. PICK y : y = Argument(f, c, 1)
  OBVIOUS
<1>2. /\ CompareTo("=", x, y) = (x = y) /\ CompareTo("!=", x, y) = (x # y)
      /\ CompareTo(">", x, y) = (x > y) /\ CompareTo(">=", x, y) = (x >= y)
      /\ CompareTo("<", x, y) = (x < y) /\ CompareTo("<=", x, y) = (x <= y)
  BY Zenon DEF CompareTo
<1>3. /\ Cmp["_eq"] = "=" /\ Cmp["_ne"] = "!=" /\ Cmp["_gt"] = ">" /\ Cmp["_gte"] = ">="
      /\ Cmp["_lt"] = "<" /\ Cmp["_lte"] = "<="
  BY DEF Cmp
<1>4. c.op \in {"_eq", "_ne", "_gt", "_gte", "_lt", "_lte"}
  BY DEF Equality, Ordering
<1>5. CASE c.op = "_eq"
  <2>1. Cmp[c.op] = Cmp["_eq"]
    BY <1>5
  <2>2. Holds(OnCell(f, c, x)) = Holds(CompareTo(Cmp["_eq"], x, y))
    BY <1>1, <1>2, <1>3, <1>5, OnCellScalar DEF Holds
  <2> QED BY <1>1, <2>1, <2>2
<1>6. CASE c.op = "_ne"
  <2>1. Cmp[c.op] = Cmp["_ne"]
    BY <1>6
  <2>2. Holds(OnCell(f, c, x)) = Holds(CompareTo(Cmp["_ne"], x, y))
    BY <1>1, <1>2, <1>3, <1>6, OnCellScalar DEF Holds
  <2> QED BY <1>1, <2>1, <2>2
<1>7. CASE c.op = "_gt"
  <2>1. Cmp[c.op] = Cmp["_gt"]
    BY <1>7
  <2>2. Holds(OnCell(f, c, x)) = Holds(CompareTo(Cmp["_gt"], x, y))
    BY <1>1, <1>2, <1>3, <1>7, OnCellOrder DEF Holds
  <2> QED BY <1>1, <2>1, <2>2
<1>8. CASE c.op = "_gte"
  <2>1. Cmp[c.op] = Cmp["_gte"]
    BY <1>8
  <2>2. Holds(OnCell(f, c, x)) = Holds(CompareTo(Cmp["_gte"], x, y))
    BY <1>1, <1>2, <1>3, <1>8, OnCellOrder DEF Holds
  <2> QED BY <1>1, <2>1, <2>2
<1>9. CASE c.op = "_lt"
  <2>1. Cmp[c.op] = Cmp["_lt"]
    BY <1>9
  <2>2. Holds(OnCell(f, c, x)) = Holds(CompareTo(Cmp["_lt"], x, y))
    BY <1>1, <1>2, <1>3, <1>9, OnCellOrder DEF Holds
  <2> QED BY <1>1, <2>1, <2>2
<1>10. CASE c.op = "_lte"
  <2>1. Cmp[c.op] = Cmp["_lte"]
    BY <1>10
  <2>2. Holds(OnCell(f, c, x)) = Holds(CompareTo(Cmp["_lte"], x, y))
    BY <1>1, <1>2, <1>3, <1>10, OnCellOrder DEF Holds
  <2> QED BY <1>1, <2>1, <2>2
<1> QED BY <1>4, <1>5, <1>6, <1>7, <1>8, <1>9, <1>10

LEMMA ComparisonPlain ==
  ASSUME NEW op \in Equality \cup Ordering
  PROVE  Cmp[op] \in {"=", "!=", ">", ">=", "<", "<="} /\ Plain(Cmp[op])
<1>1. Cmp[op] \in {"=", "!=", ">", ">=", "<", "<="}
  BY DEF Cmp, Equality, Ordering
<1> QED BY <1>1 DEF Plain, Connectives, OverJsonEach

\* A comparison with an argument that is one of the cell's type.
LEMMA CompareTells ==
  ASSUME NEW a, IsSeq(a), NEW f, NEW c, c.op \in Equality \cup Ordering, ~AsksNothing(f, c),
         NEW arg, NEW row, NEW col \in DOMAIN row, row[col][1] \in Scalars \cup {"null"},
         row[col][1] # "null" => Fits(row[col], arg) /\ Cast(row[col], arg) = Argument(f, c, 1)
  PROVE  Answers(Compare(col, c.op, arg, Len(a)), a, row, OnColumn(f, c, row[col]))
<1>1. PICK sym : sym = Cmp[c.op]
  OBVIOUS
<1>2. sym \in {"=", "!=", ">", ">=", "<", "<="} /\ Plain(sym)
  BY <1>1, ComparisonPlain
<1>3. PICK bound : bound = <<arg>>
  OBVIOUS
<1>4. IsSeq(bound) /\ bound[1] = arg
  BY <1>3, IsSeqOne
<1>5. PICK cell : cell = row[col]
  OBVIOUS
<1>6. PICK y : y = Argument(f, c, 1)
  OBVIOUS
<1>7. Fits(cell, arg) /\ Cast(cell, arg) = y =>
        OverScalar(sym, <<>>, bound, cell) = Holds(CompareTo(sym, cell[2], y))
  BY Zenon, <1>2, <1>4 DEF OverScalar
<1>8. Holds(OnCell(f, c, cell[2])) = Holds(CompareTo(sym, cell[2], y))
  BY <1>1, <1>6, ComparisonIs
<1>9. cell[1] # "null" => OverScalar(sym, <<>>, bound, cell) = Holds(OnCell(f, c, cell[2]))
  BY <1>5, <1>6, <1>7, <1>8
<1>10. Tells(One(sym, col, Len(a), bound), a, row, IF cell[1] = "null" THEN "U" ELSE Holds(OnCell(f, c, cell[2])))
  BY Zenon, <1>2, <1>4, <1>5, <1>9, PlainTells
<1>11. c.op \notin NullTests
  BY DEF NullTests, Equality, Ordering
<1>12. Compare(col, c.op, arg, Len(a)) = Resolved(One(sym, col, Len(a), bound))
  BY <1>1, <1>3 DEF Compare
<1> QED BY <1>5, <1>10, <1>11, <1>12, OnColumnIs, TellsAnswers

(***************************************************************************)
(* Strings, ids and enums.                                                 *)
(***************************************************************************)
LEMMA AnchorIs ==
  /\ Anchor["_like"] = "substring" /\ Anchor["_starts_with"] = "prefix" /\ Anchor["_ends_with"] = "suffix"
BY DEF Anchor

LEMMA MatchingIs ==
  ASSUME NEW f, NEW c, NEW x, c.op \in Matching
  PROVE  OnCell(f, c, x) = Alike(f, c, x, Anchor[c.op])
<1>1. c.op \in {"_like", "_starts_with", "_ends_with"}
  BY DEF Matching
<1>2. CASE c.op = "_like"
  BY <1>2, OnCellMatch, AnchorIs
<1>3. CASE c.op = "_starts_with"
  BY <1>3, OnCellMatch, AnchorIs
<1>4. CASE c.op = "_ends_with"
  BY <1>4, OnCellMatch, AnchorIs
<1> QED BY <1>1, <1>2, <1>3, <1>4

LEMMA NeedleIs ==
  ASSUME NEW pattern, NEW match
  PROVE  /\ IsSeq(Needle(pattern, match))
         /\ Needle(pattern, match)[1][2] = match /\ Needle(pattern, match)[1][3] = pattern
<1>1. Needle(pattern, match)[1] = <<"like", match, pattern>>
  BY IsSeqOne DEF Needle
<1> QED BY <1>1, IsSeqOne DEF Needle

\* The needle is in the cell, both lower-cased, in every dialect.
LEMMA LikeTells ==
  ASSUME NEW d \in Dialect, NEW a, IsSeq(a), NEW f, NEW c, c.op \in Matching,
         NEW pattern, pattern = Argument(f, c, 1),
         NEW row, NEW col \in DOMAIN row, row[col][1] \in {"str", "null"}
  PROVE  Answers(Resolved(Like(d, col, pattern, Anchor[c.op], Len(a))), a, row, OnColumn(f, c, row[col]))
<1>1. PICK match : match = Anchor[c.op]
  OBVIOUS
<1>2. PICK cell : cell = row[col]
  OBVIOUS
<1>3. PICK b : b = (<<Lower[cell[2]], Lower[pattern]>> \in Affixes[match])
  OBVIOUS
<1>4. Holds(OnCell(f, c, cell[2])) = Holds(b)
  BY <1>1, <1>3, MatchingIs DEF Alike
<1>5. cell[1] \in Scalars \cup {"null"}
  BY <1>2 DEF Scalars
<1>6. ASSUME NEW sym \in {"ILIKE", "LIKE ESCAPE"}
      PROVE  Tells(One(sym, col, Len(a), Needle(pattern, match)), a, row, IF cell[1] = "null" THEN "U" ELSE Holds(b))
  <2>1. Plain(sym)
    BY DEF Plain, Connectives, OverJsonEach
  <2>2. PICK bound : bound = Needle(pattern, match)
    OBVIOUS
  <2>3. IsSeq(bound) /\ bound[1][2] = match /\ bound[1][3] = pattern
    BY <2>2, NeedleIs
  <2>4. cell[1] # "null" => OverScalar(sym, <<>>, bound, cell) = Holds(b)
    <3>1. cell[1] = "str" => OverScalar(sym, <<>>, bound, cell) = Holds(IsLike(cell, bound[1]))
      BY DEF OverScalar
    <3>2. IsLike(cell, bound[1]) = b
      BY <1>3, <2>3 DEF IsLike
    <3> QED BY <1>2, <3>1, <3>2
  <2> QED BY <1>2, <1>5, <2>1, <2>2, <2>3, <2>4, PlainTells
<1>7. Tells(One("LOWER LIKE", col, Len(a), Needle(Lower[pattern], match)), a, row,
            IF cell[1] = "null" THEN "U" ELSE Holds(b))
  <2>1. Plain("LOWER LIKE")
    BY DEF Plain, Connectives, OverJsonEach
  <2>2. PICK bound : bound = Needle(Lower[pattern], match)
    OBVIOUS
  <2>3. IsSeq(bound) /\ bound[1][2] = match /\ bound[1][3] = Lower[pattern]
    BY <2>2, NeedleIs
  <2>4. cell[1] # "null" => OverScalar("LOWER LIKE", <<>>, bound, cell) = Holds(b)
    <3>1. cell[1] = "str" => OverScalar("LOWER LIKE", <<>>, bound, cell)
                             = Holds(<<Lower[cell[2]], bound[1][3]>> \in Affixes[bound[1][2]])
      BY DEF OverScalar
    <3> QED BY <1>2, <1>3, <2>3, <3>1
  <2> QED BY <1>2, <1>5, <2>1, <2>2, <2>3, <2>4, PlainTells
<1>8. d \in {"clickhouse", "postgres", "sqlite", "mysql"}
  BY DEF Dialect
<1>9. PICK r : r = Like(d, col, pattern, match, Len(a))
  OBVIOUS
<1>10. Tells(r, a, row, IF cell[1] = "null" THEN "U" ELSE Holds(b))
  BY <1>6, <1>7, <1>8, <1>9 DEF Like, ClickHouseLike, PostgresLike, SQLiteLike, MySQLLike
<1>11. c.op \notin NullTests /\ ~AsksNothing(f, c)
  BY DEF NullTests, AsksNothing, Matching, Membership, Containment, KeyTests, KeyValueTests
<1> QED BY <1>1, <1>2, <1>4, <1>9, <1>10, <1>11, OnColumnIs, TellsAnswers

LEMMA StrsAre ==
  ASSUME NEW vals, IsSeq(vals)
  PROVE  /\ IsSeq(Strings(vals)) /\ DOMAIN Strings(vals) = DOMAIN vals
         /\ \A i \in DOMAIN vals : Strings(vals)[i] = AsString(vals[i])
         /\ IsSeq(Strs(Strings(vals))) /\ DOMAIN Strs(Strings(vals)) = DOMAIN vals
         /\ Len(Strs(Strings(vals))) = Len(vals) /\ Len(Strings(vals)) = Len(vals)
         /\ \A i \in DOMAIN vals : Strs(Strings(vals))[i] = <<"str", AsString(vals[i])>>
<1>1. IsSeq(Strings(vals)) /\ DOMAIN Strings(vals) = DOMAIN vals
      /\ \A i \in DOMAIN vals : Strings(vals)[i] = AsString(vals[i])
  BY StringsIsSeq DEF Strings
<1>6. Len(vals) \in Nat /\ DOMAIN vals = 1 .. Len(vals)
  BY IsSeqLen
<1>2. PICK s : s = Strings(vals)
  OBVIOUS
<1>3. IsSeq(Strs(s)) /\ Len(Strs(s)) = Len(s)
  BY <1>1, <1>2, StrsIsSeq
<1>4. DOMAIN Strs(s) = DOMAIN s /\ \A i \in DOMAIN s : Strs(s)[i] = <<"str", s[i]>>
  BY DEF Strs
<1>5. Len(s) = Len(vals)
  <2>1. s = [i \in 1 .. Len(vals) |-> s[i]]
    BY <1>2, <1>6 DEF Strings
  <2> QED BY <1>6, <2>1, IsSeqFunction
<1> QED BY <1>1, <1>2, <1>3, <1>4, <1>5

\* A list of placeholders, each bound to one value.
LEMMA InListTells ==
  ASSUME NEW a, IsSeq(a), NEW f, NEW c, c.op \in Membership, c.values # <<>>,
         NEW bound, IsSeq(bound), DOMAIN bound = DOMAIN c.values,
         NEW row, NEW col \in DOMAIN row, row[col][1] \in Scalars \cup {"null"},
         row[col][1] # "null" => \A i \in DOMAIN bound :
                                   Fits(row[col], bound[i]) /\ Cast(row[col], bound[i]) = Argument(f, c, i)
  PROVE  Answers(InList(col, c.op, bound, Len(a)), a, row, OnColumn(f, c, row[col]))
<1>1. PICK sym : sym = IF c.op = "_nin" THEN "NOT IN" ELSE "IN"
  OBVIOUS
<1>2. c.op \in {"_in", "_nin"}
  BY DEF Membership
<1>3. sym \in {"IN", "NOT IN"} /\ (sym = "IN" <=> c.op = "_in") /\ Plain(sym)
  BY <1>1, <1>2 DEF Plain, Connectives, OverJsonEach
<1>4. PICK cell : cell = row[col]
  OBVIOUS
<1>5. PICK x : x = cell[2]
  OBVIOUS
<1>6. cell[1] # "null" => OverScalar(sym, <<>>, bound, cell) = Holds(OnCell(f, c, x))
  <2> SUFFICES ASSUME cell[1] # "null" PROVE OverScalar(sym, <<>>, bound, cell) = Holds(OnCell(f, c, x))
    OBVIOUS
  <2>1. \A i \in DOMAIN bound : Fits(cell, bound[i]) /\ Cast(cell, bound[i]) = Argument(f, c, i)
    BY <1>4
  <2>2. OverScalar(sym, <<>>, bound, cell)
          = IF \A i \in DOMAIN bound : Fits(cell, bound[i])
            THEN Holds((sym = "IN") <=> (\E i \in DOMAIN bound : Cast(cell, bound[i]) = cell[2]))
            ELSE "error"
    BY <1>3 DEF OverScalar
  <2>3. (\E i \in DOMAIN bound : Cast(cell, bound[i]) = cell[2]) <=> x \in Arguments(f, c)
    BY <1>5, <2>1 DEF Arguments
  <2>4. CASE c.op = "_in"
    <3>1. ((sym = "IN") <=> (\E i \in DOMAIN bound : Cast(cell, bound[i]) = cell[2])) <=> x \in Arguments(f, c)
      BY <1>3, <2>3, <2>4
    <3>2. OverScalar(sym, <<>>, bound, cell) = Holds(x \in Arguments(f, c))
      BY <2>1, <2>2, <3>1 DEF Holds
    <3>3. OnCell(f, c, x) = (x \in Arguments(f, c))
      BY <2>4, OnCellScalar
    <3> QED BY <3>2, <3>3
  <2>5. CASE c.op = "_nin"
    <3>1. ((sym = "IN") <=> (\E i \in DOMAIN bound : Cast(cell, bound[i]) = cell[2])) <=> x \notin Arguments(f, c)
      BY <1>3, <2>3, <2>5
    <3>2. OverScalar(sym, <<>>, bound, cell) = Holds(x \notin Arguments(f, c))
      BY <2>1, <2>2, <3>1 DEF Holds
    <3>3. OnCell(f, c, x) = (x \notin Arguments(f, c))
      BY <2>5, OnCellScalar
    <3> QED BY <3>2, <3>3
  <2> QED BY <1>2, <2>4, <2>5
<1>7. Tells(One(sym, col, Len(a), bound), a, row, IF cell[1] = "null" THEN "U" ELSE Holds(OnCell(f, c, x)))
  BY <1>3, <1>4, <1>6, PlainTells
<1>9. c.op \notin NullTests /\ ~AsksNothing(f, c)
  BY DEF NullTests, AsksNothing, Membership, Containment, KeyTests, KeyValueTests
<1>10. InList(col, c.op, bound, Len(a)) = Resolved(One(sym, col, Len(a), bound))
  BY <1>1 DEF InList
<1> QED BY <1>4, <1>5, <1>7, <1>9, <1>10, OnColumnIs, TellsAnswers

\* All the values in one array: Postgres and SQLite, for strings and enums.
LEMMA ScalarInTells ==
  ASSUME NEW d, HasScalarIn(d), NEW a, IsSeq(a), NEW f, f.type \in {"string", "id", "enum"},
         NEW c, c.op \in Membership, c.values # <<>>, IsSeq(c.values),
         NEW row, NEW col \in DOMAIN row, row[col][1] \in {"str", "null"}
  PROVE  Answers(Resolved(ScalarIn(d, col, Strings(c.values), c.op = "_nin", Len(a))), a, row,
                 OnColumn(f, c, row[col]))
<1>1. PICK neg : neg = (c.op = "_nin")
  OBVIOUS
<1>2. c.op \in {"_in", "_nin"}
  BY DEF Membership
<1>3. PICK vals : vals = Strings(c.values)
  OBVIOUS
<1>4. PICK bound : bound = List(vals)
  OBVIOUS
<1>5. IsSeq(bound) /\ bound[1] = <<"list", vals>>
  BY <1>4, IsSeqOne DEF List
<1>6. PICK sym : sym = IF d = "postgres" THEN (IF neg THEN "<> ALL" ELSE "= ANY")
                       ELSE (IF neg THEN "NOT IN json_each" ELSE "IN json_each")
  OBVIOUS
<1>7. /\ sym \in {"= ANY", "IN json_each", "<> ALL", "NOT IN json_each"} /\ Plain(sym)
      /\ sym \in {"= ANY", "IN json_each"} <=> c.op = "_in"
  BY <1>1, <1>2, <1>6 DEF Plain, Connectives, OverJsonEach
<1>8. PICK cell : cell = row[col]
  OBVIOUS
<1>9. PICK x : x = cell[2]
  OBVIOUS
<1>10. ToSet(vals) = Arguments(f, c)
  <2>1. DOMAIN vals = DOMAIN c.values /\ \A i \in DOMAIN c.values : vals[i] = AsString(c.values[i])
    BY <1>3, StrsAre
  <2>2. \A i \in DOMAIN c.values : Argument(f, c, i) = AsString(c.values[i])
    BY DEF Argument, Read
  <2> QED BY <2>1, <2>2 DEF ToSet, Arguments
<1>11. cell[1] # "null" => OverScalar(sym, <<>>, bound, cell) = Holds(OnCell(f, c, x))
  <2> SUFFICES ASSUME cell[1] # "null" PROVE OverScalar(sym, <<>>, bound, cell) = Holds(OnCell(f, c, x))
    OBVIOUS
  <2>1. cell[1] = "str"
    BY <1>8
  <2>2. OverScalar(sym, <<>>, bound, cell)
          = Holds((sym \in {"= ANY", "IN json_each"}) <=> (cell[2] \in ToSet(bound[1][2])))
    BY <1>7, <2>1 DEF OverScalar
  <2>3. cell[2] \in ToSet(bound[1][2]) <=> x \in Arguments(f, c)
    BY <1>5, <1>9, <1>10
  <2>4. CASE c.op = "_in"
    <3>1. ((sym \in {"= ANY", "IN json_each"}) <=> (cell[2] \in ToSet(bound[1][2]))) <=> x \in Arguments(f, c)
      BY <1>7, <2>3, <2>4
    <3>2. OverScalar(sym, <<>>, bound, cell) = Holds(x \in Arguments(f, c))
      BY <2>2, <3>1 DEF Holds
    <3>3. OnCell(f, c, x) = (x \in Arguments(f, c))
      BY <2>4, OnCellScalar
    <3> QED BY <3>2, <3>3
  <2>5. CASE c.op = "_nin"
    <3>1. ((sym \in {"= ANY", "IN json_each"}) <=> (cell[2] \in ToSet(bound[1][2]))) <=> x \notin Arguments(f, c)
      <4>1. ~(sym \in {"= ANY", "IN json_each"})
        BY <1>7, <2>5
      <4> QED BY <2>3, <4>1
    <3>2. OverScalar(sym, <<>>, bound, cell) = Holds(x \notin Arguments(f, c))
      BY <2>2, <3>1 DEF Holds
    <3>3. OnCell(f, c, x) = (x \notin Arguments(f, c))
      BY <2>5, OnCellScalar
    <3> QED BY <3>2, <3>3
  <2> QED BY <1>2, <2>4, <2>5
<1>12. cell[1] \in Scalars \cup {"null"}
  BY <1>8 DEF Scalars
<1>13. Tells(One(sym, col, Len(a), bound), a, row, IF cell[1] = "null" THEN "U" ELSE Holds(OnCell(f, c, x)))
  BY <1>5, <1>7, <1>8, <1>11, <1>12, PlainTells, ZenonT(60)
<1>14. c.op \notin NullTests /\ ~AsksNothing(f, c)
  BY DEF NullTests, AsksNothing, Membership, Containment, KeyTests, KeyValueTests
<1>15. ScalarIn(d, col, vals, neg, Len(a)) = One(sym, col, Len(a), bound)
  BY <1>4, <1>6 DEF HasScalarIn, ScalarIn, PostgresScalarIn, SQLiteScalarIn
<1> QED BY <1>1, <1>3, <1>8, <1>9, <1>13, <1>14, <1>15, OnColumnIs, TellsAnswers

LEMMA ScalarMeans ==
  ASSUME NEW d \in Dialect, NEW a, IsSeq(a), NEW f, f.type \in {"string", "id", "enum"},
         NEW c, IsSeq(c.values), c.op \in Equality \cup Membership \cup Matching,
         NEW row, NEW col \in DOMAIN row, row[col][1] \in {"str", "null"},
         ResolveScalar(d, f, col, c, Len(a)).ok
  PROVE  Answers(ResolveScalar(d, f, col, c, Len(a)), a, row, OnColumn(f, c, row[col]))
<1> DEFINE v == First(c.values)
<1>1. row[col][1] \in Scalars \cup {"null"}
  BY DEF Scalars
<1>2. \A i : Argument(f, c, i) = AsString(c.values[i])
  BY DEF Argument, Read
<1>3. CASE c.op \in Equality \cup Matching
  <2>1. ResolveScalar(d, f, col, c, Len(a)) =
          IF ~ScalarOk(f, v) THEN BadValue(<<>>)
          ELSE IF c.op \in Equality THEN Compare(col, c.op, <<"str", AsString(v)>>, Len(a))
          ELSE Resolved(Like(d, col, AsString(v), Anchor[c.op], Len(a)))
    BY <1>3 DEF ResolveScalar, Equality, Matching, Membership
  <2>2. ScalarOk(f, v)
    BY <2>1, BadValueIsBad
  <2>3. c.values # <<>>
    <3>1. ~IsString(Nil)
      BY DEF IsString, Nil
    <3> QED BY <2>2, <3>1, FirstValue DEF ScalarOk
  <2>4. v = c.values[1]
    BY <2>3 DEF First
  <2>5. AsString(v) = Argument(f, c, 1)
    BY <1>2, <2>4
  <2>6. CASE c.op \in Equality
    <3>1. ~AsksNothing(f, c)
      BY <2>6 DEF AsksNothing, Equality, Membership, Containment, KeyTests, KeyValueTests
    <3>2. PICK arg : arg = <<"str", AsString(v)>>
      OBVIOUS
    <3>3. row[col][1] # "null" => Fits(row[col], arg) /\ Cast(row[col], arg) = Argument(f, c, 1)
      BY <2>5, <3>2 DEF Fits, Cast
    <3>4. Answers(Compare(col, c.op, arg, Len(a)), a, row, OnColumn(f, c, row[col]))
      BY <1>1, <2>6, <3>1, <3>3, CompareTells
    <3> QED BY <2>1, <2>2, <2>6, <3>2, <3>4
  <2>7. CASE c.op \in Matching
    <3>1. c.op \notin Equality
      BY <2>7 DEF Matching, Equality
    <3>2. PICK p : p = AsString(v)
      OBVIOUS
    <3>3. Answers(Resolved(Like(d, col, p, Anchor[c.op], Len(a))), a, row, OnColumn(f, c, row[col]))
      BY <2>5, <2>7, <3>2, LikeTells
    <3> QED BY <2>1, <2>2, <3>1, <3>2, <3>3
  <2> QED BY <1>3, <2>6, <2>7
<1>4. CASE c.op \in Membership
  <2>1. ResolveScalar(d, f, col, c, Len(a)) =
          IF \E i \in DOMAIN c.values : ~ScalarOk(f, c.values[i]) THEN BadValue(<<>>)
          ELSE IF c.values = <<>> THEN Skipped
          ELSE IF f.type \in {"string", "enum"} /\ HasScalarIn(d)
          THEN Resolved(ScalarIn(d, col, Strings(c.values), c.op = "_nin", Len(a)))
          ELSE InList(col, c.op, Strs(Strings(c.values)), Len(a))
    BY <1>4 DEF ResolveScalar, Equality, Matching, Membership
  <2>2. ~\E i \in DOMAIN c.values : ~ScalarOk(f, c.values[i])
    BY <2>1, BadValueIsBad
  <2>3. CASE c.values = <<>>
    <3>1. AsksNothing(f, c) /\ c.op \notin NullTests
      BY <1>4, <2>3 DEF AsksNothing, NullTests, Membership
    <3>2. OnColumn(f, c, row[col]) = "none"
      BY <3>1, OnColumnIs
    <3> QED BY <2>1, <2>2, <2>3, <3>2, SkippedAnswers
  <2>4. CASE c.values # <<>> /\ f.type \in {"string", "enum"} /\ HasScalarIn(d)
    BY <1>4, <2>1, <2>2, <2>4, ScalarInTells
  <2>5. CASE c.values # <<>> /\ ~(f.type \in {"string", "enum"} /\ HasScalarIn(d))
    <3>1. PICK bound : bound = Strs(Strings(c.values))
      OBVIOUS
    <3>2. IsSeq(bound) /\ DOMAIN bound = DOMAIN c.values
          /\ \A i \in DOMAIN c.values : bound[i] = <<"str", AsString(c.values[i])>>
      BY <3>1, StrsAre
    <3>3. row[col][1] # "null" => \A i \in DOMAIN bound :
            Fits(row[col], bound[i]) /\ Cast(row[col], bound[i]) = Argument(f, c, i)
      BY <1>2, <3>2 DEF Fits, Cast
    <3>4. Answers(InList(col, c.op, bound, Len(a)), a, row, OnColumn(f, c, row[col]))
      BY <1>1, <1>4, <2>5, <3>2, <3>3, InListTells
    <3> QED BY <2>1, <2>2, <2>5, <3>1, <3>4
  <2> QED BY <2>3, <2>4, <2>5
<1> QED BY <1>3, <1>4

(***************************************************************************)
(* Numbers and booleans.                                                   *)
(***************************************************************************)
LEMMA FloatsAre ==
  ASSUME NEW vals, IsSeq(vals)
  PROVE  /\ IsSeq(Floats(vals)) /\ DOMAIN Floats(vals) = DOMAIN vals
         /\ \A i \in DOMAIN vals : Floats(vals)[i] = <<"num", AsFloat(vals[i])>>
BY FloatsIsSeq DEF Floats

\* Two arguments of the cell's type, the ends of a range.
LEMMA BetweenTells ==
  ASSUME NEW a, IsSeq(a), NEW f, NEW c, c.op = "_between",
         NEW bound, IsSeq(bound),
         NEW row, NEW col \in DOMAIN row, row[col][1] \in {"num", "time", "null"},
         row[col][1] # "null" => \A i \in {1, 2} :
            Fits(row[col], bound[i]) /\ Cast(row[col], bound[i]) = Argument(f, c, i)
  PROVE  Answers(Resolved(One("BETWEEN", col, Len(a), bound)), a, row, OnColumn(f, c, row[col]))
<1>1. PICK cell : cell = row[col]
  OBVIOUS
<1>2. PICK x : x = cell[2]
  OBVIOUS
<1>3. cell[1] # "null" => OverScalar("BETWEEN", <<>>, bound, cell) = Holds(OnCell(f, c, x))
  <2> SUFFICES ASSUME cell[1] # "null" PROVE OverScalar("BETWEEN", <<>>, bound, cell) = Holds(OnCell(f, c, x))
    OBVIOUS
  <2>1. /\ Fits(cell, bound[1]) /\ Cast(cell, bound[1]) = Argument(f, c, 1)
        /\ Fits(cell, bound[2]) /\ Cast(cell, bound[2]) = Argument(f, c, 2)
    BY <1>1
  <2>2. OverScalar("BETWEEN", <<>>, bound, cell)
          = IF Fits(cell, bound[1]) /\ Fits(cell, bound[2])
            THEN Holds(Cast(cell, bound[1]) <= cell[2] /\ cell[2] <= Cast(cell, bound[2])) ELSE "error"
    BY <1>1 DEF OverScalar
  <2>3. OverScalar("BETWEEN", <<>>, bound, cell) = Holds(Argument(f, c, 1) <= x /\ x <= Argument(f, c, 2))
    BY <1>2, <2>1, <2>2
  <2>4. OnCell(f, c, x) = (Argument(f, c, 1) <= x /\ x <= Argument(f, c, 2))
    BY OnCellOrder
  <2> QED BY <2>3, <2>4 DEF Holds
<1>4. cell[1] \in Scalars \cup {"null"} /\ Plain("BETWEEN")
  BY <1>1 DEF Scalars, Plain, Connectives, OverJsonEach
<1>5. Tells(One("BETWEEN", col, Len(a), bound), a, row, IF cell[1] = "null" THEN "U" ELSE Holds(OnCell(f, c, x)))
  BY <1>1, <1>3, <1>4, PlainTells
<1>6. c.op \notin NullTests /\ ~AsksNothing(f, c)
  BY DEF NullTests, AsksNothing, Membership, Containment, KeyTests, KeyValueTests
<1> QED BY <1>1, <1>2, <1>5, <1>6, OnColumnIs, TellsAnswers

LEMMA NumericMeans ==
  ASSUME NEW a, IsSeq(a), NEW f, f.type \in {"int", "float"},
         NEW c, IsSeq(c.values), c.op \in Equality \cup Membership \cup Ordering \cup {"_between"},
         NEW row, NEW col \in DOMAIN row, row[col][1] \in {"num", "null"},
         ResolveNumeric(col, c, Len(a)).ok
  PROVE  Answers(ResolveNumeric(col, c, Len(a)), a, row, OnColumn(f, c, row[col]))
<1> DEFINE v == First(c.values)
           bad == SelectInSeq(c.values, LAMBDA x : ~IsFloat(x))
<1>1. row[col][1] \in Scalars \cup {"null"}
  BY DEF Scalars
<1>2. \A i : Argument(f, c, i) = AsFloat(c.values[i])
  BY DEF Argument, Read
<1>3. PICK bound : bound = Floats(c.values)
  OBVIOUS
<1>4. IsSeq(bound) /\ DOMAIN bound = DOMAIN c.values
      /\ \A i \in DOMAIN c.values : bound[i] = <<"num", AsFloat(c.values[i])>>
  BY <1>3, FloatsAre
<1>5. row[col][1] # "null" => \A i \in DOMAIN bound :
        Fits(row[col], bound[i]) /\ Cast(row[col], bound[i]) = Argument(f, c, i)
  BY <1>2, <1>4 DEF Fits, Cast
<1>6. CASE c.op \in Equality \cup Ordering
  <2>1. ResolveNumeric(col, c, Len(a)) =
          IF IsFloat(v) THEN Compare(col, c.op, <<"num", AsFloat(v)>>, Len(a)) ELSE BadValue(<<>>)
    BY <1>6 DEF ResolveNumeric, Equality, Ordering, Membership
  <2>2. IsFloat(v)
    BY <2>1, BadValueIsBad
  <2>3. c.values # <<>>
    <3>1. ~IsFloat(Nil)
      BY DEF IsFloat, Nil
    <3> QED BY <2>2, <3>1, FirstValue
  <2>4. AsFloat(v) = Argument(f, c, 1)
    BY <1>2, <2>3 DEF First
  <2>5. ~AsksNothing(f, c)
    BY <1>6 DEF AsksNothing, Equality, Ordering, Membership, Containment, KeyTests, KeyValueTests
  <2>6. PICK arg : arg = <<"num", AsFloat(v)>>
    OBVIOUS
  <2>7. row[col][1] # "null" => Fits(row[col], arg) /\ Cast(row[col], arg) = Argument(f, c, 1)
    BY <2>4, <2>6 DEF Fits, Cast
  <2>8. Answers(Compare(col, c.op, arg, Len(a)), a, row, OnColumn(f, c, row[col]))
    BY <1>1, <1>6, <2>5, <2>7, CompareTells
  <2> QED BY <2>1, <2>2, <2>6, <2>8
<1>7. CASE c.op \in Membership
  <2>1. ResolveNumeric(col, c, Len(a)) =
          IF c.values = <<>> THEN Skipped
          ELSE IF bad # 0 THEN BadValue(Floats(SubSeq(c.values, 1, bad - 1)))
          ELSE InList(col, c.op, Floats(c.values), Len(a))
    BY <1>7 DEF ResolveNumeric, Equality, Ordering, Membership
  <2> HIDE DEF bad
  <2>2. CASE c.values = <<>>
    <3>1. AsksNothing(f, c) /\ c.op \notin NullTests
      BY <1>7, <2>2 DEF AsksNothing, NullTests, Membership
    <3>2. OnColumn(f, c, row[col]) = "none"
      BY <3>1, OnColumnIs
    <3> QED BY <2>1, <2>2, <3>2, SkippedAnswers
  <2>3. CASE c.values # <<>>
    <3>1. ResolveNumeric(col, c, Len(a)) = InList(col, c.op, bound, Len(a))
      BY <1>3, <2>1, <2>3, BadValueIsBad
    <3>2. Answers(InList(col, c.op, bound, Len(a)), a, row, OnColumn(f, c, row[col]))
      BY <1>1, <1>4, <1>5, <1>7, <2>3, InListTells
    <3> QED BY <3>1, <3>2
  <2> QED BY <2>2, <2>3
<1>8. CASE c.op = "_between"
  <2>1. ResolveNumeric(col, c, Len(a)) =
          IF Len(c.values) = 2 /\ IsFloat(c.values[1]) /\ IsFloat(c.values[2])
          THEN Resolved(One("BETWEEN", col, Len(a), Floats(c.values)))
          ELSE BadValue(<<>>)
    BY <1>8 DEF ResolveNumeric, Equality, Ordering, Membership
  <2>2. Len(c.values) = 2
    BY <2>1, BadValueIsBad
  <2>3. ResolveNumeric(col, c, Len(a)) = Resolved(One("BETWEEN", col, Len(a), bound))
    BY <1>3, <2>1, BadValueIsBad
  <2>4. DOMAIN bound = 1 .. 2
    BY <1>4, <2>2, IsSeqLen
  <2>5. row[col][1] # "null" => \A i \in {1, 2} :
          Fits(row[col], bound[i]) /\ Cast(row[col], bound[i]) = Argument(f, c, i)
    BY <1>5, <2>4
  <2>6. row[col][1] \in {"num", "time", "null"}
    OBVIOUS
  <2>7. Answers(Resolved(One("BETWEEN", col, Len(a), bound)), a, row, OnColumn(f, c, row[col]))
    BY <1>4, <1>8, <2>5, <2>6, BetweenTells
  <2> QED BY <2>3, <2>7
<1> QED BY <1>6, <1>7, <1>8

LEMMA BoolMeans ==
  ASSUME NEW a, IsSeq(a), NEW f, f.type = "bool", NEW c, IsSeq(c.values), c.op \in Equality,
         NEW row, NEW col \in DOMAIN row, row[col][1] \in {"bool", "null"},
         ResolveBool(col, c, Len(a)).ok
  PROVE  Answers(ResolveBool(col, c, Len(a)), a, row, OnColumn(f, c, row[col]))
<1> DEFINE v == First(c.values)
<1>1. ResolveBool(col, c, Len(a)) =
        IF IsBool(v) THEN Compare(col, c.op, <<"bool", AsBool(v)>>, Len(a)) ELSE BadValue(<<>>)
  BY DEF ResolveBool
<1>2. IsBool(v)
  BY <1>1, BadValueIsBad
<1>3. c.values # <<>>
  <2>1. ~IsBool(Nil)
    BY DEF IsBool, Nil
  <2> QED BY <1>2, <2>1, FirstValue
<1>4. AsBool(v) = Argument(f, c, 1)
  BY <1>3 DEF First, Argument, Read
<1>5. ~AsksNothing(f, c)
  BY DEF AsksNothing, Equality, Ordering, Membership, Containment, KeyTests, KeyValueTests
<1>6. PICK arg : arg = <<"bool", AsBool(v)>>
  OBVIOUS
<1>7. row[col][1] # "null" => Fits(row[col], arg) /\ Cast(row[col], arg) = Argument(f, c, 1)
  BY <1>4, <1>6 DEF Fits, Cast
<1>8. row[col][1] \in Scalars \cup {"null"}
  BY DEF Scalars
<1>9. Answers(Compare(col, c.op, arg, Len(a)), a, row, OnColumn(f, c, row[col]))
  BY <1>5, <1>7, <1>8, CompareTells
<1> QED BY <1>1, <1>2, <1>6, <1>9

(***************************************************************************)
(* Timestamps.                                                             *)
(***************************************************************************)
\* How far an interval reaches, in every dialect.
Span(n, unit) == n * Minutes[unit]

LEMMA SpanIs ==
  ASSUME NEW n \in Nat, NEW unit \in {"m", "h", "d", "w"}
  PROVE  Span(-n, unit) = -Span(n, unit)
<1>1. Minutes["m"] = 1 /\ Minutes["h"] = 60 /\ Minutes["d"] = 1440 /\ Minutes["w"] = 10080
  BY DEF Minutes
<1> QED BY <1>1 DEF Span

LEMMA RelativeIs ==
  ASSUME NEW d \in Dialect, NEW n \in Int, NEW unit \in {"m", "h", "d", "w"}
  PROVE  RelativeTime(d, n, unit) = Span(n, unit)
<1>1. Minutes["d"] = 1440 /\ Minutes["w"] = 10080
  BY DEF Minutes
<1>2. d \in {"clickhouse", "postgres", "sqlite", "mysql"}
  BY DEF Dialect
<1>3. SQLiteRelativeTime(n, unit) = n * Minutes[unit]
  <2>1. (n * 7) * 1440 = n * 10080
    OBVIOUS
  <2> QED BY <1>1, <2>1 DEF SQLiteRelativeTime
<1> QED BY <1>2, <1>3 DEF RelativeTime, ClickHouseRelativeTime, PostgresRelativeTime, MySQLRelativeTime, Span

LEMMA AroundTells ==
  ASSUME NEW a, IsSeq(a), NEW lo, NEW hi, NEW row, NEW col \in DOMAIN row, row[col][1] \in {"time", "null"}
  PROVE  Answers(Around(col, lo, hi), a, row,
                 IF row[col][1] = "null" THEN "U" ELSE Holds(lo <= row[col][2] /\ row[col][2] <= hi))
<1>1. PICK x : x = [sym |-> "BETWEEN now", col |-> col, lit |-> <<lo, hi>>, slots |-> <<>>]
  OBVIOUS
<1>2. x.sym = "BETWEEN now" /\ x.col = col /\ x.lit = <<lo, hi>> /\ x.slots = <<>>
  BY <1>1
<1>3. PICK b : b = a \o <<>>
  OBVIOUS
<1>4. PICK g : g = [j \in DOMAIN x.slots |-> b[x.slots[j]]]
  OBVIOUS
<1>5. x.sym \notin {"(", ")", "NOT", "AND", "OR"} /\ x.col \in DOMAIN row
  BY <1>2
<1>6. Neat(<<x>>) /\ Worth(<<x>>, b, row) = Test(x.sym, x.lit, g, row[x.col])
  BY <1>4, <1>5, WorthTest
<1>7. PICK cell : cell = row[col]
  OBVIOUS
<1>8. Test("BETWEEN now", <<lo, hi>>, g, cell) =
        IF cell[1] = "null" THEN "U" ELSE Holds(lo <= cell[2] /\ cell[2] <= hi)
  <2>1. "BETWEEN now" \notin {"IS NULL", "IS NOT NULL"} /\ "BETWEEN now" \notin OverJsonEach
    BY DEF OverJsonEach
  <2>2. CASE cell[1] = "null"
    BY <2>1, <2>2 DEF Test
  <2>3. CASE cell[1] = "time"
    <3>1. Test("BETWEEN now", <<lo, hi>>, g, cell) = OverScalar("BETWEEN now", <<lo, hi>>, g, cell)
      BY <2>1, <2>3 DEF Test
    <3>2. OverScalar("BETWEEN now", <<lo, hi>>, g, cell) = Holds(lo <= cell[2] /\ cell[2] <= hi)
      BY <2>3 DEF OverScalar
    <3> QED BY <2>3, <3>1, <3>2
  <2> QED BY <1>7, <2>2, <2>3
<1>9. IsSeq(<<>>)
  BY EmptySeq, IsSeqIntro
<1>10. Around(col, lo, hi) = [ok |-> TRUE, text |-> <<x>>, args |-> <<>>]
  BY <1>1 DEF Around, Resolved
<1>11. PICK v : v = IF cell[1] = "null" THEN "U" ELSE Holds(lo <= cell[2] /\ cell[2] <= hi)
  OBVIOUS
<1>12. Worth(<<x>>, a \o <<>>, row) = v
  BY <1>2, <1>3, <1>6, <1>7, <1>8, <1>11
<1>13. Answers(Around(col, lo, hi), a, row, v)
  BY <1>6, <1>9, <1>10, <1>12 DEF Answers
<1> QED BY <1>7, <1>11, <1>13

LEMMA TimestampMeans ==
  ASSUME NEW d \in Dialect, NEW a, IsSeq(a), NEW f, f.type = "timestamp",
         NEW c, IsSeq(c.values), c.op \in {"_eq", "_between"} \cup Ordering \cup Relative,
         NEW row, NEW col \in DOMAIN row, row[col][1] \in {"time", "null"},
         c.op \notin Relative =>
           \A i \in DOMAIN c.values : IsString(c.values[i]) => AsString(c.values[i]) \in DOMAIN Instant,
         ResolveTimestamp(d, col, c, Len(a)).ok
  PROVE  Answers(ResolveTimestamp(d, col, c, Len(a)), a, row, OnColumn(f, c, row[col]))
<1> DEFINE v == First(c.values)
<1>1. row[col][1] \in Scalars \cup {"null"} /\ row[col][1] \in {"num", "time", "null"}
  BY DEF Scalars
<1>2. \A i : Argument(f, c, i) = Instant[AsString(c.values[i])]
  BY DEF Argument, Read
<1>3. ASSUME c.op \notin Relative, NEW i \in DOMAIN c.values, IsString(c.values[i]), row[col][1] # "null",
             NEW arg, arg = <<"str", AsString(c.values[i])>>
      PROVE  Fits(row[col], arg) /\ Cast(row[col], arg) = Argument(f, c, i)
  <2>1. row[col][1] = "time" /\ arg[1] = "str" /\ arg[2] = AsString(c.values[i])
    BY <1>3
  <2>2. arg[2] \in DOMAIN Instant
    BY <1>3, <2>1
  <2> QED BY <1>2, <2>1, <2>2 DEF Fits, Cast
<1>4. CASE c.op = "_between"
  <2>1. ResolveTimestamp(d, col, c, Len(a)) =
          IF Len(c.values) = 2 /\ AllStrings(c.values)
          THEN Resolved(One("BETWEEN", col, Len(a), Strs(Strings(c.values))))
          ELSE BadValue(<<>>)
    BY <1>4 DEF ResolveTimestamp, Relative
  <2>2. Len(c.values) = 2 /\ AllStrings(c.values)
    BY <2>1, BadValueIsBad
  <2>3. PICK bound : bound = Strs(Strings(c.values))
    OBVIOUS
  <2>4. IsSeq(bound) /\ \A i \in DOMAIN c.values : bound[i] = <<"str", AsString(c.values[i])>>
    BY <2>3, StrsAre
  <2>5. DOMAIN c.values = 1 .. 2
    BY <2>2, IsSeqLen
  <2>6. c.op \notin Relative
    BY <1>4 DEF Relative
  <2>7. row[col][1] # "null" => \A i \in {1, 2} :
          Fits(row[col], bound[i]) /\ Cast(row[col], bound[i]) = Argument(f, c, i)
    <3>1. SUFFICES ASSUME row[col][1] # "null", NEW i \in {1, 2}
                   PROVE  Fits(row[col], bound[i]) /\ Cast(row[col], bound[i]) = Argument(f, c, i)
      OBVIOUS
    <3>2. i \in DOMAIN c.values
      BY <2>5
    <3>3. IsString(c.values[i]) /\ bound[i] = <<"str", AsString(c.values[i])>>
      BY <2>2, <2>4, <3>2 DEF AllStrings
    <3> QED BY <1>3, <2>6, <3>1, <3>2, <3>3
  <2>8. Answers(Resolved(One("BETWEEN", col, Len(a), bound)), a, row, OnColumn(f, c, row[col]))
    BY <1>1, <1>4, <2>4, <2>7, BetweenTells
  <2> QED BY <2>1, <2>2, <2>3, <2>8
<1>5. CASE c.op \in Relative
  <2>1. c.op \in {"_last", "_within"}
    BY <1>5 DEF Relative
  <2>2. IsInterval(v)
    BY <1>5, <2>1, BadValueIsBad DEF ResolveTimestamp
  <2>3. PICK n \in Nat, unit \in {"m", "h", "d", "w"} : Interval(v).n = n /\ Interval(v).unit = unit
    <3>1. Interval(v) \in [n : Nat \ {0}, unit : {"m", "h", "d", "w"}]
      BY <2>2, IntervalAssumption DEF IsInterval, Interval
    <3> QED BY <3>1
  <2>4. PICK p : p = Span(n, unit)
    OBVIOUS
  <2>5. Period(c) = p
    BY <2>3, <2>4 DEF Period, Span
  <2>6. RelativeTime(d, n, unit) = p /\ RelativeTime(d, -n, unit) = -p
    <3>1. n \in Int /\ -n \in Int
      OBVIOUS
    <3>2. RelativeTime(d, n, unit) = Span(n, unit) /\ RelativeTime(d, -n, unit) = Span(-n, unit)
      BY <3>1, RelativeIs
    <3> QED BY <2>4, <3>2, SpanIs
  <2>7. PICK cell : cell = row[col]
    OBVIOUS
  <2>8. c.op \notin NullTests /\ ~AsksNothing(f, c)
    BY <2>1 DEF NullTests, AsksNothing, Membership, Containment, KeyTests, KeyValueTests
  <2>9. OnColumn(f, c, cell) = IF cell[1] = "null" THEN "U" ELSE Holds(OnCell(f, c, cell[2]))
    BY <2>8, OnColumnIs
  <2>10. CASE c.op = "_last"
    <3>1. ResolveTimestamp(d, col, c, Len(a)) = Around(col, -p, 0)
      BY <1>5, <2>2, <2>3, <2>6, <2>10 DEF ResolveTimestamp
    <3>2. OnCell(f, c, cell[2]) = (-p <= cell[2] /\ cell[2] <= 0)
      BY <2>5, <2>10, OnCellMatch
    <3>3. Answers(Around(col, -p, 0), a, row, IF cell[1] = "null" THEN "U" ELSE Holds(-p <= cell[2] /\ cell[2] <= 0))
      BY <2>7, AroundTells
    <3>4. Holds(OnCell(f, c, cell[2])) = Holds(-p <= cell[2] /\ cell[2] <= 0)
      BY <3>2 DEF Holds
    <3> QED BY <2>7, <2>9, <3>1, <3>3, <3>4
  <2>11. CASE c.op = "_within"
    <3>1. ResolveTimestamp(d, col, c, Len(a)) = Around(col, 0, p)
      BY <1>5, <2>2, <2>3, <2>6, <2>11 DEF ResolveTimestamp
    <3>2. OnCell(f, c, cell[2]) = (0 <= cell[2] /\ cell[2] <= p)
      BY <2>5, <2>11, OnCellMatch
    <3>3. Answers(Around(col, 0, p), a, row, IF cell[1] = "null" THEN "U" ELSE Holds(0 <= cell[2] /\ cell[2] <= p))
      BY <2>7, AroundTells
    <3>4. Holds(OnCell(f, c, cell[2])) = Holds(0 <= cell[2] /\ cell[2] <= p)
      BY <3>2 DEF Holds
    <3> QED BY <2>7, <2>9, <3>1, <3>3, <3>4
  <2> QED BY <2>1, <2>10, <2>11
<1>6. CASE c.op \in {"_eq"} \cup Ordering
  <2>1. c.op # "_between" /\ c.op \notin Relative /\ c.op \in Equality \cup Ordering
    BY <1>6 DEF Ordering, Relative, Equality
  <2>2. ResolveTimestamp(d, col, c, Len(a)) =
          IF IsString(v) THEN Compare(col, c.op, <<"str", AsString(v)>>, Len(a)) ELSE BadValue(<<>>)
    BY <2>1 DEF ResolveTimestamp
  <2>3. IsString(v)
    BY <2>2, BadValueIsBad
  <2>4. c.values # <<>>
    <3>1. ~IsString(Nil)
      BY DEF IsString, Nil
    <3> QED BY <2>3, <3>1, FirstValue
  <2>5. 1 \in DOMAIN c.values /\ v = c.values[1]
    BY <2>4, FirstValue
  <2>6. PICK arg : arg = <<"str", AsString(v)>>
    OBVIOUS
  <2>7. row[col][1] # "null" => Fits(row[col], arg) /\ Cast(row[col], arg) = Argument(f, c, 1)
    BY <1>3, <2>1, <2>3, <2>5, <2>6
  <2>8. ~AsksNothing(f, c)
    BY <1>6 DEF AsksNothing, Equality, Ordering, Membership, Containment, KeyTests, KeyValueTests
  <2>9. Answers(Compare(col, c.op, arg, Len(a)), a, row, OnColumn(f, c, row[col]))
    BY <1>1, <2>1, <2>7, <2>8, CompareTells
  <2> QED BY <2>2, <2>3, <2>6, <2>9
<1> QED BY <1>4, <1>5, <1>6

\* NULL or not.
LEMMA NullMeans ==
  ASSUME NEW d, NEW a, IsSeq(a), NEW f, NEW c, c.op \in NullTests, NEW row, NEW col \in DOMAIN row
  PROVE  Answers(Resolve(d, f, col, c, Len(a)), a, row, OnColumn(f, c, row[col]))
<1>1. IsSeq(<<>>)
  BY EmptySeq, IsSeqIntro
<1>2. PICK sym : sym = IF c.op = "_is_null" THEN "IS NULL" ELSE "IS NOT NULL"
  OBVIOUS
<1>3. c.op \in {"_is_null", "_is_not_null"}
  BY DEF NullTests
<1>4. sym \in {"IS NULL", "IS NOT NULL"} /\ (sym = "IS NULL" <=> c.op = "_is_null") /\ sym \notin Connectives
  BY <1>2, <1>3 DEF Connectives
<1>5. Tells(One(sym, col, Len(a), <<>>), a, row, Test(sym, <<>>, <<>>, row[col]))
  BY <1>1, <1>4, OneTells
<1>6. Test(sym, <<>>, <<>>, row[col]) = OnColumn(f, c, row[col])
  <2>1. Test(sym, <<>>, <<>>, row[col]) = Holds((sym = "IS NULL") <=> (row[col][1] = "null"))
    BY <1>4 DEF Test
  <2>2. OnColumn(f, c, row[col]) = Holds((c.op = "_is_null") <=> (row[col][1] = "null"))
    BY DEF OnColumn
  <2> QED BY <1>4, <2>1, <2>2
<1>7. Resolve(d, f, col, c, Len(a)) = Resolved(One(sym, col, Len(a), <<>>))
  BY <1>2, <1>3 DEF Resolve
<1> QED BY <1>5, <1>6, <1>7, TellsAnswers

(***************************************************************************)
(* Arrays.                                                                 *)
(***************************************************************************)
LEMMA NegateTells ==
  ASSUME NEW r, r = [text |-> r.text, args |-> r.args], NEW a, NEW row, NEW v, Tells(r, a, row, v), NEW negative
  PROVE  Answers(NegateIf(negative, r), a, row, IF negative THEN Not3(v) ELSE v)
<1>1. PICK t : t = r.text
  OBVIOUS
<1>2. PICK b : b = a \o r.args
  OBVIOUS
<1>3. Neat(t) /\ t # <<>> /\ IsSeq(r.args) /\ Worth(t, b, row) = v
  BY <1>1, <1>2 DEF Tells
<1>4. Neat(Negated(t)) /\ Worth(Negated(t), b, row) = Not3(v)
  <2>1. Balanced(t)
    BY <1>3 DEF Neat
  <2> QED BY <1>3, <2>1, WorthNegated
<1>5. PICK u : u = NegateIf(negative, r)
  OBVIOUS
<1>6. u = [ok |-> TRUE, text |-> IF negative THEN Negated(t) ELSE t, args |-> r.args]
  BY <1>1, <1>5 DEF NegateIf, Resolved
<1>7. Answers(u, a, row, IF negative THEN Not3(v) ELSE v)
  BY <1>2, <1>3, <1>4, <1>6 DEF Answers
<1> QED BY <1>5, <1>7

LEMMA NotHolds ==
  /\ Not3("U") = "U" /\ Not3("T") = "F" /\ Not3("F") = "T"
BY DEF Not3

\* A list of the values, compared with the array as a whole.
LEMMA ListTells ==
  ASSUME NEW a, IsSeq(a), NEW vals, IsSeq(vals),
         NEW sym \in {"@>", "hasAll", "JSON_CONTAINS", "&&", "hasAny", "JSON_OVERLAPS"},
         NEW row, NEW col \in DOMAIN row, row[col][1] \in {"set", "null"}
  PROVE  Tells(One(sym, col, Len(a), List(vals)), a, row,
               IF row[col][1] = "null" THEN "U"
               ELSE IF sym \in {"@>", "hasAll", "JSON_CONTAINS"} THEN Holds(ToSet(vals) \subseteq row[col][2])
               ELSE Holds(ToSet(vals) \cap row[col][2] # {}))
<1>1. PICK bound : bound = List(vals)
  OBVIOUS
<1>2. IsSeq(bound) /\ bound[1] = <<"list", vals>>
  BY <1>1, IsSeqOne DEF List
<1>3. sym \notin Connectives /\ sym \notin {"IS NULL", "IS NOT NULL"} /\ sym \notin OverJsonEach
  BY DEF Connectives, OverJsonEach
<1>4. Tells(One(sym, col, Len(a), bound), a, row, Test(sym, <<>>, bound, row[col]))
  BY <1>2, <1>3, OneTells
<1>5. PICK cell : cell = row[col]
  OBVIOUS
<1>6. PICK S : S = cell[2]
  OBVIOUS
<1>7. ToSet(bound[1][2]) = ToSet(vals)
  BY <1>2
<1>8. CASE cell[1] = "null"
  <2>1. Test(sym, <<>>, bound, cell) = "U"
    BY <1>3, <1>8 DEF Test
  <2> QED BY <1>1, <1>4, <1>5, <1>8, <2>1
<1>9. CASE cell[1] # "null" /\ sym \in {"@>", "hasAll", "JSON_CONTAINS"}
  <2>1. Test(sym, <<>>, bound, cell) = Holds(OverArray(sym, S, bound))
    BY <1>3, <1>5, <1>6, <1>9 DEF Test
  <2>2. OverArray(sym, S, bound) = (ToSet(bound[1][2]) \subseteq S)
    BY <1>9 DEF OverArray
  <2>3. Test(sym, <<>>, bound, cell) = Holds(ToSet(vals) \subseteq S)
    BY <1>7, <2>1, <2>2 DEF Holds
  <2> QED BY <1>1, <1>4, <1>5, <1>6, <1>9, <2>3
<1>10. CASE cell[1] # "null" /\ sym \in {"&&", "hasAny", "JSON_OVERLAPS"}
  <2>1. Test(sym, <<>>, bound, cell) = Holds(OverArray(sym, S, bound))
    BY <1>3, <1>5, <1>6, <1>10 DEF Test
  <2>2. OverArray(sym, S, bound) = (ToSet(bound[1][2]) \cap S # {})
    BY <1>10 DEF OverArray
  <2>3. Test(sym, <<>>, bound, cell) = Holds(ToSet(vals) \cap S # {})
    BY <1>7, <2>1, <2>2 DEF Holds
  <2>4. sym \notin {"@>", "hasAll", "JSON_CONTAINS"}
    BY <1>10
  <2> QED BY <1>1, <1>4, <1>5, <1>6, <1>10, <2>3, <2>4
<1> QED BY <1>8, <1>9, <1>10

\* How many of the values an array has, when they are all different.
LEMMA CountsAll ==
  ASSUME NEW vals, IsSeq(vals), \A i, j \in DOMAIN vals : vals[i] = vals[j] => i = j, NEW S
  PROVE  Cardinality(ToSet(vals) \cap S) = Len(vals) <=> ToSet(vals) \subseteq S
<1>1. PICK n \in Nat : n = Len(vals) /\ DOMAIN vals = 1 .. n
  BY IsSeqLen
<1>2. PICK V : V = ToSet(vals)
  OBVIOUS
<1>3. V = {vals[i] : i \in 1 .. n}
  BY <1>1, <1>2 DEF ToSet
<1> DEFINE f == [v \in V |-> CHOOSE i \in 1 .. n : vals[i] = v]
<1>4. \A v \in V : f[v] \in 1 .. n /\ vals[f[v]] = v
  BY <1>3
<1> HIDE DEF f
<1>5. Numbers(f, V, n)
  <2>1. \A i \in 1 .. n : \E v \in V : f[v] = i
    <3>1. TAKE i \in 1 .. n
    <3>2. vals[i] \in V
      BY <1>3
    <3>3. f[vals[i]] = i
      BY <1>1, <1>4, <3>2
    <3> QED BY <3>2, <3>3
  <2> QED BY <1>4, <2>1 DEF Numbers
<1>6. IsFiniteSet(V) /\ Cardinality(V) = n
  BY <1>5, CountByNumber
<1>7. V \cap S \subseteq V
  OBVIOUS
<1>8. Cardinality(V \cap S) = Cardinality(V) => V \cap S = V
  BY <1>6, <1>7, FS_Subset
<1> QED BY <1>1, <1>2, <1>6, <1>8

LEMMA FrontOfAppend ==
  ASSUME NEW s, IsSeq(s), NEW x
  PROVE  Front(Append(s, x)) = s /\ Last(Append(s, x)) = x /\ IsSeq(Append(s, x))
<1>1. PICK t : t = Append(s, x)
  OBVIOUS
<1>2. /\ IsSeq(t) /\ Len(t) = Len(s) + 1 /\ t[Len(s) + 1] = x
      /\ \A i \in 1 .. Len(s) : t[i] = s[i]
  BY <1>1, IsSeqAppend
<1>3. Len(s) \in Nat /\ Len(t) - 1 = Len(s) /\ Len(s) <= Len(t)
  BY <1>2, IsSeqLen
<1>4. PICK u : u = SubSeq(t, 1, Len(s))
  OBVIOUS
<1>5. IsSeq(u) /\ Len(u) = Len(s) /\ \A i \in 1 .. Len(s) : u[i] = t[i]
  BY <1>2, <1>3, <1>4, IsSeqPrefix
<1>6. u = s
  <2>1. \A i \in 1 .. Len(u) : u[i] = s[i]
    BY <1>2, <1>5
  <2> QED BY <1>5, <2>1, IsSeqEqual
<1>7. Front(t) = u
  BY <1>3, <1>4 DEF Front
<1>8. Last(t) = x
  BY <1>2, <1>3 DEF Last
<1> QED BY <1>1, <1>2, <1>6, <1>7, <1>8

\* SQLite spells the values out.
LEMMA SpelledTells ==
  ASSUME NEW a, IsSeq(a), NEW vals, IsSeq(vals), NEW row, NEW col \in DOMAIN row, row[col][1] = "set"
  PROVE  /\ Tells(One("EXISTS value IN", col, Len(a), Strs(vals)), a, row,
                  Holds(ToSet(vals) \cap row[col][2] # {}))
         /\ (\A i, j \in DOMAIN vals : vals[i] = vals[j] => i = j) =>
              Tells(One("count distinct =", col, Len(a), Append(Strs(vals), <<"num", Len(vals)>>)), a, row,
                    Holds(ToSet(vals) \subseteq row[col][2]))
<1>1. PICK b : b = Strs(vals)
  OBVIOUS
<1>2. PICK e : e = Append(b, <<"num", Len(vals)>>)
  OBVIOUS
<1>3. IsSeq(b) /\ DOMAIN b = DOMAIN vals /\ \A i \in DOMAIN vals : b[i] = <<"str", vals[i]>>
  BY <1>1, StrsIsSeq DEF Strs
<1>4. IsSeq(e) /\ Front(e) = b /\ Last(e) = <<"num", Len(vals)>>
  BY <1>2, <1>3, FrontOfAppend
<1>5. Args2(b) = ToSet(vals)
  BY <1>3 DEF Args2, ToSet
<1>6. PICK cell : cell = row[col]
  OBVIOUS
<1>7. PICK S : S = cell[2]
  OBVIOUS
<1>8. cell[1] = "set" /\ cell[1] # "null"
  BY <1>6
<1>9. "EXISTS value IN" \notin Connectives /\ "count distinct =" \notin Connectives
  BY DEF Connectives
<1>10. Tells(One("EXISTS value IN", col, Len(a), b), a, row, Holds(ToSet(vals) \cap S # {}))
  <2>1. Tells(One("EXISTS value IN", col, Len(a), b), a, row, Test("EXISTS value IN", <<>>, b, cell))
    BY <1>3, <1>6, <1>9, OneTells
  <2>2. Test("EXISTS value IN", <<>>, b, cell) = Holds(OverArray("EXISTS value IN", S, b))
    BY <1>7, <1>8 DEF Test
  <2>3. OverArray("EXISTS value IN", S, b) = (Args2(b) \cap S # {})
    BY DEF OverArray
  <2>4. Test("EXISTS value IN", <<>>, b, cell) = Holds(ToSet(vals) \cap S # {})
    BY <1>5, <2>2, <2>3 DEF Holds
  <2> QED BY <2>1, <2>4
<1>11. ASSUME \A i, j \in DOMAIN vals : vals[i] = vals[j] => i = j
       PROVE  Tells(One("count distinct =", col, Len(a), e), a, row, Holds(ToSet(vals) \subseteq S))
  <2>1. Tells(One("count distinct =", col, Len(a), e), a, row, Test("count distinct =", <<>>, e, cell))
    BY <1>4, <1>6, <1>9, OneTells
  <2>2. Test("count distinct =", <<>>, e, cell) = Holds(OverArray("count distinct =", S, e))
    BY <1>7, <1>8 DEF Test
  <2>3. OverArray("count distinct =", S, e) = (Cardinality(Args2(Front(e)) \cap S) = Last(e)[2])
    BY DEF OverArray
  <2>4. Cardinality(ToSet(vals) \cap S) = Len(vals) <=> ToSet(vals) \subseteq S
    BY <1>11, CountsAll
  <2>5. Last(e)[2] = Len(vals)
    BY <1>4
  <2>6. OverArray("count distinct =", S, e) <=> ToSet(vals) \subseteq S
    BY <1>4, <1>5, <2>3, <2>4, <2>5
  <2>7. Test("count distinct =", <<>>, e, cell) = Holds(ToSet(vals) \subseteq S)
    BY <2>2, <2>6 DEF Holds
  <2> QED BY <2>1, <2>7
<1> QED BY <1>1, <1>2, <1>6, <1>7, <1>10, <1>11

\* Every dialect asks whether all the values are there, or whether one is.
LEMMA ArrayTells ==
  ASSUME NEW d \in Dialect, NEW a, IsSeq(a), NEW vals, IsSeq(vals), NEW all \in BOOLEAN,
         NEW row, NEW col \in DOMAIN row, row[col][1] \in {"set", "null"},
         d = "sqlite" => row[col][1] # "null",
         d = "sqlite" /\ all => \A i, j \in DOMAIN vals : vals[i] = vals[j] => i = j
  PROVE  Tells(ArrayContains(d, col, vals, all, Len(a)), a, row,
               IF row[col][1] = "null" THEN "U"
               ELSE IF all THEN Holds(ToSet(vals) \subseteq row[col][2])
               ELSE Holds(ToSet(vals) \cap row[col][2] # {}))
<1>1. PICK r : r = ArrayContains(d, col, vals, all, Len(a))
  OBVIOUS
<1>2. PICK cell : cell = row[col]
  OBVIOUS
<1>3. PICK v : v = IF cell[1] = "null" THEN "U"
                   ELSE IF all THEN Holds(ToSet(vals) \subseteq cell[2])
                   ELSE Holds(ToSet(vals) \cap cell[2] # {})
  OBVIOUS
<1>4. CASE d \in {"clickhouse", "postgres", "mysql"}
  <2>1. PICK sym : sym = CASE d = "clickhouse" -> IF all THEN "hasAll" ELSE "hasAny"
                           [] d = "postgres" -> IF all THEN "@>" ELSE "&&"
                           [] d = "mysql" -> IF all THEN "JSON_CONTAINS" ELSE "JSON_OVERLAPS"
    OBVIOUS
  <2>2. sym \in {"@>", "hasAll", "JSON_CONTAINS", "&&", "hasAny", "JSON_OVERLAPS"}
        /\ (sym \in {"@>", "hasAll", "JSON_CONTAINS"} <=> all)
    BY <1>4, <2>1
  <2>3. r = One(sym, col, Len(a), List(vals))
    BY <1>1, <1>4, <2>1
    DEF ArrayContains, ClickHouseArrayContains, PostgresArrayContains, MySQLArrayContains
  <2>4. Tells(One(sym, col, Len(a), List(vals)), a, row,
              IF cell[1] = "null" THEN "U"
              ELSE IF sym \in {"@>", "hasAll", "JSON_CONTAINS"} THEN Holds(ToSet(vals) \subseteq cell[2])
              ELSE Holds(ToSet(vals) \cap cell[2] # {}))
    BY <1>2, <2>2, ListTells
  <2>5. Tells(r, a, row, v)
    BY <1>3, <2>2, <2>3, <2>4
  <2> QED BY <1>1, <1>2, <1>3, <2>5
<1>5. CASE d = "sqlite"
  <2>1. cell[1] = "set" /\ cell[1] # "null"
    BY <1>2, <1>5
  <2>2. r = IF all THEN One("count distinct =", col, Len(a), Append(Strs(vals), <<"num", Len(vals)>>))
            ELSE One("EXISTS value IN", col, Len(a), Strs(vals))
    BY <1>1, <1>5 DEF ArrayContains, SQLiteArrayContains
  <2>3. Tells(r, a, row, v)
    BY <1>2, <1>3, <1>5, <2>1, <2>2, SpelledTells
  <2> QED BY <1>1, <1>2, <1>3, <2>3
<1> QED BY <1>4, <1>5 DEF Dialect

LEMMA ContainmentIs ==
  ASSUME NEW f, NEW c, c.op \in Containment, NEW x
  PROVE  Holds(OnCell(f, c, x)) =
           LET v == IF c.op \in {"_contains", "_not_contains"} THEN Holds(Arguments(f, c) \subseteq x)
                    ELSE Holds(Arguments(f, c) \cap x # {})
           IN IF c.op \in {"_not_contains", "_not_contains_any"} THEN Not3(v) ELSE v
<1>1. PICK V : V = Arguments(f, c)
  OBVIOUS
<1>2. c.op \in {"_contains", "_contains_any", "_not_contains", "_not_contains_any"}
  BY DEF Containment
<1>3. CASE c.op = "_contains"
  <2>1. OnCell(f, c, x) = (V \subseteq x)
    BY <1>1, <1>3, OnCellArray
  <2> QED BY <1>1, <1>3, <2>1 DEF Holds
<1>4. CASE c.op = "_contains_any"
  <2>1. OnCell(f, c, x) = (V \cap x # {})
    BY <1>1, <1>4, OnCellArray
  <2> QED BY <1>1, <1>4, <2>1 DEF Holds
<1>5. CASE c.op = "_not_contains"
  <2>1. OnCell(f, c, x) = ~(V \subseteq x)
    BY <1>1, <1>5, OnCellArray
  <2> QED BY <1>1, <1>5, <2>1, NotHolds DEF Holds
<1>6. CASE c.op = "_not_contains_any"
  <2>1. OnCell(f, c, x) = (V \cap x = {})
    BY <1>1, <1>6, OnCellArray
  <2> QED BY <1>1, <1>6, <2>1, NotHolds DEF Holds
<1> QED BY <1>2, <1>3, <1>4, <1>5, <1>6

LEMMA ArrayMeans ==
  ASSUME NEW d \in Dialect, NEW a, IsSeq(a), NEW f, f.type = "array",
         NEW c, IsSeq(c.values), c.op \in Containment,
         NEW row, NEW col \in DOMAIN row, row[col][1] \in {"set", "null"},
         d = "sqlite" => row[col][1] # "null",
         d = "sqlite" /\ c.op \in {"_contains", "_not_contains"} /\ AllStrings(c.values) =>
           \A i, j \in DOMAIN c.values : AsString(c.values[i]) = AsString(c.values[j]) => i = j,
         ResolveArray(d, col, c, Len(a)).ok
  PROVE  Answers(ResolveArray(d, col, c, Len(a)), a, row, OnColumn(f, c, row[col]))
<1>1. c.op \notin NullTests /\ (AsksNothing(f, c) <=> c.values = <<>>)
  BY DEF NullTests, AsksNothing, Membership, Containment, KeyTests, KeyValueTests
<1>2. AllStrings(c.values)
  BY BadValueIsBad DEF ResolveArray
<1>3. CASE c.values = <<>>
  <2>1. OnColumn(f, c, row[col]) = "none"
    BY <1>1, <1>3, OnColumnIs
  <2>2. ResolveArray(d, col, c, Len(a)) = Skipped
    BY <1>2, <1>3 DEF ResolveArray
  <2> QED BY <2>1, <2>2, SkippedAnswers
<1>4. CASE c.values # <<>>
  <2>1. PICK vals : vals = Strings(c.values)
    OBVIOUS
  <2>2. PICK all \in BOOLEAN : all <=> c.op \in {"_contains", "_not_contains"}
    OBVIOUS
  <2>3. PICK negative \in BOOLEAN : negative <=> c.op \in {"_not_contains", "_not_contains_any"}
    OBVIOUS
  <2>4. IsSeq(vals) /\ DOMAIN vals = DOMAIN c.values /\ \A i \in DOMAIN c.values : vals[i] = AsString(c.values[i])
    BY <2>1, StrsAre
  <2>5. ToSet(vals) = Arguments(f, c)
    <3>1. \A i \in DOMAIN c.values : Argument(f, c, i) = AsString(c.values[i])
      BY DEF Argument, Read
    <3> QED BY <2>4, <3>1 DEF ToSet, Arguments
  <2>6. PICK r : r = ArrayContains(d, col, vals, all, Len(a))
    OBVIOUS
  <2>7. PICK cell : cell = row[col]
    OBVIOUS
  <2>8. PICK v : v = IF cell[1] = "null" THEN "U"
                     ELSE IF all THEN Holds(Arguments(f, c) \subseteq cell[2])
                     ELSE Holds(Arguments(f, c) \cap cell[2] # {})
    OBVIOUS
  <2>9. Tells(r, a, row, v)
    <3>1. d = "sqlite" /\ all => \A i, j \in DOMAIN vals : vals[i] = vals[j] => i = j
      BY <1>2, <2>2, <2>4
    <3>2. Tells(ArrayContains(d, col, vals, all, Len(a)), a, row,
                IF row[col][1] = "null" THEN "U"
                ELSE IF all THEN Holds(ToSet(vals) \subseteq row[col][2])
                ELSE Holds(ToSet(vals) \cap row[col][2] # {}))
      BY <2>4, <3>1, ArrayTells
    <3> QED BY <2>5, <2>6, <2>7, <2>8, <3>2
  <2>10. r = [text |-> r.text, args |-> r.args]
    BY <2>6, DialectRecords
  <2>11. Answers(NegateIf(negative, r), a, row, IF negative THEN Not3(v) ELSE v)
    BY <2>9, <2>10, NegateTells
  <2>12. NegateIf(c.op \in {"_not_contains", "_not_contains_any"},
                  ArrayContains(d, col, vals, c.op \in {"_contains", "_not_contains"}, Len(a)))
         = NegateIf(negative, r)
    <3>1. ArrayContains(d, col, vals, c.op \in {"_contains", "_not_contains"}, Len(a)) = r
      BY <2>2, <2>6
      DEF ArrayContains, ClickHouseArrayContains, PostgresArrayContains, MySQLArrayContains, SQLiteArrayContains
    <3> QED BY <2>3, <3>1 DEF NegateIf
  <2>13. ResolveArray(d, col, c, Len(a)) = NegateIf(negative, r)
    BY <1>2, <1>4, <2>1, <2>12 DEF ResolveArray
  <2>14. (IF negative THEN Not3(v) ELSE v) = OnColumn(f, c, cell)
    <3>1. OnColumn(f, c, cell) = IF cell[1] = "null" THEN "U" ELSE Holds(OnCell(f, c, cell[2]))
      BY <1>1, <1>4, OnColumnIs
    <3>2. CASE cell[1] = "null"
      BY <2>8, <3>1, <3>2, NotHolds
    <3>3. CASE cell[1] # "null"
      BY <2>2, <2>3, <2>8, <3>1, <3>3, ContainmentIs
    <3> QED BY <3>2, <3>3
  <2> QED BY <2>7, <2>11, <2>13, <2>14
<1> QED BY <1>3, <1>4

(***************************************************************************)
(* Maps: predicates joined by AND.                                         *)
(***************************************************************************)
\* The first m of the predicates, joined.
Woven(preds, m) ==
  [i \in 1 .. 2 * m - 1 |-> IF i % 2 = 1 THEN preds[(i - 1) \div 2 + 1] ELSE Word("AND")]

LEMMA WovenGrows ==
  ASSUME NEW preds, NEW m \in Nat, m # 0
  PROVE  /\ Woven(preds, 1) = <<preds[1]>>
         /\ Woven(preds, m + 1) = Link(Woven(preds, m), Word("AND"), <<preds[m + 1]>>)
<1>1. PICK s : s = Woven(preds, m)
  OBVIOUS
<1>2. PICK t : t = Woven(preds, m + 1)
  OBVIOUS
<1>3. PICK x : x = Word("AND")
  OBVIOUS
<1>4. PICK p : p = preds[m + 1]
  OBVIOUS
<1>5. PICK k \in Nat : k = 2 * m - 1
  OBVIOUS
<1>6. /\ s = [i \in 1 .. k |-> s[i]]
      /\ \A i \in 1 .. k : s[i] = IF i % 2 = 1 THEN preds[(i - 1) \div 2 + 1] ELSE x
  BY <1>1, <1>3, <1>5 DEF Woven
<1>7. 2 * (m + 1) - 1 = k + 2
  BY <1>5
<1>8. /\ t = [i \in 1 .. k + 2 |-> t[i]]
      /\ \A i \in 1 .. k + 2 : t[i] = IF i % 2 = 1 THEN preds[(i - 1) \div 2 + 1] ELSE x
  BY <1>2, <1>3, <1>7 DEF Woven
<1>9. IsSeq(s) /\ Len(s) = k
  BY <1>6, IsSeqFunction
<1>10. IsSeq(t) /\ Len(t) = k + 2
  <2>1. k + 2 \in Nat
    OBVIOUS
  <2> QED BY <1>8, <2>1, IsSeqFunction
<1>11. t[k + 1] = x /\ t[k + 2] = p
  <2>1. (k + 1) % 2 = 0 /\ (k + 2) % 2 = 1 /\ (k + 2 - 1) \div 2 + 1 = m + 1
    BY <1>5
  <2>2. k + 1 \in 1 .. k + 2 /\ k + 2 \in 1 .. k + 2
    OBVIOUS
  <2>3. ASSUME NEW i \in 1 .. k + 2
        PROVE  t[i] = IF i % 2 = 1 THEN preds[(i - 1) \div 2 + 1] ELSE x
    BY <1>8
  <2>4. ASSUME NEW i, i = k + 1
        PROVE  t[i] = x
    <3>1. i % 2 # 1
      BY <2>1, <2>4
    <3>2. i \in 1 .. k + 2
      BY <2>2, <2>4
    <3> QED BY <2>3, <3>1, <3>2
  <2>5. ASSUME NEW i, i = k + 2
        PROVE  t[i] = p
    <3>1. i % 2 = 1
      BY <2>1, <2>5
    <3>2. i \in 1 .. k + 2
      BY <2>2, <2>5
    <3>3. t[i] = preds[(i - 1) \div 2 + 1]
      BY <2>3, <3>1, <3>2
    <3>4. PICK z : z = (i - 1) \div 2 + 1
      OBVIOUS
    <3>5. z = m + 1
      BY <2>1, <2>5, <3>4
    <3> QED BY <1>4, <3>3, <3>4, <3>5
  <2> QED BY <2>4, <2>5
<1>12. \A i \in 1 .. k : t[i] = s[i]
  BY <1>6, <1>8
<1>13. PICK c : c = s \o <<x>>
  OBVIOUS
<1>14. IsSeq(c) /\ Len(c) = k + 1 /\ c[k + 1] = x /\ \A i \in 1 .. k : c[i] = s[i]
  <2>1. IsSeq(<<x>>) /\ Len(<<x>>) = 1 /\ <<x>>[1] = x
    BY IsSeqOne
  <2>2. IsSeq(s)
    BY <1>9
  <2>3. /\ IsSeq(s \o <<x>>) /\ Len(s \o <<x>>) = Len(s) + Len(<<x>>)
        /\ \A i \in 1 .. Len(s) : (s \o <<x>>)[i] = s[i]
        /\ \A i \in 1 .. Len(<<x>>) : (s \o <<x>>)[Len(s) + i] = <<x>>[i]
    BY <2>1, <2>2, IsSeqConcat
  <2> QED BY <1>9, <1>13, <2>1, <2>3
<1>15. PICK d : d = c \o <<p>>
  OBVIOUS
<1>16. IsSeq(d) /\ Len(d) = k + 2 /\ d[k + 2] = p /\ \A i \in 1 .. k + 1 : d[i] = c[i]
  <2>1. IsSeq(<<p>>) /\ Len(<<p>>) = 1 /\ <<p>>[1] = p
    BY IsSeqOne
  <2>2. IsSeq(c)
    BY <1>14
  <2>3. /\ IsSeq(c \o <<p>>) /\ Len(c \o <<p>>) = Len(c) + Len(<<p>>)
        /\ \A i \in 1 .. Len(c) : (c \o <<p>>)[i] = c[i]
        /\ \A i \in 1 .. Len(<<p>>) : (c \o <<p>>)[Len(c) + i] = <<p>>[i]
    BY <2>1, <2>2, IsSeqConcat
  <2>4. k + 1 + 1 = k + 2
    OBVIOUS
  <2> QED BY <1>14, <1>15, <2>1, <2>3, <2>4
<1>17. \A i \in 1 .. k + 2 : d[i] = t[i]
  <2>1. \A i \in 1 .. k + 2 : i \in 1 .. k \/ i = k + 1 \/ i = k + 2
    OBVIOUS
  <2>2. \A i \in 1 .. k : i \in 1 .. k + 1 /\ d[i] = t[i]
    BY <1>12, <1>14, <1>16
  <2>3. k + 1 \in 1 .. k + 1
    OBVIOUS
  <2> QED BY <1>11, <1>14, <1>16, <2>1, <2>2, <2>3
<1>18. d = t
  BY <1>10, <1>16, <1>17, IsSeqEqual
<1>19. t = Link(s, x, <<p>>)
  BY <1>13, <1>15, <1>18 DEF Link
<1>20. Woven(preds, 1) = <<preds[1]>>
  <2>1. PICK u : u = Woven(preds, 1)
    OBVIOUS
  <2>2. u = [i \in 1 .. 1 |-> u[i]] /\ u[1] = preds[1]
    BY <2>1 DEF Woven
  <2>3. IsSeq(u) /\ Len(u) = 1
    BY <2>2, IsSeqFunction
  <2>4. PICK w : w = <<preds[1]>>
    OBVIOUS
  <2>5. IsSeq(w) /\ Len(w) = 1 /\ w[1] = preds[1]
    BY <2>4, IsSeqOne
  <2>6. \A i \in 1 .. Len(u) : u[i] = w[i]
    BY <2>2, <2>3, <2>5
  <2>7. u = w
    BY <2>3, <2>5, <2>6, IsSeqEqual
  <2> QED BY <2>1, <2>4, <2>7
<1> QED BY <1>1, <1>2, <1>3, <1>4, <1>19, <1>20

LEMMA WovenWorth ==
  ASSUME NEW preds, NEW count \in Nat, count # 0, NEW b, NEW row, NEW v,
         \A i \in 1 .. count :
           Neat(<<preds[i]>>) /\ <<preds[i]>> # <<>> /\ Worth(<<preds[i]>>, b, row) = v[i]
  PROVE  /\ Neat(Woven(preds, count)) /\ Woven(preds, count) # <<>>
         /\ Worth(Woven(preds, count), b, row) = And3({v[i] : i \in 1 .. count})
<1> DEFINE Good(m) == /\ Neat(Woven(preds, m)) /\ Woven(preds, m) # <<>>
                      /\ Worth(Woven(preds, m), b, row) = And3({v[i] : i \in 1 .. m})
           Bad == {m \in 1 .. count : ~Good(m)}
<1>1. Good(1)
  <2>1. 1 \in 1 .. count /\ {v[i] : i \in 1 .. 1} = {v[1]}
    OBVIOUS
  <2>2. Woven(preds, 1) = <<preds[1]>>
    BY WovenGrows
  <2>3. PICK t : t = <<preds[1]>>
    OBVIOUS
  <2>4. Neat(t) /\ t # <<>> /\ Worth(t, b, row) = v[1]
    BY <2>1, <2>3
  <2>5. IsSeq(t)
    BY <2>4 DEF Neat, Balanced
  <2>6. v[1] \in Truth
    BY <2>4, <2>5, WorthTruth
  <2>7. And3({v[1]}) = v[1]
    BY <2>6, OfOne
  <2> QED BY <2>1, <2>2, <2>3, <2>4, <2>7
<1>2. ASSUME NEW m \in 1 .. count, m + 1 \in 1 .. count, Good(m)
      PROVE  Good(m + 1)
  <2>1. PICK s : s = Woven(preds, m)
    OBVIOUS
  <2>2. PICK t : t = <<preds[m + 1]>>
    OBVIOUS
  <2>3. PICK u : u = Woven(preds, m + 1)
    OBVIOUS
  <2>4. u = Link(s, Word("AND"), t)
    <3>1. m \in Nat /\ m # 0
      OBVIOUS
    <3> QED BY <2>1, <2>2, <2>3, <3>1, WovenGrows
  <2>5. Neat(t) /\ t # <<>> /\ Worth(t, b, row) = v[m + 1]
    BY <1>2, <2>2
  <2>6. PICK R : R = {v[i] : i \in 1 .. m}
    OBVIOUS
  <2>7. Neat(s) /\ s # <<>> /\ Worth(s, b, row) = And3(R)
    BY <1>2, <2>1, <2>6
  <2>8. Neat(u) /\ u # <<>> /\ Worth(u, b, row) = And2(And3(R), v[m + 1])
    BY <2>4, <2>5, <2>7, WorthAnd
  <2>9. And2(And3(R), v[m + 1]) = And3({v[m + 1]} \cup {And3(R)})
    <3>1. {And3(R), v[m + 1]} = {v[m + 1]} \cup {And3(R)}
      OBVIOUS
    <3> QED BY <3>1 DEF And2
  <2>10. And3({v[m + 1]} \cup {And3(R)}) = And3({v[m + 1]} \cup R)
    BY And3Flat
  <2>11. {v[i] : i \in 1 .. m + 1} = {v[m + 1]} \cup R
    <3>1. 1 .. m + 1 = (1 .. m) \cup {m + 1}
      OBVIOUS
    <3> QED BY <2>6, <3>1
  <2> QED BY <2>3, <2>8, <2>9, <2>10, <2>11
<1> HIDE DEF Good
<1>3. Bad = {}
  <2> SUFFICES ASSUME Bad # {} PROVE FALSE
    OBVIOUS
  <2>1. Bad \subseteq Nat
    OBVIOUS
  <2>2. PICK m \in Bad : \A n \in Bad : m <= n
    BY <2>1, Least
  <2>3. m # 1 /\ m \in 1 .. count /\ ~Good(m)
    BY <1>1, <2>2
  <2>4. m - 1 \in 1 .. count /\ ~(m <= m - 1) /\ (m - 1) + 1 = m
    BY <2>3
  <2>5. Good(m - 1)
    BY <2>2, <2>4
  <2> QED BY <1>2, <2>3, <2>4, <2>5
<1>4. count \in 1 .. count
  OBVIOUS
<1>5. Good(count)
  BY <1>3, <1>4
<1> QED BY <1>5 DEF Good

\* What each of the predicates is worth over its k arguments.
EachTests(sym, k, count, bound, cell, v) ==
  /\ Len(bound) = k * count
  /\ \A i \in 1 .. count : Test(sym, <<>>, [j \in 1 .. k |-> bound[k * (i - 1) + j]], cell) = v[i]

\* The predicates of a joined text, each over its arguments.
LEMMA JoinedTells ==
  ASSUME NEW a, NEW bound, IsSeq(a), IsSeq(bound), NEW sym, sym \notin Connectives,
         NEW k \in {1, 2}, NEW count \in Nat, count # 0,
         NEW row, NEW col \in DOMAIN row, NEW v, EachTests(sym, k, count, bound, row[col], v)
  PROVE  Tells(Joined(sym, col, Len(a), k, count, bound), a, row, And3({v[i] : i \in 1 .. count}))
<1>1. PICK n \in Nat : n = Len(a)
  BY IsSeqLen
<1>2. PICK b : b = a \o bound
  OBVIOUS
<1>3. PICK preds : preds = [i \in 1 .. count |-> Predicate(sym, col, n + k * (i - 1), k)]
  OBVIOUS
<1>4. PICK cell : cell = row[col]
  OBVIOUS
<1>5. ASSUME NEW i \in 1 .. count
      PROVE  Neat(<<preds[i]>>) /\ <<preds[i]>> # <<>> /\ Worth(<<preds[i]>>, b, row) = v[i]
  <2>1. PICK x : x = preds[i]
    OBVIOUS
  <2>2. PICK from : from = k * (i - 1)
    OBVIOUS
  <2>3. from \in Nat /\ from + k <= k * count
    <3>1. CASE k = 1 BY <2>2, <3>1
    <3>2. CASE k = 2 BY <2>2, <3>2
    <3> QED BY <3>1, <3>2
  <2>4. x = Predicate(sym, col, n + from, k)
    BY <1>3, <2>1, <2>2
  <2>5. x.sym = sym /\ x.col = col /\ x.lit = <<>> /\ x.slots = [j \in 1 .. k |-> n + from + j]
    BY <2>4 DEF Predicate
  <2>6. [j \in DOMAIN x.slots |-> b[x.slots[j]]] = [j \in 1 .. k |-> b[n + from + j]]
    <3>1. DOMAIN x.slots = 1 .. k /\ \A j \in 1 .. k : x.slots[j] = n + from + j
      BY <2>5
    <3> QED BY <3>1
  <2>7. [j \in 1 .. k |-> b[n + from + j]] = [j \in 1 .. k |-> bound[from + j]]
    <3>1. k \in Nat /\ from + k <= Len(bound)
      BY <2>3 DEF EachTests
    <3>2. [j \in 1 .. k |-> (a \o bound)[Len(a) + from + j]] = [j \in 1 .. k |-> bound[from + j]]
      BY <2>3, <3>1, BoundHere
    <3> QED BY <1>1, <1>2, <3>2
  <2>8. PICK g : g = [j \in 1 .. k |-> bound[from + j]]
    OBVIOUS
  <2>9. g = [j \in DOMAIN x.slots |-> b[x.slots[j]]]
    BY <2>6, <2>7, <2>8
  <2>10. x.sym \notin {"(", ")", "NOT", "AND", "OR"} /\ x.col \in DOMAIN row
    BY <2>5 DEF Connectives
  <2>11. Neat(<<x>>) /\ <<x>> # <<>> /\ Worth(<<x>>, b, row) = Test(x.sym, x.lit, g, row[x.col])
    BY <2>9, <2>10, WorthTest
  <2>12. Test(sym, <<>>, g, cell) = v[i]
    BY <1>4, <2>2, <2>8 DEF EachTests
  <2> QED BY <1>4, <2>1, <2>5, <2>11, <2>12
<1>6. /\ Neat(Woven(preds, count)) /\ Woven(preds, count) # <<>>
      /\ Worth(Woven(preds, count), b, row) = And3({v[i] : i \in 1 .. count})
  BY <1>5, WovenWorth
<1>7. Joined(sym, col, Len(a), k, count, bound) = [text |-> Woven(preds, count), args |-> bound]
  <2>1. ASSUME NEW i \in 1 .. 2 * count - 1, i % 2 = 1
        PROVE  Predicate(sym, col, n + k * ((i - 1) \div 2), k) = preds[(i - 1) \div 2 + 1]
    <3>1. PICK h \in Nat : h = (i - 1) \div 2
      OBVIOUS
    <3>2. h + 1 \in 1 .. count /\ (h + 1) - 1 = h
      BY <2>1, <3>1
    <3>3. preds[h + 1] = Predicate(sym, col, n + k * ((h + 1) - 1), k)
      BY <1>3, <3>2
    <3>4. preds[h + 1] = Predicate(sym, col, n + k * h, k)
      BY <3>2, <3>3
    <3> QED BY <3>1, <3>4
  <2>2. [i \in 1 .. 2 * count - 1 |->
           IF i % 2 = 1 THEN Predicate(sym, col, n + k * ((i - 1) \div 2), k) ELSE Word("AND")] = Woven(preds, count)
    BY <2>1 DEF Woven
  <2> QED BY <1>1, <2>2 DEF Joined
<1>8. PICK r : r = Joined(sym, col, Len(a), k, count, bound)
  OBVIOUS
<1>9. r.text = Woven(preds, count) /\ r.args = bound
  BY <1>7, <1>8
<1>10. Tells(r, a, row, And3({v[i] : i \in 1 .. count}))
  BY <1>2, <1>6, <1>9 DEF Tells
<1> QED BY <1>8, <1>10

LEMMA AllHold ==
  ASSUME NEW n \in Nat, NEW v, \A i \in 1 .. n : v[i] \in {"T", "F"}
  PROVE  And3({v[i] : i \in 1 .. n}) = Holds(\A i \in 1 .. n : v[i] = "T")
<1>1. PICK S : S = {v[i] : i \in 1 .. n}
  OBVIOUS
<1>2. "error" \notin S /\ "U" \notin S
  BY <1>1
<1>3. "F" \notin S <=> \A i \in 1 .. n : v[i] = "T"
  BY <1>1
<1>4. And3(S) = IF "F" \in S THEN "F" ELSE "T"
  BY <1>2 DEF And3
<1> QED BY <1>1, <1>3, <1>4 DEF Holds

LEMMA OneByOne == \A i \in Int : 1 * (i - 1) + 1 = i /\ 1 * i = i
OBVIOUS

LEMMA AllUnknown ==
  ASSUME NEW n \in Nat, n # 0, NEW v, \A i \in 1 .. n : v[i] = "U"
  PROVE  And3({v[i] : i \in 1 .. n}) = "U"
<1>1. 1 \in 1 .. n
  OBVIOUS
<1>2. {v[i] : i \in 1 .. n} = {"U"}
  BY <1>1
<1>3. And3({"U"}) = "U"
  BY DEF And3
<1> QED BY <1>2, <1>3

\* Each of the arguments carries a key.
Carries(bound, keys) == \A i \in 1 .. Len(keys) : bound[i][2] = keys[i]

\* The predicates that ask for one key; SQLite's has no say about NULL.
AsksForKey == {"mapContains", "EXISTS key", "JSON_CONTAINS_PATH"}
HasNoSay(sym) == sym \in OverJsonEach

\* One predicate for each key.
LEMMA KeysJoined ==
  ASSUME NEW a, IsSeq(a), NEW keys, IsSeq(keys), keys # <<>>,
         NEW bound, IsSeq(bound), Len(bound) = Len(keys), Carries(bound, keys),
         NEW sym \in AsksForKey,
         NEW row, NEW col \in DOMAIN row, row[col][1] \in {"map", "null"},
         HasNoSay(sym) => row[col][1] # "null"
  PROVE  Tells(Joined(sym, col, Len(a), 1, Len(keys), bound), a, row,
               IF row[col][1] = "null" THEN "U" ELSE Holds(ToSet(keys) \subseteq DOMAIN row[col][2]))
<1>1. PICK n \in Nat : n = Len(keys) /\ n # 0 /\ DOMAIN keys = 1 .. n
  BY IsSeqLen
<1>2. PICK cell : cell = row[col]
  OBVIOUS
<1>3. PICK m : m = cell[2]
  OBVIOUS
<1>4. PICK v : v = [i \in 1 .. n |-> IF cell[1] = "null" THEN "U" ELSE Holds(keys[i] \in DOMAIN m)]
  OBVIOUS
<1>5. sym \notin Connectives /\ sym \notin {"IS NULL", "IS NOT NULL"} /\ (sym \in OverJsonEach => HasNoSay(sym))
  BY DEF Connectives, OverJsonEach, AsksForKey, HasNoSay
<1>6. ASSUME NEW i \in 1 .. n
      PROVE  Test(sym, <<>>, [j \in 1 .. 1 |-> bound[1 * (i - 1) + j]], cell) = v[i]
  <2>1. PICK g : g = [j \in 1 .. 1 |-> bound[1 * (i - 1) + j]]
    OBVIOUS
  <2>2. g[1] = bound[i]
    <3>1. i \in Int
      OBVIOUS
    <3>2. 1 * (i - 1) + 1 = i
      BY <3>1, OneByOne
    <3>3. g[1] = bound[1 * (i - 1) + 1]
      BY <2>1
    <3> QED BY <3>2, <3>3
  <2>3. g[1][2] = keys[i]
    BY <1>1, <2>2 DEF Carries
  <2>4. CASE cell[1] = "null"
    <3>1. Test(sym, <<>>, g, cell) = "U"
      BY <1>2, <1>5, <2>4 DEF Test
    <3> QED BY <1>4, <2>1, <2>4, <3>1
  <2>5. CASE cell[1] = "map"
    <3>1. Test(sym, <<>>, g, cell) = OverMap(sym, m, g)
      BY <1>3, <1>5, <2>5 DEF Test
    <3>2. OverMap(sym, m, g) = Holds(g[1][2] \in DOMAIN m)
      BY DEF OverMap, AsksForKey
    <3> QED BY <1>4, <2>1, <2>3, <2>5, <3>1, <3>2
  <2> QED BY <1>2, <2>4, <2>5
<1>7. Tells(Joined(sym, col, Len(a), 1, n, bound), a, row, And3({v[i] : i \in 1 .. n}))
  <2>1. EachTests(sym, 1, n, bound, row[col], v)
    <3>1. n \in Int /\ Len(bound) = n
      BY <1>1
    <3>2. Len(bound) = 1 * n
      BY <3>1, OneByOne
    <3> QED BY <1>2, <1>6, <3>2 DEF EachTests
  <2>2. 1 \in {1, 2}
    OBVIOUS
  <2>3. sym \notin Connectives /\ n # 0
    BY <1>1, <1>5
  <2> QED BY <2>1, <2>2, <2>3, JoinedTells
<1>8. And3({v[i] : i \in 1 .. n}) =
        IF cell[1] = "null" THEN "U" ELSE Holds(ToSet(keys) \subseteq DOMAIN m)
  <2>1. CASE cell[1] = "null"
    <3>1. \A i \in 1 .. n : v[i] = "U"
      BY <1>4, <2>1
    <3>2. n # 0
      BY <1>1
    <3>3. And3({v[i] : i \in 1 .. n}) = "U"
      BY <3>1, <3>2, AllUnknown
    <3> QED BY <2>1, <3>3
  <2>2. CASE cell[1] # "null"
    <3>1. \A i \in 1 .. n : v[i] \in {"T", "F"} /\ (v[i] = "T" <=> keys[i] \in DOMAIN m)
      BY <1>4, <2>2 DEF Holds
    <3>2. And3({v[i] : i \in 1 .. n}) = Holds(\A i \in 1 .. n : v[i] = "T")
      BY <3>1, AllHold
    <3>3. (\A i \in 1 .. n : v[i] = "T") <=> ToSet(keys) \subseteq DOMAIN m
      BY <1>1, <3>1 DEF ToSet
    <3> QED BY <2>2, <3>2, <3>3, HoldsSame
  <2> QED BY <2>1, <2>2
<1> QED BY <1>1, <1>2, <1>3, <1>7, <1>8

\* Postgres names them in one predicate.
LEMMA KeysAtOnce ==
  ASSUME NEW a, IsSeq(a), NEW keys, IsSeq(keys), keys # <<>>,
         NEW row, NEW col \in DOMAIN row, row[col][1] \in {"map", "null"}
  PROVE  Tells(PostgresMapHasKeys(col, keys, Len(a)), a, row,
               IF row[col][1] = "null" THEN "U" ELSE Holds(ToSet(keys) \subseteq DOMAIN row[col][2]))
<1>1. PICK n \in Nat : n = Len(keys) /\ n # 0 /\ DOMAIN keys = 1 .. n
  BY IsSeqLen
<1>2. PICK cell : cell = row[col]
  OBVIOUS
<1>3. PICK m : m = cell[2]
  OBVIOUS
<1>4. PICK sym : sym = IF n = 1 THEN "?" ELSE "?&"
  OBVIOUS
<1>5. PICK bound : bound = IF n = 1 THEN Strs(keys) ELSE List(keys)
  OBVIOUS
<1>6. IsSeq(bound)
  BY <1>5, StrsIsSeq, IsSeqOne DEF List
<1>7. PostgresMapHasKeys(col, keys, Len(a)) = One(sym, col, Len(a), bound)
  BY <1>1, <1>4, <1>5 DEF PostgresMapHasKeys
<1>8. sym \notin Connectives /\ sym \notin {"IS NULL", "IS NOT NULL"} /\ sym \notin OverJsonEach
  BY <1>4 DEF Connectives, OverJsonEach
<1>9. Tells(One(sym, col, Len(a), bound), a, row, Test(sym, <<>>, bound, cell))
  BY <1>2, <1>6, <1>8, OneTells
<1>10. CASE cell[1] = "null"
  <2>1. Test(sym, <<>>, bound, cell) = "U"
    BY <1>8, <1>10 DEF Test
  <2> QED BY <1>2, <1>7, <1>9, <1>10, <2>1
<1>11. CASE cell[1] = "map"
  <2>1. Test(sym, <<>>, bound, cell) = OverMap(sym, m, bound)
    BY <1>3, <1>8, <1>11 DEF Test
  <2>2. OverMap(sym, m, bound) = Holds(ToSet(keys) \subseteq DOMAIN m)
    <3>1. CASE n = 1
      <4>1. bound[1] = <<"str", keys[1]>>
        BY <1>1, <1>5, <3>1 DEF Strs
      <4>2. ToSet(keys) = {keys[1]}
        BY <1>1, <3>1 DEF ToSet
      <4>3. OverMap(sym, m, bound) = Holds(bound[1][2] \in DOMAIN m)
        BY <1>4, <3>1 DEF OverMap
      <4>4. bound[1][2] \in DOMAIN m <=> ToSet(keys) \subseteq DOMAIN m
        BY <4>1, <4>2
      <4> QED BY <4>3, <4>4, HoldsSame
    <3>2. CASE n # 1
      <4>1. bound[1][2] = keys
        BY <1>5, <3>2, IsSeqOne DEF List
      <4>2. OverMap(sym, m, bound) = Holds(ToSet(bound[1][2]) \subseteq DOMAIN m)
        BY <1>4, <3>2 DEF OverMap
      <4> QED BY <4>1, <4>2
    <3> QED BY <3>1, <3>2
  <2>3. cell[1] # "null"
    BY <1>11
  <2> QED BY <1>2, <1>3, <1>7, <1>9, <2>1, <2>2, <2>3
<1> QED BY <1>2, <1>10, <1>11

LEMMA KeysTell ==
  ASSUME NEW d \in Dialect, NEW a, IsSeq(a), NEW keys, IsSeq(keys), keys # <<>>,
         NEW row, NEW col \in DOMAIN row, row[col][1] \in {"map", "null"},
         d = "sqlite" => row[col][1] # "null"
  PROVE  Tells(MapHasKeys(d, col, keys, Len(a)), a, row,
               IF row[col][1] = "null" THEN "U" ELSE Holds(ToSet(keys) \subseteq DOMAIN row[col][2]))
<1>1. PICK strs : strs = Strs(keys)
  OBVIOUS
<1>2. PICK paths : paths = Paths(keys)
  OBVIOUS
<1>3. Len(keys) \in Nat /\ DOMAIN keys = 1 .. Len(keys)
  BY IsSeqLen
<1>4. IsSeq(strs) /\ Len(strs) = Len(keys) /\ Carries(strs, keys)
  <2>1. \A i \in 1 .. Len(keys) : strs[i] = <<"str", keys[i]>>
    BY <1>1, <1>3 DEF Strs
  <2> QED BY <1>1, <2>1, StrsIsSeq DEF Carries
<1>5. IsSeq(paths) /\ Len(paths) = Len(keys) /\ Carries(paths, keys)
  <2>1. \A i \in 1 .. Len(keys) : paths[i] = <<"path", keys[i]>>
    BY <1>2, <1>3 DEF Paths
  <2> QED BY <1>2, <2>1, PathsIsSeq DEF Carries
<1>6. CASE d = "clickhouse"
  <2>1. MapHasKeys(d, col, keys, Len(a)) = Joined("mapContains", col, Len(a), 1, Len(keys), strs)
    BY <1>1, <1>6 DEF MapHasKeys, ClickHouseMapHasKeys
  <2>2. "mapContains" \in AsksForKey /\ ~HasNoSay("mapContains")
    BY DEF AsksForKey, HasNoSay, OverJsonEach
  <2>3. Tells(Joined("mapContains", col, Len(a), 1, Len(keys), strs), a, row,
              IF row[col][1] = "null" THEN "U" ELSE Holds(ToSet(keys) \subseteq DOMAIN row[col][2]))
    BY <1>4, <2>2, KeysJoined
  <2> QED BY <2>1, <2>3
<1>7. CASE d = "postgres"
  <2>1. MapHasKeys(d, col, keys, Len(a)) = PostgresMapHasKeys(col, keys, Len(a))
    BY <1>7 DEF MapHasKeys
  <2> QED BY <2>1, KeysAtOnce
<1>8. CASE d = "sqlite"
  <2>1. MapHasKeys(d, col, keys, Len(a)) = Joined("EXISTS key", col, Len(a), 1, Len(keys), strs)
    BY <1>1, <1>8 DEF MapHasKeys, SQLiteMapHasKeys
  <2>2. "EXISTS key" \in AsksForKey
    BY DEF AsksForKey, HasNoSay, OverJsonEach
  <2>3. Tells(Joined("EXISTS key", col, Len(a), 1, Len(keys), strs), a, row,
              IF row[col][1] = "null" THEN "U" ELSE Holds(ToSet(keys) \subseteq DOMAIN row[col][2]))
    BY <1>4, <1>8, <2>2, KeysJoined
  <2> QED BY <2>1, <2>3
<1>9. CASE d = "mysql"
  <2>1. MapHasKeys(d, col, keys, Len(a)) = Joined("JSON_CONTAINS_PATH", col, Len(a), 1, Len(keys), paths)
    BY <1>2, <1>9 DEF MapHasKeys, MySQLMapHasKeys
  <2>2. "JSON_CONTAINS_PATH" \in AsksForKey /\ ~HasNoSay("JSON_CONTAINS_PATH")
    BY DEF AsksForKey, HasNoSay, OverJsonEach
  <2>3. Tells(Joined("JSON_CONTAINS_PATH", col, Len(a), 1, Len(keys), paths), a, row,
              IF row[col][1] = "null" THEN "U" ELSE Holds(ToSet(keys) \subseteq DOMAIN row[col][2]))
    BY <1>5, <2>2, KeysJoined
  <2> QED BY <2>1, <2>3
<1> QED BY <1>6, <1>7, <1>8, <1>9 DEF Dialect

\* A key and its value are in a map.
HasPair(m, kv) == kv[1] \in DOMAIN m /\ m[kv[1]] = kv[2]

LEMMA KeyValuesAre ==
  ASSUME NEW pairs \in Seq(KeyValue)
  PROVE  /\ IsSeq(KeyValues(pairs))
         /\ \A x : x \in ToSet(KeyValues(pairs)) <=>
              \E i \in DOMAIN pairs : \E j \in DOMAIN pairs[i].values : x = <<pairs[i].key, pairs[i].values[j]>>
<1> DEFINE T == Text \X Text
           s == [i \in DOMAIN pairs |-> [j \in DOMAIN pairs[i].values |-> <<pairs[i].key, pairs[i].values[j]>>]]
<1>1. Len(pairs) \in Nat /\ DOMAIN pairs = 1 .. Len(pairs)
  BY LenProperties
<1>2. ASSUME NEW i \in 1 .. Len(pairs)
      PROVE  s[i] \in Seq(T)
  <2>1. pairs[i] \in KeyValue
    BY <1>1, ElementOfSeq
  <2>2. pairs[i].key \in Text /\ pairs[i].values \in Seq(Text)
    BY <2>1 DEF KeyValue
  <2> DEFINE v == pairs[i].values
  <2>3. Len(v) \in Nat /\ DOMAIN v = 1 .. Len(v) /\ \A j \in 1 .. Len(v) : v[j] \in Text
    BY <2>2, LenProperties, ElementOfSeq
  <2> HIDE DEF v
  <2>4. [j \in 1 .. Len(v) |-> <<pairs[i].key, v[j]>>] \in [1 .. Len(v) -> T]
    BY <2>2, <2>3
  <2>5. [j \in 1 .. Len(v) |-> <<pairs[i].key, v[j]>>] \in Seq(T)
    BY <2>3, <2>4, SeqDef
  <2>6. s[i] = [j \in 1 .. Len(v) |-> <<pairs[i].key, v[j]>>]
    BY <1>1, <2>3 DEF v
  <2> QED BY <2>5, <2>6
<1>3. s \in [1 .. Len(pairs) -> Seq(T)]
  BY <1>1, <1>2
<1> HIDE DEF T
<1>4. s \in Seq(Seq(T))
  BY <1>1, <1>3, SeqDef
<1>5. DOMAIN s = DOMAIN pairs /\ \A i \in DOMAIN pairs :
        ToSet(s[i]) = {<<pairs[i].key, pairs[i].values[j]>> : j \in DOMAIN pairs[i].values}
  BY DEF ToSet
<1> HIDE DEF s
<1>6. ToSet(FlattenSeq(s)) = UNION {ToSet(s[i]) : i \in DOMAIN s}
  BY <1>4, FlattenElements
<1>7. KeyValues(pairs) = FlattenSeq(s)
  BY DEF KeyValues, s
<1>8. \A x : x \in ToSet(FlattenSeq(s)) <=> \E i \in DOMAIN pairs : x \in ToSet(s[i])
  BY <1>5, <1>6
<1>9. \A x : x \in ToSet(FlattenSeq(s)) <=>
        \E i \in DOMAIN pairs : \E j \in DOMAIN pairs[i].values : x = <<pairs[i].key, pairs[i].values[j]>>
  BY <1>5, <1>8
<1> QED BY <1>7, <1>9, KeyValuesIsSeq

\* What the loops over the pairs come to.
LEMMA PairsAre ==
  ASSUME NEW c, c.pairs \in Seq(KeyValue), NEW kvs, kvs = KeyValues(c.pairs)
  PROVE  /\ IsSeq(kvs)
         /\ kvs = <<>> <=> \A i \in DOMAIN c.pairs : c.pairs[i].values = <<>>
         /\ \A m : HasPairs(c, m) <=> \A i \in 1 .. Len(kvs) : HasPair(m, kvs[i])
         /\ \A m : (\A i \in DOMAIN c.pairs : c.pairs[i].values = <<>> \/ c.pairs[i].key \in DOMAIN m) =>
              \A i \in 1 .. Len(kvs) : kvs[i][1] \in DOMAIN m
<1>1. IsSeq(kvs) /\ \A x : x \in ToSet(kvs) <=>
        \E i \in DOMAIN c.pairs : \E j \in DOMAIN c.pairs[i].values : x = <<c.pairs[i].key, c.pairs[i].values[j]>>
  BY KeyValuesAre
<1>2. Len(kvs) \in Nat /\ DOMAIN kvs = 1 .. Len(kvs) /\ (kvs = <<>> <=> Len(kvs) = 0)
  BY <1>1, IsSeqLen
<1>3. ToSet(kvs) = {kvs[i] : i \in 1 .. Len(kvs)}
  BY <1>2 DEF ToSet
<1>4. kvs = <<>> <=> ToSet(kvs) = {}
  <2>1. CASE Len(kvs) = 0
    BY <1>2, <1>3, <2>1
  <2>2. CASE Len(kvs) # 0
    <3>1. 1 \in 1 .. Len(kvs)
      BY <1>2, <2>2
    <3> QED BY <1>2, <1>3, <2>2, <3>1
  <2> QED BY <2>1, <2>2
<1>5. \A i \in DOMAIN c.pairs : DOMAIN c.pairs[i].values = {} <=> c.pairs[i].values = <<>>
  <2>1. TAKE i \in DOMAIN c.pairs
  <2>2. c.pairs[i] \in KeyValue
    BY ElementOfSeq, LenProperties
  <2>3. c.pairs[i].values \in Seq(Text)
    BY <2>2 DEF KeyValue
  <2>4. PICK v : v = c.pairs[i].values
    OBVIOUS
  <2>5. IsSeq(v)
    BY <2>3, <2>4, IsSeqIntro
  <2>6. Len(v) \in Nat /\ DOMAIN v = 1 .. Len(v) /\ (v = <<>> <=> Len(v) = 0)
    BY <2>5, IsSeqLen
  <2>7. 1 .. Len(v) = {} <=> Len(v) = 0
    <3>1. Len(v) # 0 => 1 \in 1 .. Len(v)
      BY <2>6
    <3>2. Len(v) = 0 => 1 .. Len(v) = {}
      OBVIOUS
    <3> QED BY <3>1, <3>2
  <2> QED BY <2>4, <2>6, <2>7
<1>6. kvs = <<>> <=> \A i \in DOMAIN c.pairs : c.pairs[i].values = <<>>
  BY <1>1, <1>4, <1>5
<1>7. ASSUME NEW m
      PROVE  HasPairs(c, m) <=> \A i \in 1 .. Len(kvs) : HasPair(m, kvs[i])
  <2>1. ASSUME HasPairs(c, m), NEW i \in 1 .. Len(kvs)
        PROVE  HasPair(m, kvs[i])
    <3>1. kvs[i] \in ToSet(kvs)
      BY <1>3
    <3>2. PICK p \in DOMAIN c.pairs : \E j \in DOMAIN c.pairs[p].values : kvs[i] = <<c.pairs[p].key, c.pairs[p].values[j]>>
      BY <1>1, <3>1
    <3>3. PICK j \in DOMAIN c.pairs[p].values : kvs[i] = <<c.pairs[p].key, c.pairs[p].values[j]>>
      BY <3>2
    <3>4. c.pairs[p].key \in DOMAIN m /\ m[c.pairs[p].key] = c.pairs[p].values[j]
      BY <2>1 DEF HasPairs
    <3>5. kvs[i][1] = c.pairs[p].key /\ kvs[i][2] = c.pairs[p].values[j]
      BY <3>3
    <3> QED BY <3>4, <3>5 DEF HasPair
  <2>2. ASSUME \A i \in 1 .. Len(kvs) : HasPair(m, kvs[i]),
               NEW p \in DOMAIN c.pairs, NEW j \in DOMAIN c.pairs[p].values
        PROVE  c.pairs[p].key \in DOMAIN m /\ m[c.pairs[p].key] = c.pairs[p].values[j]
    <3>1. PICK x : x = <<c.pairs[p].key, c.pairs[p].values[j]>>
      OBVIOUS
    <3>2. x \in ToSet(kvs)
      BY <1>1, <3>1
    <3>3. HasPair(m, x)
      BY <1>3, <2>2, <3>2
    <3>4. x[1] = c.pairs[p].key /\ x[2] = c.pairs[p].values[j]
      BY <3>1
    <3> QED BY <3>3, <3>4 DEF HasPair
  <2> QED BY <2>1, <2>2 DEF HasPairs
<1>8. ASSUME NEW m, \A i \in DOMAIN c.pairs : c.pairs[i].values = <<>> \/ c.pairs[i].key \in DOMAIN m
      PROVE  \A i \in 1 .. Len(kvs) : kvs[i][1] \in DOMAIN m
  <2>1. TAKE i \in 1 .. Len(kvs)
  <2>2. kvs[i] \in ToSet(kvs)
    BY <1>3
  <2>3. PICK p \in DOMAIN c.pairs : \E j \in DOMAIN c.pairs[p].values : kvs[i] = <<c.pairs[p].key, c.pairs[p].values[j]>>
    BY <1>1, <2>2
  <2>4. c.pairs[p].values # <<>>
    BY <1>5, <2>3
  <2> QED BY <1>8, <2>3, <2>4
<1> QED BY <1>1, <1>6, <1>7, <1>8

\* The predicates that ask for a key and its value; two of them have no say
\* about a key that is not there.
AsksForPair == {"[] =", "EXISTS key value", "->> =", "JSON_EXTRACT ="}
NeedsKey(sym) == sym \in {"->> =", "JSON_EXTRACT ="}

\* The arguments carry the keys and the values in turn.
CarriesPairs(bound, kvs) ==
  /\ Len(bound) = 2 * Len(kvs)
  /\ \A i \in 1 .. Len(kvs) : bound[2 * (i - 1) + 1][2] = kvs[i][1] /\ bound[2 * (i - 1) + 2][2] = kvs[i][2]

LEMMA PairTest ==
  ASSUME NEW sym \in AsksForPair, NEW cell, NEW g, NEW kv, g[1][2] = kv[1], g[2][2] = kv[2],
         cell[1] \in {"map", "null"},
         HasNoSay(sym) => cell[1] # "null",
         NeedsKey(sym) /\ cell[1] = "map" => kv[1] \in DOMAIN cell[2]
  PROVE  Test(sym, <<>>, g, cell) = IF cell[1] = "null" THEN "U" ELSE Holds(HasPair(cell[2], kv))
<1>1. sym \notin {"IS NULL", "IS NOT NULL"}
  BY DEF AsksForPair
<1>2. CASE cell[1] = "null"
  <2>1. sym \notin OverJsonEach
    BY <1>2 DEF HasNoSay
  <2> QED BY <1>1, <1>2, <2>1 DEF Test
<1>3. CASE cell[1] = "map"
  <2>1. PICK m : m = cell[2]
    OBVIOUS
  <2>2. cell[1] # "null" /\ cell[1] # "set"
    BY <1>3
  <2>3. Test(sym, <<>>, g, cell) = OverMap(sym, m, g)
    BY <1>1, <1>3, <2>1, <2>2 DEF Test
  <2>4. CASE NeedsKey(sym)
    <3>1. OverMap(sym, m, g) = IF g[1][2] \in DOMAIN m THEN Holds(m[g[1][2]] = g[2][2]) ELSE "U"
      BY <2>4 DEF OverMap, NeedsKey
    <3>2. kv[1] \in DOMAIN m
      BY <1>3, <2>1, <2>4
    <3>3. OverMap(sym, m, g) = Holds(m[kv[1]] = kv[2])
      BY <3>1, <3>2
    <3>4. m[kv[1]] = kv[2] <=> HasPair(m, kv)
      BY <3>2 DEF HasPair
    <3>5. Holds(m[kv[1]] = kv[2]) = Holds(HasPair(m, kv))
      BY <3>4, HoldsSame
    <3> QED BY <2>1, <2>2, <2>3, <3>3, <3>5
  <2>5. CASE ~NeedsKey(sym)
    <3>1. OverMap(sym, m, g) = Holds(g[1][2] \in DOMAIN m /\ m[g[1][2]] = g[2][2])
      BY <2>5 DEF OverMap, NeedsKey, AsksForPair
    <3>2. Holds(g[1][2] \in DOMAIN m /\ m[g[1][2]] = g[2][2]) = Holds(HasPair(m, kv))
      BY HoldsSame DEF HasPair
    <3> QED BY <2>1, <2>2, <2>3, <3>1, <3>2
  <2> QED BY <2>4, <2>5
<1> QED BY <1>2, <1>3

LEMMA PairsJoined ==
  ASSUME NEW a, IsSeq(a), NEW kvs, IsSeq(kvs), kvs # <<>>, NEW bound, IsSeq(bound), CarriesPairs(bound, kvs),
         NEW sym \in AsksForPair, NEW row, NEW col \in DOMAIN row, row[col][1] \in {"map", "null"},
         HasNoSay(sym) => row[col][1] # "null",
         NeedsKey(sym) /\ row[col][1] = "map" => \A i \in 1 .. Len(kvs) : kvs[i][1] \in DOMAIN row[col][2]
  PROVE  Tells(Joined(sym, col, Len(a), 2, Len(kvs), bound), a, row,
               IF row[col][1] = "null" THEN "U"
               ELSE Holds(\A i \in 1 .. Len(kvs) : HasPair(row[col][2], kvs[i])))
<1>1. PICK n \in Nat : n = Len(kvs) /\ n # 0
  BY IsSeqLen
<1>2. PICK cell : cell = row[col]
  OBVIOUS
<1>3. PICK m : m = cell[2]
  OBVIOUS
<1>4. PICK v : v = [i \in 1 .. n |-> IF cell[1] = "null" THEN "U" ELSE Holds(HasPair(m, kvs[i]))]
  OBVIOUS
<1>5. ASSUME NEW i \in 1 .. n
      PROVE  Test(sym, <<>>, [j \in 1 .. 2 |-> bound[2 * (i - 1) + j]], cell) = v[i]
  <2>1. PICK g : g = [j \in 1 .. 2 |-> bound[2 * (i - 1) + j]]
    OBVIOUS
  <2>2. g[1] = bound[2 * (i - 1) + 1] /\ g[2] = bound[2 * (i - 1) + 2]
    BY <2>1
  <2>3. PICK kv : kv = kvs[i]
    OBVIOUS
  <2>4. g[1][2] = kv[1] /\ g[2][2] = kv[2]
    BY <1>1, <2>2, <2>3 DEF CarriesPairs
  <2>5. NeedsKey(sym) /\ cell[1] = "map" => kv[1] \in DOMAIN m
    BY <1>1, <1>2, <1>3, <2>3
  <2>6. cell[1] \in {"map", "null"} /\ (HasNoSay(sym) => cell[1] # "null")
    BY <1>2
  <2>7. Test(sym, <<>>, g, cell) = IF cell[1] = "null" THEN "U" ELSE Holds(HasPair(m, kv))
    BY <1>3, <2>4, <2>5, <2>6, PairTest
  <2> QED BY <1>4, <2>1, <2>3, <2>7
<1>6. Tells(Joined(sym, col, Len(a), 2, n, bound), a, row, And3({v[i] : i \in 1 .. n}))
  <2>1. EachTests(sym, 2, n, bound, row[col], v)
    BY <1>1, <1>2, <1>5 DEF EachTests, CarriesPairs
  <2>2. 2 \in {1, 2} /\ n # 0
    BY <1>1
  <2>3. sym \notin Connectives
    BY DEF AsksForPair, Connectives
  <2> QED BY <2>1, <2>2, <2>3, JoinedTells
<1>7. And3({v[i] : i \in 1 .. n}) =
        IF cell[1] = "null" THEN "U" ELSE Holds(\A i \in 1 .. n : HasPair(m, kvs[i]))
  <2>1. CASE cell[1] = "null"
    <3>1. \A i \in 1 .. n : v[i] = "U"
      BY <1>4, <2>1
    <3>2. n # 0
      BY <1>1
    <3>3. And3({v[i] : i \in 1 .. n}) = "U"
      BY <3>1, <3>2, AllUnknown
    <3> QED BY <2>1, <3>3
  <2>2. CASE cell[1] # "null"
    <3>1. \A i \in 1 .. n : v[i] \in {"T", "F"} /\ (v[i] = "T" <=> HasPair(m, kvs[i]))
      BY <1>4, <2>2 DEF Holds
    <3>2. And3({v[i] : i \in 1 .. n}) = Holds(\A i \in 1 .. n : v[i] = "T")
      BY <3>1, AllHold
    <3>3. (\A i \in 1 .. n : v[i] = "T") <=> \A i \in 1 .. n : HasPair(m, kvs[i])
      BY <3>1
    <3> QED BY <2>2, <3>2, <3>3, HoldsSame
  <2> QED BY <2>1, <2>2
<1> QED BY <1>1, <1>2, <1>3, <1>6, <1>7

\* The arguments of EachPair.
PairArguments(tag, kvs) ==
  [i \in 1 .. 2 * Len(kvs) |-> IF i % 2 = 1 THEN <<tag, kvs[(i + 1) \div 2][1]>> ELSE <<"str", kvs[(i + 1) \div 2][2]>>]

LEMMA EachPairIs ==
  ASSUME NEW tag, NEW pairs, NEW kvs, kvs = KeyValues(pairs), IsSeq(kvs), NEW sym, NEW col, NEW n
  PROVE  /\ EachPair(sym, tag, col, pairs, n) =
              IF kvs = <<>> THEN Nothing ELSE Joined(sym, col, n, 2, Len(kvs), PairArguments(tag, kvs))
         /\ IsSeq(PairArguments(tag, kvs)) /\ CarriesPairs(PairArguments(tag, kvs), kvs)
<1>1. EachPair(sym, tag, col, pairs, n) =
        IF kvs = <<>> THEN Nothing ELSE Joined(sym, col, n, 2, Len(kvs), PairArguments(tag, kvs))
  BY DEF EachPair, PairArguments
<1>2. PICK k \in Nat : k = Len(kvs)
  BY IsSeqLen
<1>3. PICK bound : bound = PairArguments(tag, kvs)
  OBVIOUS
<1>4. bound = [i \in 1 .. 2 * k |-> bound[i]] /\ \A i \in 1 .. 2 * k :
        bound[i] = IF i % 2 = 1 THEN <<tag, kvs[(i + 1) \div 2][1]>> ELSE <<"str", kvs[(i + 1) \div 2][2]>>
  BY <1>2, <1>3 DEF PairArguments
<1>5. IsSeq(bound) /\ Len(bound) = 2 * k
  <2>1. 2 * k \in Nat
    OBVIOUS
  <2> QED BY <1>4, <2>1, IsSeqFunction
<1>6. ASSUME NEW i \in 1 .. k
      PROVE  bound[2 * (i - 1) + 1][2] = kvs[i][1] /\ bound[2 * (i - 1) + 2][2] = kvs[i][2]
  <2>1. ASSUME NEW j, j = 2 * (i - 1) + 1
        PROVE  bound[j][2] = kvs[i][1]
    <3>1. j \in 1 .. 2 * k /\ j % 2 = 1 /\ (j + 1) \div 2 = i
      BY <2>1
    <3>2. bound[j] = <<tag, kvs[(j + 1) \div 2][1]>>
      BY <1>4, <3>1
    <3> QED BY <3>1, <3>2
  <2>2. ASSUME NEW j, j = 2 * (i - 1) + 2
        PROVE  bound[j][2] = kvs[i][2]
    <3>1. j \in 1 .. 2 * k /\ j % 2 # 1 /\ (j + 1) \div 2 = i
      BY <2>2
    <3>2. bound[j] = <<"str", kvs[(j + 1) \div 2][2]>>
      BY <1>4, <3>1
    <3> QED BY <3>1, <3>2
  <2> QED BY <2>1, <2>2
<1>7. CarriesPairs(bound, kvs)
  BY <1>2, <1>5, <1>6 DEF CarriesPairs
<1> QED BY <1>1, <1>3, <1>5, <1>7

LEMMA KeyTestIs ==
  ASSUME NEW f, NEW c, c.op \in KeyTests \cup KeyValueTests, NEW x
  PROVE  Holds(OnCell(f, c, x)) =
           LET v == IF c.op \in KeyTests THEN Holds(Keys(c) \subseteq DOMAIN x) ELSE Holds(ChoicesHold(c, x))
           IN IF c.op \in {"_not_has_keys", "_not_has_key_values"} THEN Not3(v) ELSE v
<1>1. PICK K : K = Keys(c)
  OBVIOUS
<1>2. c.op \in {"_has_keys", "_not_has_keys", "_has_key_values", "_not_has_key_values"}
  BY DEF KeyTests, KeyValueTests
<1>3. CASE c.op = "_has_keys"
  <2>1. OnCell(f, c, x) = (K \subseteq DOMAIN x)
    BY <1>1, <1>3, OnCellMap
  <2> QED BY <1>1, <1>3, <2>1 DEF Holds, KeyTests
<1>4. CASE c.op = "_not_has_keys"
  <2>1. OnCell(f, c, x) = ~(K \subseteq DOMAIN x)
    BY <1>1, <1>4, OnCellMap
  <2> QED BY <1>1, <1>4, <2>1, NotHolds DEF Holds, KeyTests
<1>5. CASE c.op = "_has_key_values"
  <2>1. OnCell(f, c, x) = ChoicesHold(c, x)
    BY <1>5, OnCellMap
  <2> QED BY <1>5, <2>1 DEF Holds, KeyTests
<1>6. CASE c.op = "_not_has_key_values"
  <2>1. OnCell(f, c, x) = ~ChoicesHold(c, x)
    BY <1>6, OnCellMap
  <2> QED BY <1>6, <2>1, NotHolds DEF Holds, KeyTests
<1> QED BY <1>2, <1>3, <1>4, <1>5, <1>6

\* Every dialect asks whether the keys have the values.
LEMMA PairsTell ==
  ASSUME NEW d \in Dialect, NEW a, IsSeq(a), NEW c, c.pairs \in Seq(KeyValue), KeyValues(c.pairs) # <<>>,
         NEW row, NEW col \in DOMAIN row, row[col][1] \in {"map", "null"},
         d = "sqlite" => row[col][1] # "null",
         d \in {"postgres", "mysql"} /\ row[col][1] = "map" =>
           \A i \in DOMAIN c.pairs : c.pairs[i].values = <<>> \/ c.pairs[i].key \in DOMAIN row[col][2]
  PROVE  Tells(MapHasKeyValues(d, col, c.pairs, Len(a)), a, row,
               IF row[col][1] = "null" THEN "U" ELSE Holds(HasPairs(c, row[col][2])))
<1>1. PICK kvs : kvs = KeyValues(c.pairs)
  OBVIOUS
<1>2. IsSeq(kvs) /\ kvs # <<>>
  BY <1>1, PairsAre
<1>3. PICK m : m = row[col][2]
  OBVIOUS
<1>4. HasPairs(c, m) <=> \A i \in 1 .. Len(kvs) : HasPair(m, kvs[i])
  BY <1>1, PairsAre
<1>5. d \in {"postgres", "mysql"} /\ row[col][1] = "map" => \A i \in 1 .. Len(kvs) : kvs[i][1] \in DOMAIN m
  BY <1>1, <1>3, PairsAre
<1>6. Holds(HasPairs(c, m)) = Holds(\A i \in 1 .. Len(kvs) : HasPair(m, kvs[i]))
  BY <1>4, HoldsSame
<1>7. ASSUME NEW sym \in AsksForPair, NEW tag, HasNoSay(sym) => d = "sqlite", NeedsKey(sym) => d \in {"postgres", "mysql"}
      PROVE  Tells(EachPair(sym, tag, col, c.pairs, Len(a)), a, row,
                   IF row[col][1] = "null" THEN "U" ELSE Holds(HasPairs(c, m)))
  <2>1. PICK bound : bound = PairArguments(tag, kvs)
    OBVIOUS
  <2>2. EachPair(sym, tag, col, c.pairs, Len(a)) = Joined(sym, col, Len(a), 2, Len(kvs), bound)
        /\ IsSeq(bound) /\ CarriesPairs(bound, kvs)
    BY <1>1, <1>2, <2>1, EachPairIs
  <2>3. HasNoSay(sym) => row[col][1] # "null"
    BY <1>7
  <2>4. NeedsKey(sym) /\ row[col][1] = "map" => \A i \in 1 .. Len(kvs) : kvs[i][1] \in DOMAIN row[col][2]
    BY <1>3, <1>5, <1>7
  <2>5. Tells(Joined(sym, col, Len(a), 2, Len(kvs), bound), a, row,
              IF row[col][1] = "null" THEN "U"
              ELSE Holds(\A i \in 1 .. Len(kvs) : HasPair(row[col][2], kvs[i])))
    BY <1>2, <2>2, <2>3, <2>4, PairsJoined
  <2> QED BY <1>3, <1>6, <2>2, <2>5
<1>8. CASE d = "clickhouse"
  <2>1. "[] =" \in AsksForPair /\ ~HasNoSay("[] =") /\ ~NeedsKey("[] =")
    BY DEF AsksForPair, HasNoSay, NeedsKey, OverJsonEach
  <2> QED BY <1>3, <1>7, <1>8, <2>1 DEF MapHasKeyValues, ClickHouseMapHasKeyValues
<1>9. CASE d = "postgres"
  <2>1. "->> =" \in AsksForPair /\ ~HasNoSay("->> =")
    BY DEF AsksForPair, HasNoSay, OverJsonEach
  <2> QED BY <1>3, <1>7, <1>9, <2>1 DEF MapHasKeyValues, PostgresMapHasKeyValues
<1>10. CASE d = "sqlite"
  <2>1. "EXISTS key value" \in AsksForPair /\ ~NeedsKey("EXISTS key value")
    BY DEF AsksForPair, NeedsKey
  <2> QED BY <1>3, <1>7, <1>10, <2>1 DEF MapHasKeyValues, SQLiteMapHasKeyValues
<1>11. CASE d = "mysql"
  <2>1. "JSON_EXTRACT =" \in AsksForPair /\ ~HasNoSay("JSON_EXTRACT =")
    BY DEF AsksForPair, HasNoSay, OverJsonEach
  <2> QED BY <1>3, <1>7, <1>11, <2>1 DEF MapHasKeyValues, MySQLMapHasKeyValues
<1> QED BY <1>8, <1>9, <1>10, <1>11 DEF Dialect

LEMMA MapMeans ==
  ASSUME NEW d \in Dialect, NEW a, IsSeq(a), NEW f, NEW c, c.pairs \in Seq(KeyValue),
         c.op \in KeyTests \cup KeyValueTests, SaysSomething(c),
         NEW row, NEW col \in DOMAIN row, row[col][1] \in {"map", "null"},
         d = "sqlite" => row[col][1] # "null",
         d \in {"postgres", "mysql"} /\ c.op \in KeyValueTests /\ row[col][1] = "map" =>
           \A i \in DOMAIN c.pairs : c.pairs[i].values = <<>> \/ c.pairs[i].key \in DOMAIN row[col][2],
         c.op \in KeyValueTests /\ row[col][1] = "map" => ValuesAgree(c, row[col][2])
  PROVE  Answers(ResolveMap(d, col, c, Len(a)), a, row, OnColumn(f, c, row[col]))
<1>1. PICK cell : cell = row[col]
  OBVIOUS
<1>2. PICK kvs : kvs = KeyValues(c.pairs)
  OBVIOUS
<1>3. c.op \notin NullTests
      /\ (AsksNothing(f, c) <=> c.pairs = <<>> \/ (c.op \in KeyValueTests /\ kvs = <<>>))
  <2>1. kvs = <<>> <=> \A i \in DOMAIN c.pairs : c.pairs[i].values = <<>>
    BY <1>2, PairsAre
  <2>2. c.op \notin NullTests /\ c.op \notin Membership \cup Containment /\ (c.op \in KeyTests => c.op \notin KeyValueTests)
    BY DEF NullTests, Membership, Containment, KeyTests, KeyValueTests
  <2>3. c.pairs = <<>> => kvs = <<>>
    <3>1. c.pairs = <<>> => DOMAIN c.pairs = {}
      BY EmptySeq
    <3> QED BY <2>1, <3>1
  <2> QED BY <2>1, <2>2, <2>3 DEF AsksNothing
<1>4. CASE c.pairs = <<>>
  <2>1. OnColumn(f, c, cell) = "none"
    BY <1>3, <1>4, OnColumnIs
  <2>2. ResolveMap(d, col, c, Len(a)) = Skipped
    BY <1>4 DEF ResolveMap
  <2> QED BY <1>1, <2>1, <2>2, SkippedAnswers
<1>5. ASSUME c.pairs # <<>>
      PROVE  Answers(ResolveMap(d, col, c, Len(a)), a, row, OnColumn(f, c, cell))
  <2>1. PICK negative \in BOOLEAN : negative <=> c.op \in {"_not_has_keys", "_not_has_key_values"}
    OBVIOUS
  <2>2. PICK keys : keys = [i \in DOMAIN c.pairs |-> c.pairs[i].key]
    OBVIOUS
  <2>3. PICK r : r = IF c.op \in KeyTests THEN MapHasKeys(d, col, keys, Len(a))
                     ELSE MapHasKeyValues(d, col, c.pairs, Len(a))
    OBVIOUS
  <2>4. r = [text |-> r.text, args |-> r.args]
    BY <2>3, DialectRecords
  <2>5. ResolveMap(d, col, c, Len(a)) = NegateIf(negative, r)
    <3>1. PICK b : b = (c.op \in {"_not_has_keys", "_not_has_key_values"})
      OBVIOUS
    <3>2. ResolveMap(d, col, c, Len(a)) = NegateIf(b, r)
      BY <1>5, <2>2, <2>3, <3>1 DEF ResolveMap
    <3>3. NegateIf(b, r) = NegateIf(negative, r)
      BY <2>1, <3>1 DEF NegateIf
    <3> QED BY <3>2, <3>3
  <2>6. CASE c.op \in KeyValueTests /\ kvs = <<>>
    <3>1. OnColumn(f, c, cell) = "none"
      BY <1>3, <2>6, OnColumnIs
    <3>2. ~negative
      BY <1>2, <1>5, <2>1, <2>6 DEF SaysSomething, KeyValueTests
    <3>3. r = Nothing
      <4>1. c.op \notin KeyTests
        BY <2>6 DEF KeyTests, KeyValueTests
      <4>2. \A sym, tag : EachPair(sym, tag, col, c.pairs, Len(a)) = Nothing
        BY <1>2, <2>6 DEF EachPair
      <4> QED
        BY <2>3, <4>1, <4>2
        DEF Dialect, MapHasKeyValues, ClickHouseMapHasKeyValues, PostgresMapHasKeyValues,
            SQLiteMapHasKeyValues, MySQLMapHasKeyValues
    <3>4. NegateIf(negative, r) = Skipped
      BY <3>2, <3>3 DEF NegateIf, Skipped, Resolved, Nothing
    <3> QED BY <2>5, <3>1, <3>4, SkippedAnswers
  <2>7. CASE c.op \in KeyTests \/ kvs # <<>>
    <3>1. PICK v : v = IF cell[1] = "null" THEN "U"
                       ELSE IF c.op \in KeyTests THEN Holds(Keys(c) \subseteq DOMAIN cell[2])
                       ELSE Holds(HasPairs(c, cell[2]))
      OBVIOUS
    <3>2. Tells(r, a, row, v)
      <4>1. CASE c.op \in KeyTests
        <5>1. Len(c.pairs) \in Nat /\ DOMAIN c.pairs = 1 .. Len(c.pairs) /\ Len(c.pairs) # 0
          BY <1>5, LenProperties, EmptySeq
        <5>2. IsSeq(keys) /\ Len(keys) = Len(c.pairs)
          <6>1. keys = [i \in 1 .. Len(c.pairs) |-> keys[i]]
            BY <2>2, <5>1
          <6> QED BY <5>1, <6>1, IsSeqFunction
        <5>3. keys # <<>>
          BY <5>1, <5>2, IsSeqLen
        <5>4. ToSet(keys) = Keys(c)
          BY <2>2 DEF ToSet, Keys
        <5>5. Tells(MapHasKeys(d, col, keys, Len(a)), a, row,
                    IF row[col][1] = "null" THEN "U" ELSE Holds(ToSet(keys) \subseteq DOMAIN row[col][2]))
          BY <5>2, <5>3, KeysTell
        <5> QED BY <1>1, <2>3, <3>1, <4>1, <5>4, <5>5
      <4>2. CASE c.op \notin KeyTests
        <5>1. c.op \in KeyValueTests /\ KeyValues(c.pairs) # <<>>
          BY <1>2, <2>7, <4>2
        <5>2. d \in {"postgres", "mysql"} /\ row[col][1] = "map" =>
                \A i \in DOMAIN c.pairs : c.pairs[i].values = <<>> \/ c.pairs[i].key \in DOMAIN row[col][2]
          BY <5>1
        <5>3. Tells(MapHasKeyValues(d, col, c.pairs, Len(a)), a, row,
                    IF row[col][1] = "null" THEN "U" ELSE Holds(HasPairs(c, row[col][2])))
          BY <5>1, <5>2, PairsTell
        <5> QED BY <1>1, <2>3, <3>1, <4>2, <5>3
      <4> QED BY <4>1, <4>2
    <3>3. Answers(NegateIf(negative, r), a, row, IF negative THEN Not3(v) ELSE v)
      BY <2>4, <3>2, NegateTells
    <3>4. (IF negative THEN Not3(v) ELSE v) = OnColumn(f, c, cell)
      <4>1. ~AsksNothing(f, c)
        <5>1. c.op \in KeyTests => c.op \notin KeyValueTests
          BY DEF KeyTests, KeyValueTests
        <5> QED BY <1>3, <1>5, <2>7, <5>1
      <4>2. OnColumn(f, c, cell) = IF cell[1] = "null" THEN "U" ELSE Holds(OnCell(f, c, cell[2]))
        BY <1>3, <4>1, OnColumnIs
      <4>3. CASE cell[1] = "null"
        BY <3>1, <4>2, <4>3, NotHolds
      <4>4. CASE cell[1] # "null"
        <5>1. c.op \notin KeyTests => (ChoicesHold(c, cell[2]) <=> HasPairs(c, cell[2]))
          BY <1>1, <4>4, ChoicesAre
        <5>2. c.op \notin KeyTests => Holds(ChoicesHold(c, cell[2])) = Holds(HasPairs(c, cell[2]))
          BY <5>1, HoldsSame
        <5>3. v = IF c.op \in KeyTests THEN Holds(Keys(c) \subseteq DOMAIN cell[2])
                  ELSE Holds(ChoicesHold(c, cell[2]))
          BY <3>1, <4>4, <5>2
        <5> QED BY <2>1, <4>2, <4>4, <5>3, KeyTestIs
      <4> QED BY <4>3, <4>4
    <3> QED BY <2>5, <3>3, <3>4
  <2> QED BY <2>6, <2>7
<1> QED BY <1>1, <1>4, <1>5

(***************************************************************************)
(* Every operator on one column.                                           *)
(***************************************************************************)
LEMMA DecidedIs ==
  ASSUME NEW d, NEW f, NEW c, NEW cell, Decided(d, f, c, cell), c.op \notin NullTests
  PROVE  /\ f.type \in {"string", "id", "enum"} => cell[1] \in {"str", "null"}
         /\ f.type \in {"int", "float"} => cell[1] \in {"num", "null"}
         /\ f.type = "bool" => cell[1] \in {"bool", "null"}
         /\ f.type = "timestamp" => cell[1] \in {"time", "null"}
         /\ f.type = "array" => cell[1] \in {"set", "null"}
         /\ f.type = "map" => cell[1] \in {"map", "null"}
         /\ f.type = "timestamp" /\ c.op \notin Relative =>
              \A i \in DOMAIN c.values : IsString(c.values[i]) => AsString(c.values[i]) \in DOMAIN Instant
         /\ d = "sqlite" /\ f.type \in {"array", "map"} => cell[1] # "null"
         /\ d = "sqlite" /\ c.op \in {"_contains", "_not_contains"} /\ AllStrings(c.values) =>
              \A i, j \in DOMAIN c.values : AsString(c.values[i]) = AsString(c.values[j]) => i = j
         /\ d \in {"postgres", "mysql"} /\ c.op \in KeyValueTests /\ cell[1] = "map" =>
              \A i \in DOMAIN c.pairs : c.pairs[i].values = <<>> \/ c.pairs[i].key \in DOMAIN cell[2]
         /\ c.op \in KeyValueTests /\ cell[1] = "map" => ValuesAgree(c, cell[2])
         /\ SaysSomething(c)
<1>1. cell[1] \in {CellOf[f.type], "null"}
  BY DEF Decided
<1>2. /\ f.type \in {"string", "id", "enum"} => cell[1] \in {"str", "null"}
      /\ f.type \in {"int", "float"} => cell[1] \in {"num", "null"}
      /\ f.type = "bool" => cell[1] \in {"bool", "null"}
      /\ f.type = "timestamp" => cell[1] \in {"time", "null"}
      /\ f.type = "array" => cell[1] \in {"set", "null"}
      /\ f.type = "map" => cell[1] \in {"map", "null"}
  BY <1>1 DEF CellOf
<1> QED BY <1>2, Zenon DEF Decided

\* What resolve writes for an operator it accepts the values of is true, false
\* or unknown of a row exactly as the documentation has it, in every dialect.
LEMMA ColumnMeans ==
  ASSUME NEW d \in Dialect, NEW a, IsSeq(a), NEW f, NEW c, IsSeq(c.values), c.pairs \in Seq(KeyValue),
         Allows(f, c.op), NEW row, NEW col \in DOMAIN row, Decided(d, f, c, row[col]),
         Resolve(d, f, col, c, Len(a)).ok
  PROVE  Answers(Resolve(d, f, col, c, Len(a)), a, row, OnColumn(f, c, row[col]))
<1>1. CASE c.op \in NullTests
  BY <1>1, NullMeans
<1>2. CASE c.op \notin NullTests
  <2>1. c.op # "_is_null" /\ c.op # "_is_not_null"
    BY <1>2 DEF NullTests
  <2>2. f.type \in {"string", "id", "int", "float", "bool", "timestamp", "enum", "array", "map"}
    BY <1>2, AllowedOperator
  <2>3. CASE f.type \in {"string", "id", "enum"}
    <3>1. Resolve(d, f, col, c, Len(a)) = ResolveScalar(d, f, col, c, Len(a))
      BY <2>1, <2>3 DEF Resolve
    <3>2. c.op \in Equality \cup Membership \cup Matching
      BY <1>2, <2>3, AllowedOperator
    <3>3. row[col][1] \in {"str", "null"}
      BY <1>2, <2>3, DecidedIs
    <3> QED BY <2>3, <3>1, <3>2, <3>3, ScalarMeans
  <2>4. CASE f.type \in {"int", "float"}
    <3>1. Resolve(d, f, col, c, Len(a)) = ResolveNumeric(col, c, Len(a))
      BY <2>1, <2>4 DEF Resolve
    <3>2. c.op \in Equality \cup Membership \cup Ordering \cup {"_between"}
      BY <1>2, <2>4, AllowedOperator
    <3>3. row[col][1] \in {"num", "null"}
      BY <1>2, <2>4, DecidedIs
    <3> QED BY <2>4, <3>1, <3>2, <3>3, NumericMeans
  <2>5. CASE f.type = "bool"
    <3>1. Resolve(d, f, col, c, Len(a)) = ResolveBool(col, c, Len(a))
      BY <2>1, <2>5 DEF Resolve
    <3>2. c.op \in Equality
      BY <1>2, <2>5, AllowedOfType
    <3>3. row[col][1] \in {"bool", "null"}
      BY <1>2, <2>5, DecidedIs
    <3> QED BY <2>5, <3>1, <3>2, <3>3, BoolMeans
  <2>6. CASE f.type = "timestamp"
    <3>1. Resolve(d, f, col, c, Len(a)) = ResolveTimestamp(d, col, c, Len(a))
      BY <2>1, <2>6 DEF Resolve
    <3>2. c.op \in {"_eq", "_between"} \cup Ordering \cup Relative
      BY <1>2, <2>6, AllowedOfType
    <3>3. /\ row[col][1] \in {"time", "null"}
          /\ c.op \notin Relative =>
               \A i \in DOMAIN c.values : IsString(c.values[i]) => AsString(c.values[i]) \in DOMAIN Instant
      BY <1>2, <2>6, DecidedIs
    <3> QED BY <2>6, <3>1, <3>2, <3>3, TimestampMeans
  <2>7. CASE f.type = "array"
    <3>1. Resolve(d, f, col, c, Len(a)) = ResolveArray(d, col, c, Len(a))
      BY <2>1, <2>7 DEF Resolve
    <3>2. c.op \in Containment
      BY <1>2, <2>7, AllowedOfType
    <3>3. /\ row[col][1] \in {"set", "null"}
          /\ d = "sqlite" => row[col][1] # "null"
          /\ d = "sqlite" /\ c.op \in {"_contains", "_not_contains"} /\ AllStrings(c.values) =>
               \A i, j \in DOMAIN c.values : AsString(c.values[i]) = AsString(c.values[j]) => i = j
      BY <1>2, <2>7, DecidedIs
    <3> QED BY <2>7, <3>1, <3>2, <3>3, ArrayMeans
  <2>8. CASE f.type = "map"
    <3>1. Resolve(d, f, col, c, Len(a)) = ResolveMap(d, col, c, Len(a))
      BY <2>1, <2>8 DEF Resolve
    <3>2. c.op \in KeyTests \cup KeyValueTests
      BY <1>2, <2>8, AllowedOfType
    <3>3. /\ row[col][1] \in {"map", "null"}
          /\ d = "sqlite" => row[col][1] # "null"
          /\ d \in {"postgres", "mysql"} /\ c.op \in KeyValueTests /\ row[col][1] = "map" =>
               \A i \in DOMAIN c.pairs : c.pairs[i].values = <<>> \/ c.pairs[i].key \in DOMAIN row[col][2]
          /\ c.op \in KeyValueTests /\ row[col][1] = "map" => ValuesAgree(c, row[col][2])
          /\ SaysSomething(c)
      BY <1>2, <2>8, DecidedIs
    <3> QED BY <3>1, <3>2, <3>3, MapMeans
  <2> QED BY <2>2, <2>3, <2>4, <2>5, <2>6, <2>7, <2>8
<1> QED BY <1>1, <1>2

(***************************************************************************)
(* What a group of conditions asks.  Blend is Combine with the connective  *)
(* that a call of each form writes between its parts.                      *)
(***************************************************************************)
Disjoins(form) == form \in {"or", "search"}
Joins2(form, u, v) == IF Disjoins(form) THEN Or2(u, v) ELSE And2(u, v)

Blend(form, S) ==
  IF S \ {"none"} = {} THEN "none" ELSE IF Disjoins(form) THEN Or3(S \ {"none"}) ELSE And3(S \ {"none"})

Verdict == Truth \cup {"none"}

LEMMA BlendIsCombine ==
  ASSUME NEW form, NEW S
  PROVE  Blend(form, S) = IF Disjoins(form) THEN Combine(Or3, S) ELSE Combine(And3, S)
BY DEF Blend, Combine

LEMMA BlendVerdict == ASSUME NEW form, NEW S PROVE Blend(form, S) \in Verdict
BY AlgebraTruth DEF Blend, Verdict

\* What asks nothing counts for nothing.
LEMMA BlendDrops == ASSUME NEW form, NEW S PROVE Blend(form, {"none"} \cup S) = Blend(form, S)
<1>1. ({"none"} \cup S) \ {"none"} = S \ {"none"}
  OBVIOUS
<1> QED BY <1>1 DEF Blend

LEMMA BlendNothing == ASSUME NEW form PROVE Blend(form, {}) = "none"
<1>1. {} \ {"none"} = {}
  OBVIOUS
<1> QED BY <1>1 DEF Blend

LEMMA BlendOne == ASSUME NEW form, NEW v \in Verdict PROVE Blend(form, {v}) = v
<1>1. CASE v = "none"
  <2>1. {v} \ {"none"} = {}
    BY <1>1
  <2> QED BY <1>1, <2>1 DEF Blend
<1>2. CASE v # "none"
  <2>1. {v} \ {"none"} = {v} /\ {v} # {}
    BY <1>2
  <2>2. v \in Truth
    BY <1>2 DEF Verdict
  <2> QED BY <2>1, <2>2, OfOne DEF Blend
<1> QED BY <1>1, <1>2

\* Two parts may be joined first.
LEMMA BlendJoined ==
  ASSUME NEW form, NEW u \in Truth, NEW v \in Truth, NEW S
  PROVE  Blend(form, {Joins2(form, u, v)} \cup S) = Blend(form, {u, v} \cup S)
<1>1. PICK R : R = S \ {"none"}
  OBVIOUS
<1>2. PICK w : w = Joins2(form, u, v)
  OBVIOUS
<1>3. u # "none" /\ v # "none" /\ w # "none"
  BY <1>2, AlgebraTruth DEF Joins2, Or2, And2, Truth
<1>4. ({w} \cup S) \ {"none"} = R \cup {w} /\ ({u, v} \cup S) \ {"none"} = R \cup {u, v}
  BY <1>1, <1>3
<1>5. R \cup {w} # {} /\ R \cup {u, v} # {}
  OBVIOUS
<1>6. CASE Disjoins(form)
  <2>1. w = Or3({u, v})
    BY <1>2, <1>6 DEF Joins2, Or2
  <2>2. Or3(R \cup {Or3({u, v})}) = Or3(R \cup {u, v})
    BY Or3Flat
  <2> QED BY <1>2, <1>4, <1>5, <1>6, <2>1, <2>2 DEF Blend
<1>7. CASE ~Disjoins(form)
  <2>1. w = And3({u, v})
    BY <1>2, <1>7 DEF Joins2, And2
  <2>2. And3(R \cup {And3({u, v})}) = And3(R \cup {u, v})
    BY And3Flat
  <2> QED BY <1>2, <1>4, <1>5, <1>7, <2>1, <2>2 DEF Blend
<1> QED BY <1>6, <1>7

LEMMA NotVerdict == ASSUME NEW v \in Verdict PROVE Not3(v) \in Verdict /\ (v = "none" => Not3(v) = "none")
BY AlgebraTruth DEF Verdict, Not3, Truth

(***************************************************************************)
(* What a node asks, unfolded.                                             *)
(***************************************************************************)
AllMean(r, conds) == {r[conds[i]] : i \in DOMAIN conds}
Turned(form, v) == IF form = "not" THEN Not3(v) ELSE v

MeansWith(out, row, c, r) ==
  CASE Forms(c) = {"key"} -> LeafMeaning(out, c, row)
    [] Forms(c) = {"and"} -> Combine(And3, AllMean(r, c.and))
    [] Forms(c) = {"or"} -> Combine(Or3, AllMean(r, c.or))
    [] Forms(c) = {"not"} -> Not3(Combine(And3, AllMean(r, c.not)))
    [] OTHER -> "none"

LEMMA CombineVerdict ==
  /\ \A S : Combine(And3, S) \in Verdict
  /\ \A S : Combine(Or3, S) \in Verdict
BY AlgebraTruth DEF Combine, Verdict

LEMMA LeafVerdict == ASSUME NEW out, NEW c, NEW row PROVE LeafMeaning(out, c, row) \in Verdict
<1>1. "none" \in Verdict
  BY DEF Verdict
<1> QED BY <1>1, CombineVerdict DEF LeafMeaning

LEMMA MeansWithVerdict == ASSUME NEW out, NEW row, NEW c, NEW r PROVE MeansWith(out, row, c, r) \in Verdict
<1>1. "none" \in Verdict
  BY DEF Verdict
<1>2. \A S : Not3(Combine(And3, S)) \in Verdict
  BY CombineVerdict, NotVerdict
<1> QED BY <1>1, <1>2, LeafVerdict, CombineVerdict DEF MeansWith

LEMMA MeaningsRecur ==
  ASSUME NEW out, NEW row
  PROVE  \A c \in Condition : Meaning(out, row)[c] = MeansWith(out, row, c, Meaning(out, row))
<1> DEFINE step == [c \in Condition |-> [r \in [NodesBelow(c) -> Verdict] |-> MeansWith(out, row, c, r)]]
<1>1. \A c \in Condition : \A r \in [NodesBelow(c) -> Verdict] : step[c][r] = MeansWith(out, row, c, r)
  OBVIOUS
<1>2. \A c \in Condition : \A r \in [NodesBelow(c) -> Verdict] : MeansWith(out, row, c, r) \in Verdict
  BY MeansWithVerdict
<1> HIDE DEF step
<1>3. StepsIn(Verdict, step)
  BY <1>1, <1>2 DEF StepsIn
<1>4. PICK g : Follows(g, Verdict, step)
  BY <1>3, TreesRecur
<1>5. ASSUME NEW c \in Condition PROVE g[c] = MeansWith(out, row, c, g)
  <2>1. PICK r : r = Restrict(g, NodesBelow(c))
    OBVIOUS
  <2>2. g[c] = MeansWith(out, row, c, r)
    BY <1>1, <1>4, <2>1 DEF Follows
  <2>3. \A x \in NodesBelow(c) : r[x] = g[x]
    BY <2>1 DEF Restrict
  <2>4. ASSUME NEW conds, ToSet(conds) \subseteq NodesBelow(c) PROVE AllMean(r, conds) = AllMean(g, conds)
    <3>1. \A i \in DOMAIN conds : r[conds[i]] = g[conds[i]]
      BY <2>3, <2>4 DEF ToSet
    <3> QED BY <3>1 DEF AllMean
  <2>5. /\ AllMean(r, c.and) = AllMean(g, c.and) /\ AllMean(r, c.or) = AllMean(g, c.or)
        /\ AllMean(r, c.not) = AllMean(g, c.not)
    BY <2>4, SubtreesOf
  <2> QED BY <2>2, <2>5 DEF MeansWith
<1>6. g = [c \in Condition |-> MeansWith(out, row, c, g)]
  BY <1>4, <1>5 DEF Follows
<1>7. Meaning(out, row) = CHOOSE f : f = [c \in Condition |-> MeansWith(out, row, c, f)]
  BY DEF Meaning, MeansWith, AllMean, AnyNode
<1>8. Meaning(out, row) = [c \in Condition |-> MeansWith(out, row, c, Meaning(out, row))]
  BY <1>6, <1>7
<1> QED BY <1>8

\* What some conditions mean, each on its own.
Meanings(out, row, conds) == AllMean(Meaning(out, row), conds)

LEMMA MeaningOfNode ==
  ASSUME NEW out, NEW row, NEW c \in Condition
  PROVE  /\ Meaning(out, row)[c] \in Verdict
         /\ Forms(c) = {} => Meaning(out, row)[c] = "none"
         /\ Forms(c) = {"key"} => Meaning(out, row)[c] = LeafMeaning(out, c, row)
         /\ \A form \in {"and", "or", "not"} : Forms(c) = {form} =>
              Meaning(out, row)[c] = Turned(form, Blend(form, Meanings(out, row, c[form])))
<1>1. Meaning(out, row)[c] = MeansWith(out, row, c, Meaning(out, row))
  BY MeaningsRecur
<1>2. Forms(c) = {} => Meaning(out, row)[c] = "none"
  BY <1>1 DEF MeansWith
<1>3. Forms(c) = {"key"} => Meaning(out, row)[c] = LeafMeaning(out, c, row)
  BY <1>1 DEF MeansWith
<1>4. ASSUME NEW form \in {"and", "or", "not"}, Forms(c) = {form}
      PROVE  Meaning(out, row)[c] = Turned(form, Blend(form, Meanings(out, row, c[form])))
  <2>1. CASE form = "and"
    <3>1. Forms(c) = {"and"} /\ {"and"} # {"key"}
      BY <1>4, <2>1
    <3>2. Meaning(out, row)[c] = Combine(And3, Meanings(out, row, c.and))
      BY <1>1, <3>1 DEF MeansWith, Meanings
    <3>3. Blend(form, Meanings(out, row, c.and)) = Combine(And3, Meanings(out, row, c.and))
      BY <2>1, BlendIsCombine DEF Disjoins
    <3> QED BY <2>1, <3>2, <3>3 DEF Turned
  <2>2. CASE form = "or"
    <3>1. Forms(c) = {"or"} /\ {"or"} # {"key"} /\ {"or"} # {"and"}
      BY <1>4, <2>2
    <3>2. Meaning(out, row)[c] = Combine(Or3, Meanings(out, row, c.or))
      BY <1>1, <3>1 DEF MeansWith, Meanings
    <3>3. Blend(form, Meanings(out, row, c.or)) = Combine(Or3, Meanings(out, row, c.or))
      BY <2>2, BlendIsCombine DEF Disjoins
    <3> QED BY <2>2, <3>2, <3>3 DEF Turned
  <2>3. CASE form = "not"
    <3>1. Forms(c) = {"not"} /\ {"not"} # {"key"} /\ {"not"} # {"and"} /\ {"not"} # {"or"}
      BY <1>4, <2>3
    <3>2. Meaning(out, row)[c] = Not3(Combine(And3, Meanings(out, row, c.not)))
      BY <1>1, <3>1 DEF MeansWith, Meanings
    <3>3. Blend(form, Meanings(out, row, c.not)) = Combine(And3, Meanings(out, row, c.not))
      BY <2>3, BlendIsCombine DEF Disjoins
    <3> QED BY <2>3, <3>2, <3>3 DEF Turned
  <2> QED BY <2>1, <2>2, <2>3
<1> QED BY <1>1, <1>2, <1>3, <1>4, MeansWithVerdict

LEMMA MeaningsOfNone == ASSUME NEW out, NEW row PROVE Meanings(out, row, <<>>) = {}
<1>1. DOMAIN <<>> = {}
  BY EmptySeq
<1> QED BY <1>1 DEF Meanings, AllMean

LEMMA MeaningsOfMore ==
  ASSUME NEW out, NEW row, NEW s \in Seq(Condition), s # <<>>
  PROVE  Meanings(out, row, s) = {Meaning(out, row)[Head(s)]} \cup Meanings(out, row, Tail(s))
<1>1. PICK n : n = Len(s)
  OBVIOUS
<1>2. n \in Nat /\ n # 0 /\ DOMAIN s = 1 .. n /\ Head(s) = s[1]
  BY <1>1, LenProperties, HeadTailProperties, EmptySeq
<1>3. /\ Tail(s) \in Seq(Condition) /\ Len(Tail(s)) = n - 1
      /\ \A i \in 1 .. n - 1 : Tail(s)[i] = s[i + 1]
  BY <1>1, HeadTailProperties
<1>4. DOMAIN Tail(s) = 1 .. n - 1
  BY <1>3, LenProperties
<1>5. PICK m : m = Meaning(out, row)
  OBVIOUS
<1>6. {m[s[i]] : i \in 1 .. n} = {m[s[1]]} \cup {m[s[i + 1]] : i \in 1 .. n - 1}
  <2>1. 1 \in 1 .. n /\ \A i \in 1 .. n - 1 : i + 1 \in 1 .. n
    BY <1>2
  <2>2. \A i \in 1 .. n : i = 1 \/ (i - 1 \in 1 .. n - 1 /\ (i - 1) + 1 = i)
    BY <1>2
  <2> QED BY <2>1, <2>2
<1>7. {m[Tail(s)[i]] : i \in 1 .. n - 1} = {m[s[i + 1]] : i \in 1 .. n - 1}
  BY <1>3
<1>8. Meanings(out, row, s) = {m[s[i]] : i \in 1 .. n}
  BY <1>2, <1>5 DEF Meanings, AllMean
<1>9. Meanings(out, row, Tail(s)) = {m[Tail(s)[i]] : i \in 1 .. n - 1}
  BY <1>4, <1>5 DEF Meanings, AllMean
<1>10. Meaning(out, row)[Head(s)] = m[s[1]]
  BY <1>2, <1>5
<1> HIDE DEF Meanings
<1> QED BY <1>6, <1>7, <1>8, <1>9, <1>10

(***************************************************************************)
(* The text of a call.  Its parts stand side by side under one connective; *)
(* a text that is not parenthesized yet has no OR in it, unless its call   *)
(* is about to parenthesize it.                                            *)
(***************************************************************************)
Composed(call) ==
  /\ Balanced(call.text)
  /\ call.live = 0 <=> call.text = <<>>
  /\ ~Disjoins(call.form) \/ call.live = 0 \/ call.live = 1 => Grouped(call.text)

LEMMA NothingNeat == Neat(<<>>)
BY BalancedNothing DEF Neat, Grouped

LEMMA PlusIs ==
  ASSUME NEW call, CallOK(call), Composed(call), NEW part, part # <<>>,
         NEW x, x = Plus(call, part)
  PROVE  /\ x.form = call.form /\ x.live = call.live + 1 /\ x.live \in Nat /\ call.live \in Nat
         /\ call.live = 0 => x.text = part
         /\ call.live # 0 => x.text = Link(call.text, Separator(call.form), part)
<1> DEFINE text == IF call.live = 0 THEN part ELSE call.text \o <<Separator(call.form)>> \o part
<1>1. x = [call EXCEPT !.text = text, !.live = @ + 1]
  BY DEF Plus
<1>2. call \in [form : {call.form}, node : {call.node}, rest : {call.rest}, cols : {call.cols},
               text : {call.text}, live : {call.live}, from : {call.from}]
  BY DEF CallOK
<1> HIDE DEF text
<1>3. x.form = call.form /\ x.live = call.live + 1 /\ x.text = text
  BY <1>1, <1>2
<1>4. call.live \in Nat
  BY DEF CallOK
<1>5. text = IF call.live = 0 THEN part ELSE Link(call.text, Separator(call.form), part)
  BY DEF text, Link
<1> QED BY <1>3, <1>4, <1>5

LEMMA PlusComposed ==
  ASSUME NEW call, CallOK(call), Composed(call), NEW part, Neat(part), NEW x, x = Plus(call, part)
  PROVE  Composed(x)
<1>1. CASE part = <<>>
  <2>1. x = call
    BY <1>1 DEF Plus
  <2> QED BY <2>1
<1>2. CASE part # <<>>
  <2>1. /\ x.form = call.form /\ x.live = call.live + 1 /\ x.live \in Nat /\ call.live \in Nat
        /\ call.live = 0 => x.text = part
        /\ call.live # 0 => x.text = Link(call.text, Separator(call.form), part)
    BY <1>2, PlusIs
  <2>2. x.live # 0 /\ (call.live # 0 => x.live # 1)
    BY <2>1
  <2>3. CASE call.live = 0
    BY <1>2, <2>1, <2>2, <2>3 DEF Composed, Neat
  <2>4. CASE call.live # 0 /\ Disjoins(call.form)
    <3>1. Separator(call.form) = Word("OR")
      BY <2>4 DEF Separator, Disjoins
    <3>2. Balanced(call.text) /\ call.text # <<>>
      BY <2>4 DEF Composed
    <3>3. Balanced(Link(call.text, Word("OR"), part)) /\ Link(call.text, Word("OR"), part) # <<>>
      BY <1>2, <3>2, WorthOr DEF Neat
    <3> QED BY <2>1, <2>2, <2>4, <3>1, <3>3 DEF Composed
  <2>5. CASE call.live # 0 /\ ~Disjoins(call.form)
    <3>1. Separator(call.form) = Word("AND")
      BY <2>5 DEF Separator, Disjoins
    <3>2. Neat(call.text) /\ call.text # <<>>
      BY <2>5 DEF Composed, Neat
    <3>3. Neat(Link(call.text, Word("AND"), part)) /\ Link(call.text, Word("AND"), part) # <<>>
      BY <1>2, <3>2, WorthAnd
    <3> QED BY <2>1, <2>2, <2>5, <3>1, <3>3 DEF Composed, Neat
  <2> QED BY <2>3, <2>4, <2>5
<1> QED BY <1>1, <1>2

\* One more part: the text asks what it asked and what the part asks.
Adding(v, S) == {v} \cup S

LEMMA PlusWorth ==
  ASSUME NEW call, CallOK(call), Composed(call), NEW part, Neat(part), NEW x, x = Plus(call, part),
         NEW a, NEW row, NEW S
  PROVE  Blend(call.form, Adding(Worth(x.text, a, row), S)) =
           Blend(call.form, Adding(Worth(call.text, a, row), Adding(Worth(part, a, row), S)))
<1>1. PICK u : u = Worth(call.text, a, row)
  OBVIOUS
<1>2. PICK v : v = Worth(part, a, row)
  OBVIOUS
<1>3. PICK w : w = Worth(x.text, a, row)
  OBVIOUS
<1>4. IsSeq(call.text) /\ IsSeq(part)
  BY DEF Composed, Neat, Balanced
<1>5. {u} \cup ({v} \cup S) = {v} \cup ({u} \cup S) /\ {u} \cup ({v} \cup S) = {u, v} \cup S
  OBVIOUS
<1>8. SUFFICES Blend(call.form, {w} \cup S) = Blend(call.form, {u} \cup ({v} \cup S))
  BY <1>1, <1>2, <1>3 DEF Adding
<1>6. CASE part = <<>>
  <2>1. x = call /\ v = "none"
    BY <1>2, <1>6 DEF Plus, Worth
  <2>2. Blend(call.form, {v} \cup ({u} \cup S)) = Blend(call.form, {u} \cup S)
    BY <2>1, BlendDrops
  <2>3. w = u
    BY <1>1, <1>3, <2>1
  <2> QED BY <1>5, <2>2, <2>3
<1>7. CASE part # <<>>
  <2>1. /\ call.live = 0 => x.text = part
        /\ call.live # 0 => x.text = Link(call.text, Separator(call.form), part)
    BY <1>7, PlusIs
  <2>2. CASE call.live = 0
    <3>1. call.text = <<>> /\ x.text = part
      BY <2>1, <2>2 DEF Composed
    <3>2. u = "none" /\ w = v
      BY <1>1, <1>2, <1>3, <3>1 DEF Worth
    <3>3. Blend(call.form, {u} \cup ({v} \cup S)) = Blend(call.form, {v} \cup S)
      BY <3>2, BlendDrops
    <3> QED BY <3>2, <3>3
  <2>3. CASE call.live # 0
    <3>1. call.text # <<>> /\ Balanced(call.text)
      BY <2>3 DEF Composed
    <3>2. u \in Truth /\ v \in Truth
      BY <1>1, <1>2, <1>4, <1>7, <3>1, WorthTruth
    <3>3. w = Joins2(call.form, u, v)
      <4>1. CASE Disjoins(call.form)
        <5>1. Separator(call.form) = Word("OR")
          BY <4>1 DEF Separator, Disjoins
        <5>2. Worth(Link(call.text, Word("OR"), part), a, row) = Or2(Worth(call.text, a, row), Worth(part, a, row))
          BY <1>7, <3>1, WorthOr DEF Neat
        <5> QED BY <1>1, <1>2, <1>3, <2>1, <2>3, <4>1, <5>1, <5>2 DEF Joins2
      <4>2. CASE ~Disjoins(call.form)
        <5>1. Separator(call.form) = Word("AND")
          BY <4>2 DEF Separator, Disjoins
        <5>2. Neat(call.text)
          BY <4>2 DEF Composed, Neat
        <5>3. Worth(Link(call.text, Word("AND"), part), a, row) = And2(Worth(call.text, a, row), Worth(part, a, row))
          BY <1>7, <3>1, <5>2, WorthAnd
        <5> QED BY <1>1, <1>2, <1>3, <2>1, <2>3, <4>2, <5>1, <5>3 DEF Joins2
      <4> QED BY <4>1, <4>2
    <3>4. Blend(call.form, {w} \cup S) = Blend(call.form, {u, v} \cup S)
      BY <3>2, <3>3, BlendJoined
    <3> QED BY <1>5, <3>4
  <2> QED BY <2>2, <2>3
<1> QED BY <1>6, <1>7

\* What a call returns asks what its text asks, or the negation of it.
LEMMA ReturnedWorth ==
  ASSUME NEW call, CallOK(call), Composed(call), NEW a, NEW row
  PROVE  /\ Neat(Returned(call))
         /\ Worth(Returned(call), a, row) = Turned(call.form, Worth(call.text, a, row))
<1>1. call.live \in Nat /\ Balanced(call.text)
  BY DEF CallOK, Composed
<1>2. CASE call.live = 0
  <2>1. Returned(call) = <<>> /\ call.text = <<>>
    BY <1>2 DEF Returned, Composed
  <2>2. Worth(<<>>, a, row) = "none" /\ Not3("none") = "none"
    BY DEF Worth, Not3
  <2> QED BY <2>1, <2>2, NothingNeat DEF Turned
<1>3. CASE call.live # 0 /\ call.form = "not"
  <2>1. Returned(call) = Negated(call.text) /\ call.text # <<>>
    BY <1>1, <1>3 DEF Returned, Composed
  <2> QED BY <1>1, <1>3, <2>1, WorthNegated DEF Turned
<1>4. CASE call.live = 1 /\ call.form # "not"
  <2>1. Returned(call) = call.text
    BY <1>4 DEF Returned
  <2> QED BY <1>1, <1>4, <2>1 DEF Composed, Neat, Turned
<1>5. CASE call.live # 0 /\ call.live # 1 /\ call.form # "not"
  <2>1. Returned(call) = Parens(call.text) /\ call.text # <<>>
    BY <1>1, <1>5 DEF Returned, Composed, Parens
  <2> QED BY <1>1, <1>5, <2>1, WorthParens DEF Turned
<1> QED BY <1>2, <1>3, <1>4, <1>5

(***************************************************************************)
(* The arguments a text shows are bound already.                           *)
(***************************************************************************)
LEMMA WithinNothing == ASSUME NEW n PROVE FindsIn(<<>>, n)
<1>1. DOMAIN <<>> = {}
  BY EmptySeq
<1> QED BY <1>1 DEF FindsIn

LEMMA WithinWord == ASSUME NEW w, NEW n PROVE FindsIn(<<Word(w)>>, n) /\ IsSeq(<<Word(w)>>)
<1>1. IsSeq(<<Word(w)>>) /\ Len(<<Word(w)>>) = 1 /\ <<Word(w)>>[1] = Word(w)
  BY IsSeqOne
<1>2. DOMAIN <<Word(w)>> = 1 .. 1
  BY <1>1, IsSeqLen
<1> QED BY <1>1, <1>2, WordSlots DEF FindsIn

LEMMA WithinConcat ==
  ASSUME NEW s, NEW t, IsSeq(s), IsSeq(t), NEW n, FindsIn(s, n), FindsIn(t, n)
  PROVE  FindsIn(s \o t, n)
<1>1. PICK c : c = s \o t
  OBVIOUS
<1>2. PICK k : k = Len(s)
  OBVIOUS
<1>3. PICK m : m = Len(t)
  OBVIOUS
<1>4. /\ k \in Nat /\ m \in Nat /\ DOMAIN s = 1 .. k /\ DOMAIN t = 1 .. m
      /\ IsSeq(c) /\ Len(c) = k + m /\ DOMAIN c = 1 .. k + m
      /\ \A i \in 1 .. k : c[i] = s[i]
      /\ \A i \in 1 .. m : c[k + i] = t[i]
  BY <1>1, <1>2, <1>3, IsSeqLen, IsSeqConcat
<1>5. \A i \in 1 .. k + m : i \in 1 .. k \/ (i - k \in 1 .. m /\ k + (i - k) = i)
  BY <1>4
<1>6. \A i \in 1 .. k + m : c[i] \in {s[j] : j \in 1 .. k} \cup {t[j] : j \in 1 .. m}
  BY <1>4, <1>5
<1> QED BY <1>1, <1>4, <1>6 DEF FindsIn

LEMMA WithinLater ==
  ASSUME NEW text, NEW n \in Nat, NEW m \in Nat, n <= m, FindsIn(text, n) PROVE FindsIn(text, m)
<1>1. 1 .. n \subseteq 1 .. m
  OBVIOUS
<1> QED BY <1>1 DEF FindsIn

LEMMA ShowsWithin ==
  ASSUME NEW text, NEW lo, NEW hi, Shows(text, lo, hi) PROVE FindsIn(text, hi)
<1>1. lo \in Nat /\ hi \in Nat /\ (lo + 1) .. hi \subseteq 1 .. hi
  BY DEF Shows
<1>2. \A i \in DOMAIN text : \A j \in DOMAIN text[i].slots : text[i].slots[j] \in (lo + 1) .. hi
  BY InOrderByPosition DEF Shows
<1> QED BY <1>1, <1>2 DEF FindsIn

LEMMA PlusWithin ==
  ASSUME NEW call, CallOK(call), Composed(call), NEW part, IsSeq(part), NEW n,
         FindsIn(call.text, n), FindsIn(part, n), NEW x, x = Plus(call, part)
  PROVE  FindsIn(x.text, n)
<1>1. CASE part = <<>>
  BY <1>1 DEF Plus
<1>2. CASE part # <<>>
  <2>1. /\ call.live = 0 => x.text = part
        /\ call.live # 0 => x.text = Link(call.text, Separator(call.form), part)
    BY <1>2, PlusIs
  <2>2. PICK w : Separator(call.form) = Word(w)
    BY DEF Separator
  <2>3. IsSeq(call.text)
    BY DEF Composed, Balanced
  <2>4. IsSeq(call.text \o <<Word(w)>>) /\ FindsIn(call.text \o <<Word(w)>>, n)
    BY <2>3, WithinWord, WithinConcat, IsSeqConcat
  <2>5. FindsIn(call.text \o <<Word(w)>> \o part, n)
    BY <2>4, WithinConcat
  <2> QED BY <2>1, <2>2, <2>5 DEF Link
<1> QED BY <1>1, <1>2

LEMMA ReturnedWithin ==
  ASSUME NEW call, CallOK(call), Composed(call), NEW n, FindsIn(call.text, n)
  PROVE  FindsIn(Returned(call), n)
<1>1. IsSeq(call.text)
  BY DEF Composed, Balanced
<1>2. ASSUME NEW head, IsSeq(head), FindsIn(head, n) PROVE FindsIn(head \o call.text \o <<Word(")")>>, n)
  <2>1. IsSeq(head \o call.text) /\ FindsIn(head \o call.text, n)
    BY <1>1, <1>2, WithinConcat, IsSeqConcat
  <2> QED BY <2>1, WithinWord, WithinConcat
<1>3. IsSeq(<<Word("NOT"), Word("(")>>) /\ FindsIn(<<Word("NOT"), Word("(")>>, n)
  <2>1. <<Word("NOT"), Word("(")>> = <<Word("NOT")>> \o <<Word("(")>>
    OBVIOUS
  <2>2. IsSeq(<<Word("NOT")>>) /\ FindsIn(<<Word("NOT")>>, n) /\ IsSeq(<<Word("(")>>) /\ FindsIn(<<Word("(")>>, n)
    BY WithinWord
  <2>3. IsSeq(<<Word("NOT")>> \o <<Word("(")>>)
    BY <2>2, IsSeqConcat
  <2>4. FindsIn(<<Word("NOT")>> \o <<Word("(")>>, n)
    BY <2>2, WithinConcat
  <2> QED BY <2>1, <2>3, <2>4
<1>4. FindsIn(Negated(call.text), n)
  BY <1>2, <1>3 DEF Negated
<1>5. FindsIn(<<Word("(")>> \o call.text \o <<Word(")")>>, n)
  BY <1>2, WithinWord
<1> QED BY <1>4, <1>5, WithinNothing DEF Returned

(***************************************************************************)
(* What a rendering tells of a row.                                        *)
(*                                                                         *)
(* A call is asked what its conditions mean, or its leaf on its columns.   *)
(* Its text, the calls inside it and what it has still to visit together   *)
(* ask that.  q is what does not change while a filter is compiled.        *)
(***************************************************************************)
Scene(row) == [out |-> exclude, conds |-> filter, d |-> dialect, row |-> row]

Columnwise(node, cols, row) == {OnColumn(Registry[node.key], node, row[col]) : col \in cols}

Asked(q, call) ==
  IF call.form = "search" THEN Columnwise(call.node, ColumnsOf(call.node.key), q.row)
  ELSE IF call.form = "top" THEN Meanings(q.out, q.row, q.conds)
  ELSE Meanings(q.out, q.row, call.node[call.form])

Says(q, call) == Blend(call.form, Asked(q, call))
Gives(q, call) == Turned(call.form, Says(q, call))

Coming(q, call) == Meanings(q.out, q.row, call.rest) \cup Columnwise(call.node, ToSet(call.cols), q.row)

\* The leaf of a search is one that the databases decide alike.
Searchable(q, call) ==
  call.form = "search" =>
    \A col \in ColumnsOf(call.node.key) :
      col \in DOMAIN q.row /\ Decided(q.d, Registry[call.node.key], call.node, q.row[col])

CallTells(q, call, inner, a) ==
  /\ Composed(call)
  /\ FindsIn(call.text, Len(a))
  /\ Searchable(q, call)
  /\ Blend(call.form, {Worth(call.text, a, q.row)} \cup (inner \cup Coming(q, call))) = Says(q, call)

\* What the call at i is given by the one inside it.
InnerGives(q, calls, i) == IF i = Len(calls) THEN {} ELSE {Gives(q, calls[i + 1])}

StackTells(q, calls, a) ==
  /\ calls[1].form = "top"
  /\ \A i \in 1 .. Len(calls) : CallTells(q, calls[i], InnerGives(q, calls, i), a)

Telling ==
  /\ result = "running" => \A row \in Row : StackTells(Scene(row), stack, args)
  /\ result = "ok" =>
       \A row \in Row : Neat(sql) /\ Worth(sql, args, row) = ListMeaning(exclude, filter, row)

LEMMA TellsLater ==
  ASSUME NEW q, NEW call, NEW inner, NEW a, NEW b, IsSeq(a), IsSeq(b), CallTells(q, call, inner, a)
  PROVE  CallTells(q, call, inner, a \o b)
<1>1. FindsIn(call.text, Len(a)) /\ Worth(call.text, a \o b, q.row) = Worth(call.text, a, q.row)
  BY WorthStable DEF CallTells
<1>2. Len(a) \in Nat /\ Len(a \o b) \in Nat /\ Len(a) <= Len(a \o b)
  BY IsSeqConcat, IsSeqLen
<1>3. FindsIn(call.text, Len(a \o b))
  BY <1>1, <1>2, WithinLater
<1> QED BY <1>1, <1>3 DEF CallTells

LEMMA ReplaceTells ==
  ASSUME NEW q, NEW calls, IsSeq(calls), calls # <<>>, NEW n, n = Len(calls),
         NEW a, StackTells(q, calls, a), NEW e,
         \A i \in 1 .. n : \A inner : CallTells(q, calls[i], inner, a) => CallTells(q, calls[i], inner, e),
         NEW x, CallTells(q, x, {}, e), Gives(q, x) = Gives(q, calls[n]), x.form = calls[n].form,
         NEW more, more = Append(SubSeq(calls, 1, n - 1), x)
  PROVE  StackTells(q, more, e)
<1>1. /\ n \in Nat /\ n # 0 /\ Len(more) = n
      /\ \A i \in 1 .. n : i # n => more[i] = calls[i]
      /\ more[n] = x
  BY Replaced
<1>2. ASSUME NEW i \in 1 .. n, i # n PROVE CallTells(q, more[i], InnerGives(q, more, i), e)
  <2>1. i + 1 \in 1 .. n
    BY <1>1, <1>2
  <2>2. Gives(q, more[i + 1]) = Gives(q, calls[i + 1])
    BY <1>1, <2>1
  <2>3. InnerGives(q, more, i) = InnerGives(q, calls, i)
    BY <1>1, <1>2, <2>2 DEF InnerGives
  <2>4. CallTells(q, calls[i], InnerGives(q, calls, i), e)
    BY DEF StackTells
  <2> QED BY <1>1, <1>2, <2>3, <2>4
<1>3. InnerGives(q, more, n) = {}
  BY <1>1 DEF InnerGives
<1>4. more[1].form = "top"
  BY <1>1 DEF StackTells
<1> QED BY <1>1, <1>2, <1>3, <1>4 DEF StackTells

LEMMA OpenTells ==
  ASSUME NEW q, NEW calls, IsSeq(calls), calls # <<>>, NEW n, n = Len(calls),
         NEW a, StackTells(q, calls, a),
         NEW x, NEW y, CallTells(q, x, {Gives(q, y)}, a), CallTells(q, y, {}, a),
         Gives(q, x) = Gives(q, calls[n]), x.form = calls[n].form,
         NEW one, one = Append(SubSeq(calls, 1, n - 1), x), NEW more, more = Append(one, y)
  PROVE  StackTells(q, more, a)
<1>1. /\ n \in Nat /\ n # 0 /\ Len(more) = n + 1
      /\ \A i \in 1 .. n : i # n => more[i] = calls[i]
      /\ more[n] = x /\ more[n + 1] = y
  BY Opened
<1>2. ASSUME NEW i \in 1 .. n, i # n PROVE CallTells(q, more[i], InnerGives(q, more, i), a)
  <2>1. i + 1 \in 1 .. n /\ i # n + 1
    BY <1>1, <1>2
  <2>2. Gives(q, more[i + 1]) = Gives(q, calls[i + 1])
    BY <1>1, <2>1
  <2>3. InnerGives(q, more, i) = InnerGives(q, calls, i)
    BY <1>1, <1>2, <2>1, <2>2 DEF InnerGives
  <2>4. CallTells(q, calls[i], InnerGives(q, calls, i), a)
    BY DEF StackTells
  <2> QED BY <1>1, <1>2, <2>3, <2>4
<1>3. n # n + 1
  BY <1>1
<1>4. InnerGives(q, more, n) = {Gives(q, y)} /\ InnerGives(q, more, n + 1) = {}
  BY <1>1, <1>3 DEF InnerGives
<1>5. \A i \in 1 .. n + 1 : i = n + 1 \/ i = n \/ (i \in 1 .. n /\ i # n)
  BY <1>1
<1>6. more[1].form = "top"
  BY <1>1 DEF StackTells
<1> QED BY <1>1, <1>2, <1>4, <1>5, <1>6 DEF StackTells

LEMMA CloseTells ==
  ASSUME NEW q, NEW calls, IsSeq(calls), Len(calls) > 1, NEW n, n = Len(calls),
         NEW a, StackTells(q, calls, a),
         NEW x, CallTells(q, x, {}, a), Gives(q, x) = Gives(q, calls[n - 1]), x.form = calls[n - 1].form,
         NEW more, more = Append(SubSeq(calls, 1, n - 2), x)
  PROVE  StackTells(q, more, a)
<1>1. /\ n \in Nat /\ n > 1 /\ Len(more) = n - 1
      /\ \A i \in 1 .. n - 1 : i # n - 1 => more[i] = calls[i]
      /\ more[n - 1] = x
  BY Closed
<1>2. ASSUME NEW i \in 1 .. n - 1, i # n - 1 PROVE CallTells(q, more[i], InnerGives(q, more, i), a)
  <2>1. i + 1 \in 1 .. n - 1 /\ i # n /\ i \in 1 .. n
    BY <1>1, <1>2
  <2>2. Gives(q, more[i + 1]) = Gives(q, calls[i + 1])
    BY <1>1, <2>1
  <2>3. InnerGives(q, more, i) = InnerGives(q, calls, i)
    BY <1>1, <1>2, <2>1, <2>2 DEF InnerGives
  <2>4. CallTells(q, calls[i], InnerGives(q, calls, i), a)
    BY <2>1 DEF StackTells
  <2> QED BY <1>1, <1>2, <2>3, <2>4
<1>3. InnerGives(q, more, n - 1) = {}
  BY <1>1 DEF InnerGives
<1>4. more[1].form = "top"
  BY <1>1 DEF StackTells
<1> QED BY <1>1, <1>2, <1>3, <1>4 DEF StackTells

\* A call whose visit to the next child is over: it has what the child gives.
LEMMA NextPartTells ==
  ASSUME NEW q, NEW call, CallOK(call), NEW inner, NEW a, CallTells(q, call, inner, a),
         NEW part, Neat(part), FindsIn(part, Len(a)), NEW next, CallOK(next),
         next.form = call.form, next.node = call.node, next.text = call.text, next.live = call.live,
         inner \cup Coming(q, call) = {Worth(part, a, q.row)} \cup Coming(q, next),
         NEW x, x = Plus(next, part)
  PROVE  CallTells(q, x, {}, a) /\ Gives(q, x) = Gives(q, call) /\ x.form = call.form
<1>1. x.form = next.form /\ x.node = next.node /\ x.rest = next.rest /\ x.cols = next.cols
  BY PlusKeeps
<1>2. Composed(next) /\ FindsIn(next.text, Len(a))
  BY DEF CallTells, Composed
<1>3. Composed(x) /\ FindsIn(x.text, Len(a))
  BY <1>2, PlusComposed, PlusWithin DEF Neat, Balanced
<1>4. Coming(q, x) = Coming(q, next)
  BY <1>1 DEF Coming
<1>5. Asked(q, x) = Asked(q, call)
  BY <1>1 DEF Asked
<1>6. Says(q, x) = Says(q, call) /\ Gives(q, x) = Gives(q, call)
  BY <1>1, <1>5 DEF Says, Gives
<1>7. Searchable(q, x)
  BY <1>1 DEF CallTells, Searchable
<1>8. Blend(x.form, {Worth(x.text, a, q.row)} \cup Coming(q, next)) =
        Blend(x.form, {Worth(next.text, a, q.row)} \cup ({Worth(part, a, q.row)} \cup Coming(q, next)))
  <2>1. Blend(next.form, Adding(Worth(x.text, a, q.row), Coming(q, next))) =
          Blend(next.form, Adding(Worth(next.text, a, q.row), Adding(Worth(part, a, q.row), Coming(q, next))))
    BY <1>2, PlusWorth
  <2> QED BY <1>1, <2>1 DEF Adding
<1>9. Blend(x.form, {Worth(x.text, a, q.row)} \cup ({} \cup Coming(q, x))) = Says(q, x)
  <2>1. {} \cup Coming(q, x) = Coming(q, next)
    BY <1>4
  <2> QED BY <1>1, <1>6, <1>8, <2>1 DEF CallTells
<1> QED BY <1>1, <1>3, <1>6, <1>7, <1>9 DEF CallTells

\* A call that has begun has all before it.
LEMMA BeginsTelling ==
  ASSUME NEW q, NEW call, call.text = <<>>, call.live = 0, NEW a,
         Searchable(q, call), Coming(q, call) = Asked(q, call)
  PROVE  CallTells(q, call, {}, a)
<1>1. Composed(call)
  BY BalancedNothing DEF Composed, Grouped
<1>2. FindsIn(call.text, Len(a))
  BY WithinNothing
<1>3. Worth(call.text, a, q.row) = "none" /\ {} \cup Coming(q, call) = Asked(q, call)
  BY DEF Worth
<1>4. Blend(call.form, {"none"} \cup Asked(q, call)) = Says(q, call)
  BY BlendDrops DEF Says
<1> QED BY <1>1, <1>2, <1>3, <1>4 DEF CallTells

\* A call that has nothing left asks what it says.
LEMMA EndsTelling ==
  ASSUME NEW q, NEW call, CallOK(call), NEW a, CallTells(q, call, {}, a), call.rest = <<>>, call.cols = <<>>
  PROVE  /\ Worth(call.text, a, q.row) = Says(q, call)
         /\ Neat(Returned(call)) /\ FindsIn(Returned(call), Len(a))
         /\ Worth(Returned(call), a, q.row) = Gives(q, call)
<1>1. DOMAIN <<>> = {} /\ ToSet(<<>>) = {}
  BY EmptySeq DEF ToSet
<1>2. Coming(q, call) = {}
  BY <1>1, MeaningsOfNone DEF Coming, Columnwise
<1>3. IsSeq(call.text) /\ Composed(call)
  BY DEF CallTells, Composed, Balanced
<1>4. Worth(call.text, a, q.row) \in Verdict
  BY <1>3, WorthTruth DEF Verdict
<1>5. Blend(call.form, {Worth(call.text, a, q.row)} \cup ({} \cup {})) = Says(q, call)
  BY <1>2 DEF CallTells
<1>6. {Worth(call.text, a, q.row)} \cup ({} \cup {}) = {Worth(call.text, a, q.row)}
  OBVIOUS
<1>7. Worth(call.text, a, q.row) = Says(q, call)
  BY <1>4, <1>5, <1>6, BlendOne
<1> QED BY <1>3, <1>7, ReturnedWorth, ReturnedWithin DEF Gives, CallTells

(***************************************************************************)
(* The actions.                                                            *)
(***************************************************************************)
LEMMA SceneIs ==
  ASSUME NEW row
  PROVE  /\ Scene(row).out = exclude /\ Scene(row).conds = filter
         /\ Scene(row).d = dialect /\ Scene(row).row = row
BY DEF Scene

LEMMA NothingColumnwise == ASSUME NEW node, NEW row PROVE Columnwise(node, ToSet(<<>>), row) = {}
<1>1. ToSet(<<>>) = {}
  BY EmptySeq DEF ToSet
<1> QED BY <1>1 DEF Columnwise

LEMMA InnerTells ==
  ASSUME NEW base, Rendering(base), Reading(Condition), Telling, result = "running", NEW row \in Row
  PROVE  StackTells(Scene(row), stack, args) /\ CallTells(Scene(row), Inner, {}, args) /\ IsSeq(args)
<1>1. /\ IsSeq(stack) /\ stack # <<>> /\ Inner = stack[Len(stack)]
  BY InnerReads
<1>2. StackTells(Scene(row), stack, args)
  BY DEF Telling
<1>3. Len(stack) \in 1 .. Len(stack)
  BY <1>1, IsSeqLen
<1>4. InnerGives(Scene(row), stack, Len(stack)) = {}
  BY DEF InnerGives
<1>5. CallTells(Scene(row), stack[Len(stack)], InnerGives(Scene(row), stack, Len(stack)), args)
  BY <1>2, <1>3 DEF StackTells
<1> QED BY <1>1, <1>2, <1>4, <1>5 DEF Rendering

\* The next child, and what comes after it.
LEMMA NodeComes ==
  ASSUME NEW base, Rendering(base), Reading(Condition), result = "running", Inner.rest # <<>>, NEW row
  PROVE  /\ CallOK(Inner) /\ CallOK(Onward) /\ Node \in Condition
         /\ Onward.form = Inner.form /\ Onward.node = Inner.node /\ Onward.text = Inner.text
         /\ Onward.live = Inner.live
         /\ Coming(Scene(row), Inner) = {Meaning(exclude, row)[Node]} \cup Coming(Scene(row), Onward)
<1>1. CallOK(Inner) /\ CallReads(Condition, Inner)
  BY InnerReads
<1>2. Inner.form # "search" /\ Node \in Condition /\ CallOK(Onward)
  BY <1>1, OnwardReads, OnwardOK
<1>3. Inner.cols = <<>> /\ Inner.rest \in Seq(Condition)
  BY <1>1, <1>2 DEF CallReads
<1>4. Onward = [form |-> Inner.form, node |-> Inner.node, rest |-> Tail(Inner.rest), cols |-> Inner.cols,
                text |-> Inner.text, live |-> Inner.live, from |-> Inner.from]
  BY <1>1, Advance DEF Onward
<1>5. /\ Onward.form = Inner.form /\ Onward.node = Inner.node /\ Onward.text = Inner.text
      /\ Onward.live = Inner.live /\ Onward.rest = Tail(Inner.rest) /\ Onward.cols = <<>>
  BY <1>3, <1>4
<1>6. Meanings(exclude, row, Inner.rest) =
        {Meaning(exclude, row)[Node]} \cup Meanings(exclude, row, Tail(Inner.rest))
  BY <1>3, MeaningsOfMore DEF Node
<1>7. /\ Coming(Scene(row), Inner) = Meanings(exclude, row, Inner.rest) \cup {}
      /\ Coming(Scene(row), Onward) = Meanings(exclude, row, Tail(Inner.rest)) \cup {}
  BY <1>3, <1>5, NothingColumnwise, SceneIs DEF Coming
<1> QED BY <1>1, <1>2, <1>5, <1>6, <1>7

\* The step of the innermost call: a part of it, with what the part asks.
LEMMA PartTelling ==
  ASSUME NEW base, Rendering(base), Reading(Condition), Telling, result = "running", NEW row \in Row,
         NEW bound, IsSeq(bound), NEW part, Neat(part), FindsIn(part, Len(args \o bound)),
         NEW next, CallOK(next),
         next.form = Inner.form, next.node = Inner.node, next.text = Inner.text, next.live = Inner.live,
         Coming(Scene(row), Inner) = {Worth(part, args \o bound, row)} \cup Coming(Scene(row), next),
         NEW more, more = Append(Below, Plus(next, part))
  PROVE  StackTells(Scene(row), more, args \o bound)
<1>1. /\ IsSeq(stack) /\ stack # <<>> /\ CallOK(Inner)
      /\ Inner = stack[Len(stack)] /\ Below = SubSeq(stack, 1, Len(stack) - 1)
  BY InnerReads
<1>2. StackTells(Scene(row), stack, args) /\ CallTells(Scene(row), Inner, {}, args) /\ IsSeq(args)
  BY InnerTells
<1>3. PICK q : q = Scene(row)
  OBVIOUS
<1>4. PICK e : e = args \o bound
  OBVIOUS
<1>5. q.row = row
  BY <1>3, SceneIs
<1>6. \A call : \A inner : CallTells(q, call, inner, args) => CallTells(q, call, inner, e)
  BY <1>2, <1>4, TellsLater
<1>7. CallTells(q, Inner, {}, e)
  BY <1>2, <1>3, <1>6
<1>8. {} \cup Coming(q, Inner) = {Worth(part, e, q.row)} \cup Coming(q, next)
  BY <1>3, <1>4, <1>5
<1>9. FindsIn(part, Len(e))
  BY <1>4
<1>10. PICK x : x = Plus(next, part)
  OBVIOUS
<1>11. CallTells(q, x, {}, e) /\ Gives(q, x) = Gives(q, Inner) /\ x.form = Inner.form
  <2>1. PICK c : c = Inner
    OBVIOUS
  <2>2. PICK none : none = {}
    OBVIOUS
  <2>3. /\ CallOK(c) /\ CallOK(next) /\ CallTells(q, c, none, e) /\ Neat(part) /\ FindsIn(part, Len(e))
        /\ next.form = c.form /\ next.node = c.node /\ next.text = c.text /\ next.live = c.live
    BY <1>1, <1>7, <1>9, <2>1, <2>2
  <2>4. none \cup Coming(q, c) = {Worth(part, e, q.row)} \cup Coming(q, next)
    BY <1>8, <2>1, <2>2
  <2>5. CallTells(q, x, {}, e) /\ Gives(q, x) = Gives(q, c) /\ x.form = c.form
    BY ONLY <1>10, <2>3, <2>4, NextPartTells
  <2> QED BY <2>1, <2>5
<1>12. PICK n : n = Len(stack)
  OBVIOUS
<1>13. StackTells(q, stack, args) /\ Gives(q, x) = Gives(q, stack[n]) /\ x.form = stack[n].form /\ more = Append(SubSeq(stack, 1, n - 1), x)
  BY <1>1, <1>2, <1>3, <1>10, <1>11, <1>12
<1>14. \A i \in 1 .. n : \A inner : CallTells(q, stack[i], inner, args) => CallTells(q, stack[i], inner, e)
  BY <1>6
<1>15. StackTells(q, more, e)
  BY <1>1, <1>11, <1>12, <1>13, <1>14, ReplaceTells
<1> QED BY <1>3, <1>4, <1>15

\* The innermost call, when a child is visited that another call renders.
LEMMA VisitTells ==
  ASSUME NEW q, NEW call, NEW a, CallTells(q, call, {}, a), NEW next,
         next.form = call.form, next.node = call.node, next.text = call.text, next.live = call.live,
         NEW v, Coming(q, call) = {v} \cup Coming(q, next)
  PROVE  CallTells(q, next, {v}, a) /\ Gives(q, next) = Gives(q, call)
<1>1. Asked(q, next) = Asked(q, call)
  BY DEF Asked
<1>2. Says(q, next) = Says(q, call) /\ Gives(q, next) = Gives(q, call)
  BY <1>1 DEF Says, Gives
<1>3. Composed(next) /\ FindsIn(next.text, Len(a)) /\ Searchable(q, next)
  BY DEF CallTells, Composed, Searchable
<1>4. {} \cup Coming(q, call) = {v} \cup Coming(q, next)
  OBVIOUS
<1>5. Blend(next.form, {Worth(next.text, a, q.row)} \cup ({v} \cup Coming(q, next))) = Says(q, next)
  BY <1>2, <1>4 DEF CallTells
<1> QED BY <1>2, <1>3, <1>5 DEF CallTells

LEMMA SceneSame ==
  ASSUME exclude' = exclude, filter' = filter, dialect' = dialect, NEW row
  PROVE  Scene(row)' = Scene(row)
BY DEF Scene

LEMMA StillTelling ==
  ASSUME exclude' = exclude, filter' = filter, dialect' = dialect, result' = "running",
         \A row \in Row : StackTells(Scene(row), stack', args')
  PROVE  Telling'
<1>1. \A row : Scene(row)' = Scene(row)
  BY SceneSame
<1> QED BY <1>1 DEF Telling, StackTells, CallTells, InnerGives, Gives, Says, Asked, Coming, Searchable

LEMMA SkipTelling == ASSUME NEW base, Rendering(base), Reading(Condition), Telling, Skip PROVE Telling'
<1>1. /\ Inner.rest # <<>> /\ Silent /\ result = "running" /\ result' = "running"
      /\ stack' = Append(Below, Onward) /\ exclude' = exclude /\ filter' = filter /\ dialect' = dialect
      /\ args' = args
  BY DEF Skip, Visiting
<1>2. ASSUME NEW row \in Row PROVE StackTells(Scene(row), stack', args')
  <2>1. /\ CallOK(Onward) /\ Node \in Condition
        /\ Onward.form = Inner.form /\ Onward.node = Inner.node /\ Onward.text = Inner.text
        /\ Onward.live = Inner.live
        /\ Coming(Scene(row), Inner) = {Meaning(exclude, row)[Node]} \cup Coming(Scene(row), Onward)
    BY <1>1, NodeComes
  <2>2. Meaning(exclude, row)[Node] = "none"
    <3>1. CASE Forms(Node) = {}
      BY <2>1, <3>1, MeaningOfNode
    <3>2. CASE Forms(Node) = {"key"} /\ Mute(exclude, Node)
      BY <2>1, <3>2, MeaningOfNode DEF LeafMeaning
    <3> QED BY <1>1, <3>1, <3>2 DEF Silent, Mute
  <2>3. IsSeq(args) /\ IsSeq(<<>>) /\ args \o <<>> = args
    <3>1. IsSeq(args)
      BY <1>1 DEF Rendering
    <3> QED BY <3>1, EmptySeq, IsSeqIntro DEF IsSeq
  <2>4. Plus(Onward, <<>>) = Onward /\ Worth(<<>>, args, row) = "none"
    BY DEF Plus, Worth
  <2>5. StackTells(Scene(row), Append(Below, Onward), args \o <<>>)
    BY <1>1, <2>1, <2>2, <2>3, <2>4, NothingNeat, WithinNothing, PartTelling
  <2> QED BY <1>1, <2>3, <2>5
<1> QED BY <1>1, <1>2, StillTelling

\* A call over the children of a node asks what the node means.
LEMMA DescendTelling == ASSUME NEW base, Rendering(base), Reading(Condition), Telling, Descend PROVE Telling'
<1>1. PICK form \in {"and", "or", "not"} :
        /\ Inner.rest # <<>> /\ result = "running" /\ result' = "running"
        /\ Forms(Node) = {form}
        /\ stack' = Below \o <<Onward, Call(form, Node, Node[form], <<>>)>>
        /\ exclude' = exclude /\ filter' = filter /\ dialect' = dialect /\ args' = args
  BY DEF Descend, Visiting
<1>2. /\ IsSeq(stack) /\ stack # <<>> /\ IsSeq(Below)
      /\ Inner = stack[Len(stack)] /\ Below = SubSeq(stack, 1, Len(stack) - 1)
  BY <1>1, InnerReads
<1>3. PICK call : call = Call(form, Node, Node[form], <<>>)
  OBVIOUS
<1>4. /\ call.form = form /\ call.node = Node /\ call.rest = Node[form] /\ call.cols = <<>>
      /\ call.text = <<>> /\ call.live = 0
  BY <1>3 DEF Call
<1>5. stack' = Append(Append(Below, Onward), call)
  BY <1>1, <1>2, <1>3, TwoMore
<1>6. ASSUME NEW row \in Row PROVE StackTells(Scene(row), stack', args')
  <2>1. PICK q : q = Scene(row)
    OBVIOUS
  <2>2. q.out = exclude /\ q.row = row
    BY <2>1, SceneIs
  <2>3. Coming(q, call) = Meanings(exclude, row, Node[form]) \cup {}
    BY <1>4, <2>2, NothingColumnwise DEF Coming
  <2>4. Asked(q, call) = Meanings(exclude, row, Node[form])
    BY <1>1, <1>4, <2>2 DEF Asked
  <2>5. Searchable(q, call)
    BY <1>1, <1>4 DEF Searchable
  <2>6. CallTells(q, call, {}, args)
    BY <1>4, <2>3, <2>4, <2>5, BeginsTelling
  <2>7. /\ CallOK(Onward) /\ Node \in Condition
        /\ Onward.form = Inner.form /\ Onward.node = Inner.node /\ Onward.text = Inner.text
        /\ Onward.live = Inner.live
        /\ Coming(q, Inner) = {Meaning(exclude, row)[Node]} \cup Coming(q, Onward)
    BY <1>1, <2>1, NodeComes
  <2>8. Meaning(exclude, row)[Node] = Gives(q, call)
    BY <1>1, <1>4, <2>4, <2>7, MeaningOfNode DEF Gives, Says
  <2>9. StackTells(q, stack, args) /\ CallTells(q, Inner, {}, args)
    BY <1>1, <2>1, InnerTells
  <2>10. CallTells(q, Onward, {Gives(q, call)}, args) /\ Gives(q, Onward) = Gives(q, Inner)
    BY <2>7, <2>8, <2>9, VisitTells
  <2> QED BY <1>1, <1>2, <1>5, <2>1, <2>6, <2>7, <2>9, <2>10, OpenTells
<1> QED BY <1>1, <1>6, StillTelling

\* A leaf that takes part means what its operator says of its columns.
LEMMA LeafMeans ==
  ASSUME Node \in Condition, IsSeq(Node.values), AtLeaf, NEW row
  PROVE  /\ Hooked.key = Node.key /\ Hooked.op = Node.op /\ Hooked.pairs = Node.pairs /\ IsSeq(Hooked.values)
         /\ Registry[Hooked.key] = Field
         /\ Meaning(exclude, row)[Node] = Blend("search", Columnwise(Hooked, ColumnsOf(Node.key), row))
<1>1. Hooked.key = Node.key /\ Hooked.op = Node.op /\ Hooked.pairs = Node.pairs /\ IsSeq(Hooked.values)
  BY HookedOK
<1>2. Registry[Hooked.key] = Field
  BY <1>1 DEF Field
<1>3. Forms(Node) = {"key"} /\ ~Mute(exclude, Node)
  BY DEF AtLeaf, Silent, Mute
<1>4. Meaning(exclude, row)[Node] = LeafMeaning(exclude, Node, row)
  BY <1>3, MeaningOfNode
<1>5. LeafMeaning(exclude, Node, row) =
        Combine(Or3, {OnColumn(Field, Hooked, row[col]) : col \in ColumnsOf(Node.key)})
  BY <1>3 DEF LeafMeaning, Hooked, Field, ColumnsOf
<1>6. Columnwise(Hooked, ColumnsOf(Node.key), row) =
        {OnColumn(Field, Hooked, row[col]) : col \in ColumnsOf(Node.key)}
  BY <1>2 DEF Columnwise
<1>7. \A S : Blend("search", S) = Combine(Or3, S)
  BY BlendIsCombine DEF Disjoins
<1> QED BY <1>1, <1>2, <1>4, <1>5, <1>6, <1>7

\* The databases decide alike what the leaf asks of its columns.
LEMMA LeafIsDecided ==
  ASSUME AllDecided, Node \in Condition, Known, Allows(Field, Node.op), HooksPass(Field, Node.values),
         dialect \in Target, NEW row \in Row, NEW col \in ColumnsOf(Node.key)
  PROVE  col \in DOMAIN row /\ Decided(dialect, Field, Hooked, row[col])
<1>1. LeafDecided(Node)
  BY DEF AllDecided
<1>2. /\ \A r \in Row : col \in DOMAIN r
      /\ \A cell \in {r[col] : r \in Row} : \A d \in Target : Decided(d, Field, Hooked, cell)
  BY <1>1 DEF LeafDecided, Known, Field, Hooked
<1> QED BY <1>2

LEMMA VerdictOfColumn == ASSUME NEW f, NEW c, NEW cell PROVE OnColumn(f, c, cell) \in Verdict
<1>1. \A A : Holds(A) \in Verdict
  BY HoldsTruth DEF Verdict, Truth
<1>2. "none" \in Verdict /\ "U" \in Verdict
  BY DEF Verdict, Truth
<1>3. \E A : OnColumn(f, c, cell) \in {Holds(A), "none", "U"}
  <2>1. OnColumn(f, c, cell) \in {Holds((c.op = "_is_null") <=> (cell[1] = "null")), "none", "U", Holds(OnCell(f, c, cell[2]))}
    BY DEF OnColumn
  <2> QED BY <2>1
<1> QED BY <1>1, <1>2, <1>3

LEMMA RenderLeafTelling ==
  ASSUME AllDecided, dialect \in Target, NEW base, Rendering(base), Reading(Condition), Telling, RenderLeaf PROVE Telling'
<1>1. PICK r : r = Resolve(dialect, Field, Column(Node.key), Hooked, Len(args))
  OBVIOUS
<1>2. /\ Inner.rest # <<>> /\ result = "running" /\ Field.search = <<>>
      /\ AtLeaf /\ Known /\ Allows(Field, Node.op) /\ HooksPass(Field, Node.values)
      /\ \/ ~r.ok /\ Fail("ErrBadValue", r.args)
         \/ /\ r.ok /\ result' = "running" /\ stack' = Append(Below, Plus(Onward, r.text))
            /\ exclude' = exclude /\ filter' = filter /\ dialect' = dialect /\ args' = args \o r.args
  BY <1>1 DEF RenderLeaf, Admitted, AtLeaf, Visiting
<1>3. CASE ~r.ok /\ Fail("ErrBadValue", r.args)
  BY <1>3 DEF Fail, Telling
<1>4. CASE /\ r.ok /\ result' = "running" /\ stack' = Append(Below, Plus(Onward, r.text))
           /\ exclude' = exclude /\ filter' = filter /\ dialect' = dialect /\ args' = args \o r.args
  <2>1. CallOK(Inner) /\ IsSeq(args) /\ Len(args) \in Nat /\ dialect \in Target /\ dialect \in Dialect
    BY <1>2, InnerReads, IsSeqLen DEF Rendering
  <2>2. Node \in Condition /\ IsSeq(Node.values) /\ Node.pairs \in Seq(KeyValue)
    BY <1>2, <2>1, OnwardOK
  <2>3. /\ Hooked.key = Node.key /\ Hooked.op = Node.op /\ Hooked.pairs = Node.pairs /\ IsSeq(Hooked.values)
        /\ Registry[Hooked.key] = Field
    BY <1>2, <2>2, LeafMeans
  <2>4. Hooked.pairs \in Seq(KeyValue) /\ Allows(Field, Hooked.op)
    BY <1>2, <2>2, <2>3
  <2>5. Renders(r, Len(args))
    BY <1>1, <1>4, <2>1, <2>3, <2>4, ResolveRenders
  <2>6. IsSeq(r.args) /\ FindsIn(r.text, Len(args \o r.args))
    BY <2>1, <2>5, ShowsWithin, IsSeqConcat DEF Renders
  <2>7. ASSUME NEW row \in Row PROVE StackTells(Scene(row), stack', args')
    <3>1. PICK col : col = Column(Node.key)
      OBVIOUS
    <3>2. ColumnsOf(Node.key) = {col}
      BY <1>2, <3>1 DEF ColumnsOf, Field
    <3>3. col \in DOMAIN row /\ Decided(dialect, Field, Hooked, row[col])
      BY <1>2, <2>1, <2>2, <3>2, LeafIsDecided
    <3>4. Answers(Resolve(dialect, Field, col, Hooked, Len(args)), args, row, OnColumn(Field, Hooked, row[col]))
      <4>1. Resolve(dialect, Field, col, Hooked, Len(args)).ok
        BY <1>1, <1>4, <3>1
      <4> QED BY <2>1, <2>3, <2>4, <3>3, <4>1, ColumnMeans
    <3>5. Neat(r.text) /\ Worth(r.text, args \o r.args, row) = OnColumn(Field, Hooked, row[col])
      BY <1>1, <3>1, <3>4 DEF Answers
    <3>6. Columnwise(Hooked, {col}, row) = {OnColumn(Field, Hooked, row[col])}
      BY <2>3 DEF Columnwise
    <3>7. Meaning(exclude, row)[Node] = Blend("search", Columnwise(Hooked, {col}, row))
      BY <1>2, <2>2, <3>2, LeafMeans
    <3>8. Meaning(exclude, row)[Node] = Worth(r.text, args \o r.args, row)
      BY <3>5, <3>6, <3>7, BlendOne, VerdictOfColumn
    <3>9. /\ CallOK(Onward)
          /\ Onward.form = Inner.form /\ Onward.node = Inner.node /\ Onward.text = Inner.text
          /\ Onward.live = Inner.live
          /\ Coming(Scene(row), Inner) = {Meaning(exclude, row)[Node]} \cup Coming(Scene(row), Onward)
      BY <1>2, NodeComes
    <3>10. StackTells(Scene(row), Append(Below, Plus(Onward, r.text)), args \o r.args)
      BY <1>2, <2>6, <3>5, <3>8, <3>9, PartTelling
    <3> QED BY <1>4, <3>10
  <2> QED BY <1>4, <2>7, StillTelling
<1> QED BY <1>2, <1>3, <1>4

LEMMA OpenSearchTelling ==
  ASSUME AllDecided, dialect \in Target, NEW base, Rendering(base), Reading(Condition), Telling, OpenSearch PROVE Telling'
<1>1. /\ Inner.rest # <<>> /\ result = "running" /\ result' = "running"
      /\ AtLeaf /\ Known /\ Allows(Field, Node.op) /\ HooksPass(Field, Node.values) /\ Field.search # <<>>
      /\ stack' = Below \o <<Onward, Call("search", Hooked, <<>>, Field.search)>>
      /\ exclude' = exclude /\ filter' = filter /\ dialect' = dialect /\ args' = args
  BY DEF OpenSearch, Admitted, AtLeaf, Visiting
<1>2. /\ IsSeq(stack) /\ stack # <<>> /\ IsSeq(Below) /\ CallOK(Inner)
      /\ Inner = stack[Len(stack)] /\ Below = SubSeq(stack, 1, Len(stack) - 1)
  BY <1>1, InnerReads
<1>3. PICK call : call = Call("search", Hooked, <<>>, Field.search)
  OBVIOUS
<1>4. /\ call.form = "search" /\ call.node = Hooked /\ call.rest = <<>> /\ call.cols = Field.search
      /\ call.text = <<>> /\ call.live = 0
  BY <1>3 DEF Call
<1>5. stack' = Append(Append(Below, Onward), call)
  BY <1>1, <1>2, <1>3, TwoMore
<1>6. Node \in Condition /\ IsSeq(Node.values) /\ dialect \in Target
  BY <1>1, <1>2, OnwardOK
<1>7. Hooked.key = Node.key /\ Registry[Hooked.key] = Field
  BY <1>1, <1>6, LeafMeans
<1>8. ColumnsOf(Node.key) = ToSet(Field.search)
  BY <1>1 DEF ColumnsOf, Field
<1>9. ASSUME NEW row \in Row PROVE StackTells(Scene(row), stack', args')
  <2>1. PICK q : q = Scene(row)
    OBVIOUS
  <2>2. q.out = exclude /\ q.row = row /\ q.d = dialect
    BY <2>1, SceneIs
  <2>3. Coming(q, call) = {} \cup Columnwise(Hooked, ToSet(Field.search), row)
    BY <1>4, <2>2, MeaningsOfNone DEF Coming
  <2>4. Asked(q, call) = Columnwise(Hooked, ColumnsOf(Node.key), row)
    BY <1>4, <1>7, <2>2 DEF Asked
  <2>5. Searchable(q, call)
    <3>1. \A col \in ColumnsOf(Node.key) : col \in DOMAIN row /\ Decided(dialect, Field, Hooked, row[col])
      BY <1>1, <1>6, LeafIsDecided
    <3> QED BY <1>4, <1>7, <2>2, <3>1 DEF Searchable
  <2>6. CallTells(q, call, {}, args)
    BY <1>4, <1>8, <2>3, <2>4, <2>5, BeginsTelling
  <2>7. /\ CallOK(Onward)
        /\ Onward.form = Inner.form /\ Onward.node = Inner.node /\ Onward.text = Inner.text
        /\ Onward.live = Inner.live
        /\ Coming(q, Inner) = {Meaning(exclude, row)[Node]} \cup Coming(q, Onward)
    BY <1>1, <2>1, NodeComes
  <2>8. Meaning(exclude, row)[Node] = Gives(q, call)
    <3>1. Meaning(exclude, row)[Node] = Blend("search", Columnwise(Hooked, ColumnsOf(Node.key), row))
      BY <1>1, <1>6, LeafMeans
    <3>2. Gives(q, call) = Blend("search", Asked(q, call))
      BY <1>4 DEF Gives, Says, Turned
    <3> QED BY <2>4, <3>1, <3>2
  <2>9. StackTells(q, stack, args) /\ CallTells(q, Inner, {}, args)
    BY <1>1, <2>1, InnerTells
  <2>10. CallTells(q, Onward, {Gives(q, call)}, args) /\ Gives(q, Onward) = Gives(q, Inner)
    BY <2>7, <2>8, <2>9, VisitTells
  <2> QED BY <1>1, <1>2, <1>5, <2>1, <2>6, <2>7, <2>9, <2>10, OpenTells
<1> QED BY <1>1, <1>9, StillTelling

LEMMA HeadOfColumns ==
  ASSUME NEW s, IsSeq(s), s # <<>>
  PROVE  ToSet(s) = {Head(s)} \cup ToSet(Tail(s))
<1>1. PICK n : n = Len(s)
  OBVIOUS
<1>2. n \in Nat /\ n # 0 /\ DOMAIN s = 1 .. n /\ Head(s) = s[1]
  BY <1>1, IsSeqLen, EmptySeq, HeadTailProperties DEF IsSeq
<1>3. /\ IsSeq(Tail(s)) /\ Len(Tail(s)) = n - 1
      /\ \A i \in 1 .. n - 1 : Tail(s)[i] = s[i + 1]
  BY <1>1, HeadTailProperties, IsSeqTail DEF IsSeq
<1>4. DOMAIN Tail(s) = 1 .. n - 1
  BY <1>3, IsSeqLen
<1>5. {s[i] : i \in 1 .. n} = {s[1]} \cup {s[i + 1] : i \in 1 .. n - 1}
  <2>1. 1 \in 1 .. n /\ \A i \in 1 .. n - 1 : i + 1 \in 1 .. n
    BY <1>2
  <2>2. \A i \in 1 .. n : i = 1 \/ (i - 1 \in 1 .. n - 1 /\ (i - 1) + 1 = i)
    BY <1>2
  <2> QED BY <2>1, <2>2
<1>6. {Tail(s)[i] : i \in 1 .. n - 1} = {s[i + 1] : i \in 1 .. n - 1}
  BY <1>3
<1> QED BY <1>2, <1>4, <1>5, <1>6 DEF ToSet

LEMMA SearchColumnTelling ==
  ASSUME NEW base, Rendering(base), Reading(Condition), Telling, SearchColumn PROVE Telling'
<1>1. PICK c : c = Inner.node
  OBVIOUS
<1>2. PICK col : col = Head(Inner.cols)
  OBVIOUS
<1>3. PICK r : r = Resolve(dialect, Registry[c.key], col, c, Len(args))
  OBVIOUS
<1>4. PICK next : next = [Inner EXCEPT !.cols = Tail(@)]
  OBVIOUS
<1>5. /\ Inner.cols # <<>> /\ result = "running"
      /\ \/ ~r.ok /\ Fail("ErrBadValue", r.args)
         \/ /\ r.ok /\ result' = "running" /\ stack' = Append(Below, Plus(next, r.text))
            /\ exclude' = exclude /\ filter' = filter /\ dialect' = dialect /\ args' = args \o r.args
  BY <1>1, <1>2, <1>3, <1>4 DEF SearchColumn
<1>6. CASE ~r.ok /\ Fail("ErrBadValue", r.args)
  BY <1>6 DEF Fail, Telling
<1>7. CASE /\ r.ok /\ result' = "running" /\ stack' = Append(Below, Plus(next, r.text))
           /\ exclude' = exclude /\ filter' = filter /\ dialect' = dialect /\ args' = args \o r.args
  <2>1. /\ CallOK(Inner) /\ CallReads(Condition, Inner)
        /\ IsSeq(args) /\ Len(args) \in Nat /\ dialect \in Dialect
    BY <1>5, InnerReads, IsSeqLen DEF Rendering
  <2>2. /\ Inner.form = "search" /\ Inner.rest = <<>> /\ IsSeq(Inner.cols)
        /\ Allows(Registry[c.key], c.op) /\ IsSeq(c.values) /\ c.pairs \in Seq(KeyValue)
        /\ ToSet(Inner.cols) \subseteq ColumnsOf(c.key)
    BY <1>1, <1>5, <2>1 DEF CallOK, CallReads
  <2>3. next = [form |-> Inner.form, node |-> Inner.node, rest |-> Inner.rest, cols |-> Tail(Inner.cols),
                text |-> Inner.text, live |-> Inner.live, from |-> Inner.from]
    BY <1>4, <2>1, Advance
  <2>4. IsSeq(Tail(Inner.cols))
    BY <1>5, <2>2, IsSeqTail
  <2>5. CallOK(next)
    BY <1>5, <2>1, <2>3, <2>4 DEF CallOK
  <2>6. /\ next.form = Inner.form /\ next.node = Inner.node /\ next.text = Inner.text /\ next.live = Inner.live
        /\ next.rest = <<>> /\ next.cols = Tail(Inner.cols)
    BY <2>2, <2>3
  <2>7. Renders(r, Len(args))
    BY <1>3, <1>7, <2>1, <2>2, ResolveRenders
  <2>8. IsSeq(r.args) /\ FindsIn(r.text, Len(args \o r.args))
    BY <2>1, <2>7, ShowsWithin, IsSeqConcat DEF Renders
  <2>9. ToSet(Inner.cols) = {col} \cup ToSet(next.cols)
    BY <1>2, <1>5, <2>2, <2>6, HeadOfColumns
  <2>10. ASSUME NEW row \in Row PROVE StackTells(Scene(row), stack', args')
    <3>1. Searchable(Scene(row), Inner)
      BY <1>5, <2>1, InnerTells DEF CallTells
    <3>2. col \in DOMAIN row /\ Decided(dialect, Registry[c.key], c, row[col])
      BY <1>1, <2>2, <2>9, <3>1, SceneIs DEF Searchable
    <3>3. Answers(r, args, row, OnColumn(Registry[c.key], c, row[col]))
      BY <1>3, <1>7, <2>1, <2>2, <3>2, ColumnMeans
    <3>4. Neat(r.text) /\ Worth(r.text, args \o r.args, row) = OnColumn(Registry[c.key], c, row[col])
      BY <3>3 DEF Answers
    <3>5. Columnwise(c, ToSet(Inner.cols), row) =
            {OnColumn(Registry[c.key], c, row[col])} \cup Columnwise(c, ToSet(next.cols), row)
      BY <2>9 DEF Columnwise
    <3>6. /\ Coming(Scene(row), Inner) = {} \cup Columnwise(c, ToSet(Inner.cols), row)
          /\ Coming(Scene(row), next) = {} \cup Columnwise(c, ToSet(next.cols), row)
      BY <1>1, <2>2, <2>6, MeaningsOfNone, SceneIs DEF Coming
    <3>7. Coming(Scene(row), Inner) = {Worth(r.text, args \o r.args, row)} \cup Coming(Scene(row), next)
      BY <3>4, <3>5, <3>6
    <3>8. StackTells(Scene(row), Append(Below, Plus(next, r.text)), args \o r.args)
      BY <1>5, <2>5, <2>6, <2>8, <3>4, <3>7, PartTelling
    <3> QED BY <1>7, <3>8
  <2> QED BY <1>7, <2>10, StillTelling
<1> QED BY <1>5, <1>6, <1>7

\* What a call returns is a part of the call around it.
LEMMA CloseTelling ==
  ASSUME NEW base, Rendering(base), Reading(Condition), Telling, Close PROVE Telling'
<1>1. PICK n : n = Len(stack)
  OBVIOUS
<1>2. PICK outer : outer = stack[n - 1]
  OBVIOUS
<1>3. PICK part : part = Returned(Inner)
  OBVIOUS
<1>4. PICK x : x = Plus(outer, part)
  OBVIOUS
<1>5. /\ result = "running" /\ result' = "running" /\ n > 1
      /\ Inner.rest = <<>> /\ Inner.cols = <<>>
      /\ stack' = Append(SubSeq(stack, 1, n - 2), x)
      /\ exclude' = exclude /\ filter' = filter /\ dialect' = dialect /\ args' = args
  BY <1>1, <1>2, <1>3, <1>4 DEF Close, Finished
<1>6. IsSeq(stack) /\ CallOK(Inner) /\ Inner = stack[n] /\ n \in Nat
  BY <1>1, <1>5, InnerReads, IsSeqLen
<1>7. CallOK(outer)
  BY <1>1, <1>2, <1>5, OuterReads
<1>8. ASSUME NEW row \in Row PROVE StackTells(Scene(row), stack', args')
  <2>1. PICK q : q = Scene(row)
    OBVIOUS
  <2>2. StackTells(q, stack, args) /\ CallTells(q, Inner, {}, args)
    BY <1>5, <2>1, InnerTells
  <2>3. Neat(part) /\ FindsIn(part, Len(args)) /\ Worth(part, args, q.row) = Gives(q, Inner)
    BY <1>3, <1>5, <1>6, <2>2, EndsTelling
  <2>4. n - 1 \in 1 .. n /\ n - 1 # n /\ (n - 1) + 1 = n
    BY <1>5, <1>6
  <2>5. InnerGives(q, stack, n - 1) = {Gives(q, Inner)}
    BY <1>1, <1>6, <2>4 DEF InnerGives
  <2>6. CallTells(q, outer, {Gives(q, Inner)}, args)
    BY <1>1, <1>2, <2>2, <2>4, <2>5 DEF StackTells
  <2>7. {Gives(q, Inner)} \cup Coming(q, outer) = {Worth(part, args, q.row)} \cup Coming(q, outer)
    BY <2>3
  <2>8. CallTells(q, x, {}, args) /\ Gives(q, x) = Gives(q, outer) /\ x.form = outer.form
    BY <1>4, <1>7, <2>3, <2>6, <2>7, NextPartTells
  <2> QED BY <1>1, <1>2, <1>5, <1>6, <2>1, <2>2, <2>8, CloseTells
<1> QED BY <1>5, <1>8, StillTelling

LEMMA ReturnTelling ==
  ASSUME NEW base, Rendering(base), Reading(Condition), Telling, Return PROVE Telling'
<1>1. /\ result = "running" /\ Len(stack) = 1 /\ result' = "ok" /\ sql' = Inner.text
      /\ exclude' = exclude /\ filter' = filter /\ args' = args
      /\ Inner.rest = <<>> /\ Inner.cols = <<>>
  BY DEF Return, Finished
<1>2. CallOK(Inner)
  BY <1>1, InnerReads
<1>3. ASSUME NEW row \in Row PROVE Worth(Inner.text, args, row) = ListMeaning(exclude, filter, row)
  <2>1. CallTells(Scene(row), Inner, {}, args)
    BY <1>1, InnerTells
  <2>2. Worth(Inner.text, args, row) = Says(Scene(row), Inner)
    BY <1>1, <1>2, <2>1, EndsTelling, SceneIs
  <2>3. Inner.form = "top"
    BY <1>1, InnerTells, OutermostReads DEF StackTells
  <2>4. Says(Scene(row), Inner) = Blend("top", Meanings(exclude, row, filter))
    BY <2>3, SceneIs DEF Says, Asked
  <2>5. Blend("top", Meanings(exclude, row, filter)) = Combine(And3, Meanings(exclude, row, filter))
    BY BlendIsCombine DEF Disjoins
  <2>6. ListMeaning(exclude, filter, row) = Combine(And3, Meanings(exclude, row, filter))
    BY DEF ListMeaning, Meanings, AllMean
  <2> QED BY <2>2, <2>4, <2>5, <2>6
<1>4. ASSUME NEW row \in Row PROVE Neat(Inner.text)
  <2>1. CallTells(Scene(row), Inner, {}, args) /\ Inner.form = "top"
    BY <1>1, InnerTells, OutermostReads DEF StackTells
  <2> QED BY <2>1 DEF CallTells, Composed, Disjoins, Neat
<1> QED BY <1>1, <1>3, <1>4 DEF Telling

LEMMA InitTelling == Init => Telling
<1> SUFFICES ASSUME Init PROVE Telling
  OBVIOUS
<1>1. PICK top : top = [form |-> "top", node |-> Empty, rest |-> filter, cols |-> <<>>,
                        text |-> <<>>, live |-> 0, from |-> 0]
  OBVIOUS
<1>2. stack = <<top>> /\ args = <<>> /\ result = "running"
  BY <1>1 DEF Init
<1>3. top.form = "top" /\ top.rest = filter /\ top.cols = <<>> /\ top.text = <<>> /\ top.live = 0
  BY <1>1
<1>4. Len(stack) = 1 /\ stack[1] = top
  BY <1>2, IsSeqOne
<1>5. ASSUME NEW row \in Row PROVE StackTells(Scene(row), stack, args)
  <2>1. Coming(Scene(row), top) = Meanings(exclude, row, filter) \cup {}
    BY <1>3, NothingColumnwise, SceneIs DEF Coming
  <2>2. Asked(Scene(row), top) = Meanings(exclude, row, filter)
    BY <1>3, SceneIs DEF Asked
  <2>3. Searchable(Scene(row), top)
    BY <1>3 DEF Searchable
  <2>4. CallTells(Scene(row), top, {}, args)
    BY <1>3, <2>1, <2>2, <2>3, BeginsTelling
  <2>5. InnerGives(Scene(row), stack, 1) = {} /\ \A i \in 1 .. 1 : i = 1
    BY <1>4 DEF InnerGives
  <2> QED BY <1>3, <1>4, <2>4, <2>5 DEF StackTells
<1> QED BY <1>2, <1>5 DEF Telling

LEMMA NextTelling ==
  ASSUME AllDecided, dialect \in Target, NEW base, Rendering(base), Reading(Condition), Telling, [Next]_vars PROVE Telling'
<1>1. CASE Malformed \/ UnknownField \/ BadOperator \/ HooksFail
  BY <1>1 DEF Malformed, UnknownField, BadOperator, HooksFail, Fail, Telling
<1>2. CASE Skip \/ Descend \/ RenderLeaf \/ OpenSearch \/ SearchColumn \/ Close \/ Return
  BY <1>2, SkipTelling, DescendTelling, RenderLeafTelling, OpenSearchTelling, SearchColumnTelling,
     CloseTelling, ReturnTelling
<1>3. CASE UNCHANGED vars
  <2>1. /\ exclude' = exclude /\ filter' = filter /\ dialect' = dialect
        /\ result' = result /\ stack' = stack /\ args' = args /\ sql' = sql
    BY <1>3 DEF vars
  <2>2. CASE result = "running"
    BY <2>1, <2>2, StillTelling DEF Telling
  <2>3. CASE result # "running"
    BY <2>1, <2>3 DEF Telling
  <2> QED BY <2>2, <2>3
<1> QED BY <1>1, <1>2, <1>3 DEF Next

\* The text returned, with the arguments its placeholders find, is executed for
\* what it was told to ask.
LEMMA TellingMeans == ASSUME Typed, Rendering(0), Telling PROVE MeansTheFilter
<1> SUFFICES ASSUME result = "ok"
             PROVE  /\ Executable(sql)
                    /\ \A row \in Row :
                         FilterSays(row) = IF sql = <<>> THEN "none" ELSE Evaluate(Bound(sql), row)
  BY DEF MeansTheFilter
<1>1. IsSeq(args) /\ InOrder(sql, 0, Len(args))
  BY DEF Rendering, Shows
<1>2. DOMAIN sql \subseteq Int /\ \A i \in DOMAIN sql : DOMAIN sql[i].slots \subseteq Int
  <2>1. sql \in Seq(Token(dialect))
    BY DEF Typed, Formed
  <2>2. DOMAIN sql = 1 .. Len(sql) /\ Len(sql) \in Nat /\ \A i \in 1 .. Len(sql) : sql[i] \in Token(dialect)
    BY <2>1, LenProperties
  <2>3. \A x \in Token(dialect) : DOMAIN x.slots \subseteq Int
    <3> TAKE x \in Token(dialect)
    <3>1. x.slots \in Seq(Nat)
      BY DEF Token
    <3>2. DOMAIN x.slots = 1 .. Len(x.slots) /\ Len(x.slots) \in Nat
      BY <3>1, LenProperties
    <3> QED BY <3>2
  <2> QED BY <2>2, <2>3
<1>3. Executable(sql) /\ Bound(sql) = Told(sql, args)
  BY <1>1, <1>2, BoundIsTold
<1>4. ASSUME NEW row \in Row
      PROVE  FilterSays(row) = IF sql = <<>> THEN "none" ELSE Evaluate(Bound(sql), row)
  <2>1. Worth(sql, args, row) = ListMeaning(exclude, filter, row)
    BY DEF Telling
  <2> QED BY <1>3, <2>1 DEF Worth, FilterSays
<1> QED BY <1>3, <1>4

\* The text the compiler returns asks of every row exactly what the filter asks,
\* whatever the tree: the grouping, the parentheses, the negations, the operators
\* of the four dialects and the arguments the placeholders find all agree with
\* what the operators' documentation says (README "What you get" 1, compile.go,
\* dialects/), if the filters ask nothing that the databases decide each in its own
\* way, and nothing that the dialects decide otherwise than is documented: a choice
\* among values of one key of which a map holds one.
THEOREM FilterIsMeant == ASSUME AllDecided PROVE Spec => []MeansTheFilter
<1>1. Init => Typed /\ Rendering(0) /\ Reading(Condition) /\ Telling
  BY InitTyped, InitRendering, InitReading, InitTelling
<1>2. Typed /\ Rendering(0) /\ Reading(Condition) /\ Telling /\ [Next]_vars
        => (Typed /\ Rendering(0) /\ Reading(Condition) /\ Telling)'
  BY NextTyped, NextRendering, AllChildren, NextReading, NextTelling DEF Typed
<1>3. Typed /\ Rendering(0) /\ Telling => MeansTheFilter
  BY TellingMeans
<1> QED BY <1>1, <1>2, <1>3, PTL DEF Spec
=============================================================================
