--------------------------- MODULE SequenceLemmas ---------------------------
(***************************************************************************)
(* Facts about sequences whose elements are of no particular set, about    *)
(* FlattenSeq, and about recursive functions on finite trees, on which the *)
(* proofs about Compile and what uses it rest.                             *)
(***************************************************************************)
EXTENDS SequencesExt, Integers, SequenceTheorems, WellFoundedInduction, TLAPS

\* s is a sequence.
IsSeq(s) == s \in Seq({s[i] : i \in DOMAIN s})

LEMMA IsSeqIntro == ASSUME NEW S, NEW s \in Seq(S) PROVE IsSeq(s)
<1>1. s \in [1 .. Len(s) -> S] /\ Len(s) \in Nat /\ DOMAIN s = 1 .. Len(s)
  BY LenProperties
<1> DEFINE R == {s[i] : i \in DOMAIN s}
<1>2. s \in [1 .. Len(s) -> R]
  BY <1>1
<1>3. s \in Seq(R)
  BY <1>1, <1>2, SeqDef
<1> QED BY <1>3 DEF IsSeq

LEMMA IsSeqLen ==
  ASSUME NEW s, IsSeq(s)
  PROVE  /\ Len(s) \in Nat
         /\ DOMAIN s = 1 .. Len(s)
         /\ s = <<>> <=> Len(s) = 0
BY LenProperties, EmptySeq DEF IsSeq

\* A function on 1 .. n is a sequence of length n.
LEMMA IsSeqFunction ==
  ASSUME NEW n \in Nat, NEW s, s = [i \in 1 .. n |-> s[i]]
  PROVE  IsSeq(s) /\ Len(s) = n /\ DOMAIN s = 1 .. n
<1> DEFINE R == {s[i] : i \in DOMAIN s}
<1>1. DOMAIN s = 1 .. n
  OBVIOUS
<1>2. s \in [1 .. n -> R]
  BY <1>1
<1>3. s \in Seq(R)
  BY <1>2, SeqDef
<1>4. Len(s) = n
  BY <1>1, <1>3, LenProperties
<1> QED BY <1>1, <1>3, <1>4 DEF IsSeq

LEMMA IsSeqConcat ==
  ASSUME NEW s, NEW t, IsSeq(s), IsSeq(t)
  PROVE  /\ IsSeq(s \o t)
         /\ Len(s \o t) = Len(s) + Len(t)
         /\ \A i \in 1 .. Len(s) : (s \o t)[i] = s[i]
         /\ \A i \in 1 .. Len(t) : (s \o t)[Len(s) + i] = t[i]
<1> DEFINE R == {s[i] : i \in DOMAIN s} \cup {t[i] : i \in DOMAIN t}
<1>1. s \in Seq(R) /\ t \in Seq(R)
  BY SeqMonotonic DEF IsSeq
<1>2. Len(s) \in Nat /\ Len(t) \in Nat
  BY IsSeqLen
<1> HIDE DEF R
<1>3. /\ s \o t \in Seq(R)
      /\ Len(s \o t) = Len(s) + Len(t)
      /\ \A i \in 1 .. Len(s) + Len(t) :
           (s \o t)[i] = IF i <= Len(s) THEN s[i] ELSE t[i - Len(s)]
  BY <1>1, ConcatProperties
<1>4. IsSeq(s \o t)
  BY <1>3, IsSeqIntro
<1>5. \A i \in 1 .. Len(s) : i \in 1 .. Len(s) + Len(t) /\ i <= Len(s)
  BY <1>2
<1>6. \A i \in 1 .. Len(t) : Len(s) + i \in 1 .. Len(s) + Len(t) /\ ~(Len(s) + i <= Len(s))
                            /\ Len(s) + i - Len(s) = i
  BY <1>2
<1>7. \A i \in 1 .. Len(s) : (s \o t)[i] = s[i]
  BY <1>3, <1>5
<1>8. \A i \in 1 .. Len(t) : (s \o t)[Len(s) + i] = t[i]
  BY <1>3, <1>6
<1> QED BY <1>3, <1>4, <1>7, <1>8

LEMMA IsSeqOne == ASSUME NEW x PROVE IsSeq(<<x>>) /\ Len(<<x>>) = 1 /\ <<x>>[1] = x
<1>1. <<x>> \in Seq({x})
  OBVIOUS
<1> QED BY <1>1, IsSeqIntro

LEMMA IsSeqAppend ==
  ASSUME NEW s, NEW x, IsSeq(s)
  PROVE  /\ IsSeq(Append(s, x))
         /\ Len(Append(s, x)) = Len(s) + 1
         /\ \A i \in 1 .. Len(s) : Append(s, x)[i] = s[i]
         /\ Append(s, x)[Len(s) + 1] = x
<1> DEFINE R == {s[i] : i \in DOMAIN s} \cup {x}
<1>1. s \in Seq(R) /\ x \in R
  BY SeqMonotonic DEF IsSeq
<1> HIDE DEF R
<1>2. /\ Append(s, x) \in Seq(R)
      /\ Len(Append(s, x)) = Len(s) + 1
      /\ \A i \in 1 .. Len(s) : Append(s, x)[i] = s[i]
      /\ Append(s, x)[Len(s) + 1] = x
  BY <1>1, AppendProperties
<1>3. IsSeq(Append(s, x))
  BY <1>2, IsSeqIntro
<1> QED BY <1>2, <1>3

\* The first n elements.
LEMMA IsSeqPrefix ==
  ASSUME NEW s, IsSeq(s), NEW n \in Nat, n <= Len(s)
  PROVE  /\ IsSeq(SubSeq(s, 1, n))
         /\ Len(SubSeq(s, 1, n)) = n
         /\ \A i \in 1 .. n : SubSeq(s, 1, n)[i] = s[i]
<1> DEFINE R == {s[i] : i \in DOMAIN s}
<1>1. Len(s) \in Nat /\ DOMAIN s = 1 .. Len(s)
  BY IsSeqLen
<1>2. 1 \in Int /\ n \in Int /\ \A i \in 1 .. n : s[i] \in R
  BY <1>1
<1> HIDE DEF R
<1>3. /\ SubSeq(s, 1, n) \in Seq(R)
      /\ Len(SubSeq(s, 1, n)) = IF 1 <= n THEN n - 1 + 1 ELSE 0
      /\ \A i \in 1 .. n - 1 + 1 : SubSeq(s, 1, n)[i] = s[1 + i - 1]
  BY <1>2, SubSeqProperties
<1>4. \A i \in 1 .. n : i \in 1 .. n - 1 + 1 /\ 1 + i - 1 = i
  OBVIOUS
<1>5. \A i \in 1 .. n : SubSeq(s, 1, n)[i] = s[i]
  BY <1>3, <1>4
<1>6. IsSeq(SubSeq(s, 1, n))
  BY <1>3, IsSeqIntro
<1> QED BY <1>3, <1>5, <1>6

LEMMA IsSeqTail == ASSUME NEW s, IsSeq(s), s # <<>> PROVE IsSeq(Tail(s))
<1> DEFINE R == {s[i] : i \in DOMAIN s}
<1>1. s \in Seq(R)
  BY DEF IsSeq
<1> HIDE DEF R
<1>2. Tail(s) \in Seq(R)
  BY <1>1, HeadTailProperties
<1> QED BY <1>2, IsSeqIntro

\* Sequences of one length with the same elements are the same.
LEMMA IsSeqEqual ==
  ASSUME NEW s, NEW t, IsSeq(s), IsSeq(t), Len(s) = Len(t), \A i \in 1 .. Len(s) : s[i] = t[i]
  PROVE  s = t
<1> DEFINE R == {s[i] : i \in DOMAIN s} \cup {t[i] : i \in DOMAIN t}
<1>1. s \in Seq(R) /\ t \in Seq(R)
  BY SeqMonotonic DEF IsSeq
<1> HIDE DEF R
<1> QED BY <1>1, SeqEqual

(***************************************************************************)
(* Induction, by way of a least counterexample.                            *)
(***************************************************************************)
LEMMA Least ==
  ASSUME NEW T, T \subseteq Nat, T # {}
  PROVE  \E x \in T : \A y \in T : x <= y
<1>1. PICK x \in T : \A y \in T : ~(<<y, x>> \in OpToRel(<, Nat))
  BY NatLessThanWellFounded, WFMin
<1>2. \A y \in T : y < x => <<y, x>> \in OpToRel(<, Nat)
  BY DEF OpToRel
<1>3. \A y \in T : ~(y < x)
  BY <1>1, <1>2
<1> QED BY <1>3

\* f is the concatenation of the first i of the sequences s, for every i up to n.
Flattens(f, s, n) == f = [i \in 1 .. n |-> IF i = 1 THEN s[i] ELSE f[i - 1] \o s[i]]

LEMMA FlattensExists ==
  ASSUME NEW s, NEW n \in Nat
  PROVE  \E f : Flattens(f, s, n)
<1> DEFINE Bad == {m \in Nat : ~\E f : Flattens(f, s, m)}
<1>1. Bad = {}
  <2> SUFFICES ASSUME Bad # {} PROVE FALSE
    OBVIOUS
  <2>1. PICK m \in Bad : \A k \in Bad : m <= k
    BY Least
  <2>2. CASE m = 0
    <3> DEFINE f == [i \in 1 .. 0 |-> <<>>]
    <3>1. f = [i \in 1 .. 0 |-> IF i = 1 THEN s[i] ELSE f[i - 1] \o s[i]]
      OBVIOUS
    <3> QED BY <2>2, <3>1 DEF Flattens
  <2>3. CASE m # 0
    <3>1. m - 1 \in Nat /\ m - 1 \notin Bad
      BY <2>1, <2>3
    <3>2. PICK g : Flattens(g, s, m - 1)
      BY <3>1
    <3> DEFINE f == [i \in 1 .. m |-> IF i = m THEN IF m = 1 THEN s[m] ELSE g[m - 1] \o s[m] ELSE g[i]]
    <3>3. \A i \in 1 .. m - 1 : g[i] = IF i = 1 THEN s[i] ELSE g[i - 1] \o s[i]
      BY <3>2 DEF Flattens
    <3>4. ASSUME NEW i \in 1 .. m
          PROVE  f[i] = IF i = 1 THEN s[i] ELSE f[i - 1] \o s[i]
      <4>1. CASE i = m
        BY <2>1, <2>3, <4>1
      <4>2. CASE i # m
        <5>1. i \in 1 .. m - 1 /\ f[i] = g[i]
          BY <2>1, <4>2
        <5>2. i # 1 => i - 1 \in 1 .. m /\ i - 1 # m /\ f[i - 1] = g[i - 1]
          BY <2>1, <5>1
        <5> QED BY <3>3, <5>1, <5>2
      <4> QED BY <4>1, <4>2
    <3>5. f = [i \in 1 .. m |-> IF i = 1 THEN s[i] ELSE f[i - 1] \o s[i]]
      BY <3>4
    <3> QED BY <2>1, <3>5 DEF Flattens
  <2> QED BY <2>2, <2>3
<1> QED BY <1>1

LEMMA FlattensType ==
  ASSUME NEW T, NEW s \in Seq(Seq(T)), NEW f, Flattens(f, s, Len(s)), NEW n \in 1 .. Len(s)
  PROVE  f[n] \in Seq(T)
<1> DEFINE Bad == {m \in 1 .. Len(s) : f[m] \notin Seq(T)}
<1>1. Len(s) \in Nat /\ \A i \in 1 .. Len(s) : s[i] \in Seq(T)
  BY ElementOfSeq, LenProperties
<1>2. \A i \in 1 .. Len(s) : f[i] = IF i = 1 THEN s[i] ELSE f[i - 1] \o s[i]
  BY DEF Flattens
<1>3. Bad = {}
  <2> SUFFICES ASSUME Bad # {} PROVE FALSE
    OBVIOUS
  <2>1. Bad \subseteq Nat
    BY <1>1
  <2>2. PICK m \in Bad : \A k \in Bad : m <= k
    BY <2>1, Least
  <2>3. m # 1
    BY <1>1, <1>2
  <2>4. m - 1 \in 1 .. Len(s) /\ m - 1 \notin Bad
    BY <1>1, <2>2, <2>3
  <2>5. f[m - 1] \in Seq(T) /\ s[m] \in Seq(T)
    BY <1>1, <2>4
  <2>6. f[m] = f[m - 1] \o s[m]
    BY <1>2, <2>3
  <2> QED BY <2>5, <2>6, ConcatProperties
<1> QED BY <1>3

LEMMA FlattenSeqType ==
  ASSUME NEW T, NEW s \in Seq(Seq(T))
  PROVE  FlattenSeq(s) \in Seq(T)
<1>1. Len(s) \in Nat
  BY LenProperties
<1>2. CASE Len(s) = 0
  <2>1. s = <<>>
    BY <1>2, EmptySeq
  <2>2. FlattenSeq(s) = <<>>
    BY <1>2, <2>1 DEF FlattenSeq
  <2>3. <<>> \in Seq(T)
    BY EmptySeq
  <2> QED BY <2>2, <2>3
<1>3. CASE Len(s) # 0
  <2> DEFINE flatten[i \in 1 .. Len(s)] == IF i = 1 THEN s[i] ELSE flatten[i - 1] \o s[i]
  <2>1. FlattenSeq(s) = flatten[Len(s)]
    BY <1>1, <1>3 DEF FlattenSeq
  <2>2. flatten = CHOOSE f : Flattens(f, s, Len(s))
    BY DEF Flattens
  <2>3. Flattens(flatten, s, Len(s))
    BY <1>1, <2>2, FlattensExists
  <2> HIDE DEF flatten
  <2> QED BY <1>1, <1>3, <2>1, <2>3, FlattensType
<1> QED BY <1>2, <1>3

(***************************************************************************)
(* Recursive functions on finite trees.  kids[c] are the nodes below c,    *)
(* height falls from a node to those below it, and step[c] is what the     *)
(* function has at c, from what it has at the nodes below.                 *)
(***************************************************************************)
FallsIn(D, kids, height) ==
  \A c \in D : height[c] \in Nat /\ kids[c] \subseteq D /\ \A k \in kids[c] : height[k] < height[c]

\* g is the function on the nodes of S.
Computes(g, S, kids, step) ==
  DOMAIN g = S /\ g = [c \in S |-> step[c][[k \in kids[c] |-> g[k]]]]

LEMMA TreeRecursion ==
  ASSUME NEW D, NEW kids, NEW height, FallsIn(D, kids, height), NEW step
  PROVE  \E g : Computes(g, D, kids, step)
<1> DEFINE Low(n) == {c \in D : height[c] < n}
           Bad == {n \in Nat : ~\E g : Computes(g, Low(n), kids, step)}
<1>1. Bad = {}
  <2> SUFFICES ASSUME Bad # {} PROVE FALSE
    OBVIOUS
  <2>1. PICK n \in Bad : \A m \in Bad : n <= m
    BY Least
  <2>2. CASE n = 0
    <3>1. Low(0) = {}
      BY DEF FallsIn
    <3> DEFINE g == [c \in Low(0) |-> step[c][<<>>]]
    <3>2. DOMAIN g = Low(0)
      OBVIOUS
    <3>3. g = [c \in Low(0) |-> step[c][[k \in kids[c] |-> g[k]]]]
      BY <3>1
    <3> QED BY <2>1, <2>2, <3>2, <3>3 DEF Computes
  <2>3. CASE n # 0
    <3>1. n - 1 \in Nat /\ n - 1 \notin Bad
      BY <2>1, <2>3
    <3>2. PICK g : Computes(g, Low(n - 1), kids, step)
      BY <3>1
    <3> DEFINE h == [c \in Low(n) |-> step[c][[k \in kids[c] |-> g[k]]]]
    <3>3. \A c \in Low(n) : kids[c] \subseteq Low(n - 1)
      BY <2>1 DEF FallsIn
    <3>4. \A k \in Low(n - 1) : k \in Low(n)
      BY <2>1 DEF FallsIn
    <3> HIDE DEF Low
    <3>5. \A k \in Low(n - 1) : g[k] = step[k][[j \in kids[k] |-> g[j]]]
      BY <3>2 DEF Computes
    <3>6. \A k \in Low(n - 1) : h[k] = g[k]
      BY <3>4, <3>5
    <3>7. \A c \in Low(n) : [k \in kids[c] |-> g[k]] = [k \in kids[c] |-> h[k]]
      BY <3>3, <3>6
    <3>8. h = [c \in Low(n) |-> step[c][[k \in kids[c] |-> h[k]]]]
      BY <3>7
    <3>9. DOMAIN h = Low(n)
      OBVIOUS
    <3> QED BY <2>1, <3>8, <3>9 DEF Computes
  <2> QED BY <2>2, <2>3
<1> DEFINE G(n) == CHOOSE g : Computes(g, Low(n), kids, step)
<1>2. \A n \in Nat : Computes(G(n), Low(n), kids, step)
  BY <1>1
<1> HIDE DEF G, Bad
\* Two of them agree where both are defined.
<1>3. ASSUME NEW n \in Nat, NEW m \in Nat, NEW c \in D, height[c] < n, height[c] < m
      PROVE  G(n)[c] = G(m)[c]
  <2> DEFINE Differ == {height[d] : d \in {d \in D : height[d] < n /\ height[d] < m /\ G(n)[d] # G(m)[d]}}
  <2> SUFFICES ASSUME Differ # {} PROVE FALSE
    BY <1>3
  <2>1. Differ \subseteq Nat
    BY DEF FallsIn
  <2>2. PICK x \in Differ : \A y \in Differ : x <= y
    BY <2>1, Least
  <2>3. PICK d \in D : x = height[d] /\ height[d] < n /\ height[d] < m /\ G(n)[d] # G(m)[d]
    BY <2>2
  <2>4. ASSUME NEW k \in kids[d] PROVE G(n)[k] = G(m)[k]
    <3>1. k \in D /\ height[k] < height[d] /\ height[k] \in Nat /\ height[d] \in Nat
      BY <2>3 DEF FallsIn
    <3>2. height[k] < n /\ height[k] < m /\ ~(height[d] <= height[k])
      BY <2>3, <3>1
    <3>3. height[k] \notin Differ
      BY <2>2, <2>3, <3>2
    <3> QED BY <3>1, <3>2, <3>3
  <2>5. G(n)[d] = step[d][[k \in kids[d] |-> G(n)[k]]]
    <3>1. d \in Low(n)
      BY <2>3
    <3> HIDE DEF Low
    <3> QED BY <1>2, <3>1 DEF Computes
  <2>6. G(m)[d] = step[d][[k \in kids[d] |-> G(m)[k]]]
    <3>1. d \in Low(m)
      BY <2>3
    <3> HIDE DEF Low
    <3> QED BY <1>2, <3>1 DEF Computes
  <2> QED BY <2>3, <2>4, <2>5, <2>6
<1> DEFINE f == [c \in D |-> G(height[c] + 1)[c]]
<1>4. ASSUME NEW c \in D PROVE f[c] = step[c][[k \in kids[c] |-> f[k]]]
  <2>1. height[c] \in Nat /\ height[c] + 1 \in Nat /\ c \in Low(height[c] + 1)
    BY DEF FallsIn
  <2> DEFINE n == height[c] + 1
  <2>2. G(n)[c] = step[c][[k \in kids[c] |-> G(n)[k]]]
    <3> HIDE DEF Low
    <3> QED BY <1>2, <2>1 DEF Computes
  <2>3. ASSUME NEW k \in kids[c] PROVE f[k] = G(n)[k]
    <3>1. k \in D /\ height[k] \in Nat /\ height[k] < height[c]
      BY DEF FallsIn
    <3>2. height[k] + 1 \in Nat /\ height[k] < height[k] + 1 /\ height[k] < n /\ n \in Nat
      BY <2>1, <3>1
    <3>3. G(height[k] + 1)[k] = G(n)[k]
      BY <1>3, <3>1, <3>2
    <3> QED BY <3>1, <3>3
  <2>4. f[c] = G(n)[c]
    OBVIOUS
  <2> HIDE DEF f, n
  <2>5. [k \in kids[c] |-> f[k]] = [k \in kids[c] |-> G(n)[k]]
    BY <2>3
  <2> QED BY <2>2, <2>4, <2>5
<1>5. DOMAIN f = D /\ f = [c \in D |-> f[c]]
  OBVIOUS
<1> HIDE DEF f
<1>6. f = [c \in D |-> step[c][[k \in kids[c] |-> f[k]]]]
  BY <1>4, <1>5
<1> QED BY <1>5, <1>6 DEF Computes

LEMMA RecursionType ==
  ASSUME NEW D, NEW kids, NEW height, FallsIn(D, kids, height), NEW V, NEW step,
         \A c \in D : \A r \in [kids[c] -> V] : step[c][r] \in V,
         NEW g, Computes(g, D, kids, step)
  PROVE  /\ g \in [D -> V]
         /\ \A c \in D : [k \in kids[c] |-> g[k]] \in [kids[c] -> V] /\ g[c] = step[c][[k \in kids[c] |-> g[k]]]
<1> DEFINE Bad == {height[c] : c \in {c \in D : g[c] \notin V}}
<1>1. \A c \in D : g[c] = step[c][[k \in kids[c] |-> g[k]]]
  BY DEF Computes
<1>2. Bad = {}
  <2> SUFFICES ASSUME Bad # {} PROVE FALSE
    OBVIOUS
  <2>1. Bad \subseteq Nat
    BY DEF FallsIn
  <2>2. PICK x \in Bad : \A y \in Bad : x <= y
    BY <2>1, Least
  <2>3. PICK c \in D : x = height[c] /\ g[c] \notin V
    BY <2>2
  <2>4. ASSUME NEW k \in kids[c] PROVE g[k] \in V
    <3>1. k \in D /\ height[k] \in Nat /\ height[c] \in Nat /\ height[k] < height[c]
      BY <2>3 DEF FallsIn
    <3>2. ~(height[c] <= height[k])
      BY <3>1
    <3>3. height[k] \notin Bad
      BY <2>2, <2>3, <3>2
    <3> QED BY <3>1, <3>3
  <2>5. [k \in kids[c] |-> g[k]] \in [kids[c] -> V]
    BY <2>4
  <2> QED BY <1>1, <2>3, <2>5
<1>3. \A c \in D : g[c] \in V
  BY <1>2
<1>4. \A c \in D : [k \in kids[c] |-> g[k]] \in [kids[c] -> V]
  BY <1>3 DEF FallsIn
<1>5. DOMAIN g = D /\ g = [c \in D |-> g[c]]
  BY DEF Computes
<1> QED BY <1>1, <1>3, <1>4, <1>5

(***************************************************************************)
(* What FlattenSeq is the concatenation of.                                *)
(***************************************************************************)
LEMMA FlattenSteps ==
  ASSUME NEW s, NEW n \in Nat, n = Len(s), n # 0
  PROVE  \E f : Flattens(f, s, n) /\ FlattenSeq(s) = f[n]
<1> DEFINE flatten[i \in 1 .. Len(s)] == IF i = 1 THEN s[i] ELSE flatten[i - 1] \o s[i]
<1>1. FlattenSeq(s) = flatten[n]
  BY DEF FlattenSeq
<1>2. flatten = CHOOSE f : Flattens(f, s, n)
  BY DEF Flattens
<1>3. Flattens(flatten, s, n)
  BY <1>2, FlattensExists
<1> QED BY <1>1, <1>3

LEMMA ToSetConcat ==
  ASSUME NEW T, NEW s \in Seq(T), NEW t \in Seq(T)
  PROVE  ToSet(s \o t) = ToSet(s) \cup ToSet(t)
<1>1. Len(s) \in Nat /\ Len(t) \in Nat /\ DOMAIN s = 1 .. Len(s) /\ DOMAIN t = 1 .. Len(t)
  BY LenProperties
<1>2. /\ s \o t \in Seq(T) /\ Len(s \o t) = Len(s) + Len(t)
      /\ \A i \in 1 .. Len(s) + Len(t) : (s \o t)[i] = IF i <= Len(s) THEN s[i] ELSE t[i - Len(s)]
  BY ConcatProperties
<1>3. DOMAIN (s \o t) = 1 .. Len(s) + Len(t)
  BY <1>2, LenProperties
<1> DEFINE m == Len(s)
           n == Len(t)
           u == s \o t
<1> HIDE DEF m, n, u
<1>4. /\ m \in Nat /\ n \in Nat /\ DOMAIN s = 1 .. m /\ DOMAIN t = 1 .. n /\ DOMAIN u = 1 .. m + n
      /\ \A i \in 1 .. m + n : u[i] = IF i <= m THEN s[i] ELSE t[i - m]
  BY <1>1, <1>2, <1>3 DEF m, n, u
<1>5. \A i \in 1 .. m : i \in 1 .. m + n /\ i <= m
  BY <1>4
<1>6. \A i \in 1 .. n : m + i \in 1 .. m + n /\ ~(m + i <= m) /\ m + i - m = i
  BY <1>4
<1>7. \A i \in 1 .. m + n : (i <= m /\ i \in 1 .. m) \/ (~(i <= m) /\ i - m \in 1 .. n)
  BY <1>4
<1>8. ToSet(s) \subseteq ToSet(u)
  BY <1>4, <1>5 DEF ToSet
<1>9. ToSet(t) \subseteq ToSet(u)
  <2>1. \A i \in 1 .. n : m + i \in DOMAIN u /\ u[m + i] = t[i]
    BY <1>4, <1>6
  <2> QED BY <1>4, <2>1 DEF ToSet
<1>10. ToSet(u) \subseteq ToSet(s) \cup ToSet(t)
  BY <1>4, <1>7 DEF ToSet
<1> QED BY <1>8, <1>9, <1>10 DEF u

LEMMA FlattenElements ==
  ASSUME NEW T, NEW s \in Seq(Seq(T))
  PROVE  ToSet(FlattenSeq(s)) = UNION {ToSet(s[i]) : i \in DOMAIN s}
<1> DEFINE n == Len(s)
<1>1. n \in Nat /\ DOMAIN s = 1 .. n /\ \A i \in 1 .. n : s[i] \in Seq(T)
  BY ElementOfSeq, LenProperties
<1>2. CASE n = 0
  <2>1. s = <<>>
    BY <1>2, EmptySeq
  <2>2. FlattenSeq(s) = <<>>
    BY <1>2, <2>1 DEF FlattenSeq
  <2>3. DOMAIN s = {} /\ DOMAIN <<>> = {}
    BY <1>1, <1>2, <2>1
  <2> QED BY <2>2, <2>3 DEF ToSet
<1>3. CASE n # 0
  <2>1. PICK f : Flattens(f, s, n) /\ FlattenSeq(s) = f[n]
    BY <1>1, <1>3, FlattenSteps
  <2>2. \A i \in 1 .. n : f[i] \in Seq(T)
    BY <2>1, FlattensType
  <2> HIDE DEF n
  <2>3. \A i \in 1 .. n : f[i] = IF i = 1 THEN s[i] ELSE f[i - 1] \o s[i]
    BY <2>1 DEF Flattens
  <2> DEFINE Bad == {m \in 1 .. n : ToSet(f[m]) # UNION {ToSet(s[i]) : i \in 1 .. m}}
  <2>4. Bad = {}
    <3> SUFFICES ASSUME Bad # {} PROVE FALSE
      OBVIOUS
    <3>1. Bad \subseteq Nat
      BY <1>1
    <3>2. PICK m \in Bad : \A k \in Bad : m <= k
      BY <3>1, Least
    <3>3. m # 1
      <4>1. 1 \in 1 .. n /\ 1 .. 1 = {1}
        BY <1>1, <1>3
      <4>2. f[1] = s[1]
        BY <2>3, <4>1
      <4> QED BY <3>2, <4>1, <4>2
    <3>4. m - 1 \in 1 .. n /\ ~(m <= m - 1) /\ 1 .. m = (1 .. m - 1) \cup {m} /\ m \in 1 .. n
      BY <1>1, <3>2, <3>3
    <3>5. m - 1 \notin Bad
      BY <3>2, <3>4
    <3>6. ToSet(f[m - 1]) = UNION {ToSet(s[i]) : i \in 1 .. m - 1}
      BY <3>4, <3>5
    <3>7. f[m] = f[m - 1] \o s[m] /\ f[m - 1] \in Seq(T) /\ s[m] \in Seq(T)
      BY <1>1, <2>2, <2>3, <3>3, <3>4
    <3>8. ToSet(f[m]) = ToSet(f[m - 1]) \cup ToSet(s[m])
      BY <3>7, ToSetConcat
    <3> QED BY <3>2, <3>4, <3>6, <3>8
  <2>5. n \in 1 .. n
    BY <1>1, <1>3
  <2> QED BY <1>1, <2>1, <2>4, <2>5
<1> QED BY <1>2, <1>3

(***************************************************************************)
(* How long a FlattenSeq is: the sums g of the first i of the numbers x.   *)
(***************************************************************************)
SumsUp(g, x, n) ==
  /\ \A i \in 0 .. n : g[i] \in Nat
  /\ g[0] = 0
  /\ \A i \in 1 .. n : x[i] \in Nat /\ g[i] = g[i - 1] + x[i]

\* The sum of a stretch of larger numbers is larger.
LEMMA SumsBelow ==
  ASSUME NEW n \in Nat, NEW m \in Nat, NEW k \in Nat, k + n <= m,
         NEW g, NEW x, SumsUp(g, x, n), NEW h, NEW y, SumsUp(h, y, m),
         \A i \in 1 .. n : x[i] <= y[k + i]
  PROVE  g[n] <= h[m]
<1> DEFINE Bad == {i \in 0 .. n : ~(g[i] <= h[k + i])}
<1>1. Bad = {}
  <2> SUFFICES ASSUME Bad # {} PROVE FALSE
    OBVIOUS
  <2>1. Bad \subseteq Nat
    OBVIOUS
  <2>2. PICK i \in Bad : \A j \in Bad : i <= j
    BY <2>1, Least
  <2>3. i \in 0 .. n /\ k + i \in 0 .. m /\ ~(g[i] <= h[k + i])
    BY <2>2
  <2>4. i # 0
    <3>1. g[0] = 0 /\ h[k + i] \in Nat
      BY <2>3 DEF SumsUp
    <3> QED BY <2>3, <3>1
  <2>5. i \in 1 .. n /\ i - 1 \in 0 .. n /\ ~(i <= i - 1) /\ k + i \in 1 .. m /\ k + i - 1 = k + (i - 1)
    BY <2>3, <2>4
  <2>6. g[i - 1] <= h[k + (i - 1)]
    BY <2>2, <2>5
  <2>7. g[i] = g[i - 1] + x[i] /\ g[i - 1] \in Nat /\ x[i] \in Nat
    BY <2>5 DEF SumsUp
  <2>8. h[k + i] = h[k + (i - 1)] + y[k + i] /\ y[k + i] \in Nat /\ h[k + (i - 1)] \in Nat
    <3>1. h[k + i] = h[k + i - 1] + y[k + i] /\ y[k + i] \in Nat
      BY <2>5 DEF SumsUp
    <3>2. k + (i - 1) \in 0 .. m
      BY <2>3, <2>5
    <3>3. h[k + (i - 1)] \in Nat
      BY <3>2 DEF SumsUp
    <3> QED BY <2>5, <3>1, <3>3
  <2>9. x[i] <= y[k + i]
    BY <2>5
  <2>10. g[i - 1] + x[i] <= h[k + (i - 1)] + y[k + i]
    BY <2>6, <2>7, <2>8, <2>9
  <2> QED BY <2>3, <2>7, <2>8, <2>10
<1>2. g[n] <= h[k + n] /\ g[n] \in Nat
  <2>1. n \in 0 .. n
    OBVIOUS
  <2> QED BY <1>1, <2>1 DEF SumsUp
<1> DEFINE Low == {i \in k + n .. m : ~(g[n] <= h[i])}
<1>3. Low = {}
  <2> SUFFICES ASSUME Low # {} PROVE FALSE
    OBVIOUS
  <2>1. Low \subseteq Nat
    OBVIOUS
  <2>2. PICK i \in Low : \A j \in Low : i <= j
    BY <2>1, Least
  <2>3. i \in k + n .. m /\ ~(g[n] <= h[i])
    BY <2>2
  <2>4. i # k + n
    BY <1>2, <2>3
  <2>5. i - 1 \in k + n .. m /\ ~(i <= i - 1) /\ i \in 1 .. m /\ i - 1 \in 0 .. m
    BY <2>3, <2>4
  <2>6. g[n] <= h[i - 1]
    BY <2>2, <2>5
  <2>7. h[i] = h[i - 1] + y[i] /\ y[i] \in Nat /\ h[i - 1] \in Nat
    BY <2>5 DEF SumsUp
  <2>8. g[n] <= h[i - 1] + y[i]
    BY <1>2, <2>6, <2>7
  <2> QED BY <2>3, <2>7, <2>8
<1>4. m \in k + n .. m
  OBVIOUS
<1> QED BY <1>3, <1>4

LEMMA SumsEqual ==
  ASSUME NEW n \in Nat, NEW g, NEW x, SumsUp(g, x, n), NEW h, NEW y, SumsUp(h, y, n),
         \A i \in 1 .. n : x[i] = y[i]
  PROVE  g[n] = h[n]
<1>1. 0 \in Nat /\ 0 + n <= n /\ \A i \in 1 .. n : 0 + i = i
  OBVIOUS
<1>2. \A i \in 1 .. n : x[i] <= y[0 + i] /\ y[i] <= x[0 + i]
  BY <1>1 DEF SumsUp
<1>3. g[n] <= h[n] /\ h[n] <= g[n]
  BY <1>1, <1>2, SumsBelow
<1>4. n \in 0 .. n
  OBVIOUS
<1>5. g[n] \in Nat /\ h[n] \in Nat
  BY <1>4 DEF SumsUp
<1> QED BY <1>3, <1>5

LEMMA LenOfFlatten ==
  ASSUME NEW T, NEW s \in Seq(Seq(T)), NEW n, n = Len(s)
  PROVE  \E g : SumsUp(g, [i \in 1 .. n |-> Len(s[i])], n) /\ Len(FlattenSeq(s)) = g[n]
<1> DEFINE x == [i \in 1 .. n |-> Len(s[i])]
<1>1. n \in Nat /\ DOMAIN s = 1 .. n /\ \A i \in 1 .. n : s[i] \in Seq(T)
  BY ElementOfSeq, LenProperties
<1>2. \A i \in 1 .. n : x[i] = Len(s[i]) /\ x[i] \in Nat
  BY <1>1, LenProperties
<1> HIDE DEF x
<1>3. CASE n = 0
  <2> DEFINE g == [i \in 0 .. 0 |-> 0]
  <2>1. s = <<>>
    BY <1>3, EmptySeq
  <2>2. FlattenSeq(s) = <<>>
    BY <1>3, <2>1 DEF FlattenSeq
  <2>3. Len(FlattenSeq(s)) = 0
    BY <2>2
  <2>4. \A i \in 0 .. n : g[i] = 0
    BY <1>3
  <2>5. 1 .. n = {} /\ 0 \in 0 .. n
    BY <1>3
  <2> HIDE DEF g
  <2>6. SumsUp(g, x, n)
    BY <2>4, <2>5 DEF SumsUp
  <2> QED BY <1>3, <2>3, <2>4, <2>5, <2>6 DEF x
<1>4. CASE n # 0
  <2>1. PICK f : Flattens(f, s, n) /\ FlattenSeq(s) = f[n]
    BY <1>1, <1>4, FlattenSteps
  <2>2. \A i \in 1 .. n : f[i] \in Seq(T)
    BY <2>1, FlattensType
  <2>3. \A i \in 1 .. n : f[i] = IF i = 1 THEN s[i] ELSE f[i - 1] \o s[i]
    BY <2>1 DEF Flattens
  <2> DEFINE g == [i \in 0 .. n |-> IF i = 0 THEN 0 ELSE Len(f[i])]
  <2>4. g[0] = 0 /\ \A i \in 1 .. n : g[i] = Len(f[i])
    BY <1>1
  <2>5. \A i \in 0 .. n : g[i] \in Nat
    <3>1. \A i \in 0 .. n : i = 0 \/ i \in 1 .. n
      BY <1>1
    <3>2. \A i \in 1 .. n : Len(f[i]) \in Nat
      BY <2>2, LenProperties
    <3> HIDE DEF g
    <3> QED BY <2>4, <3>1, <3>2
  <2> HIDE DEF g
  <2>6. ASSUME NEW i \in 1 .. n PROVE g[i] = g[i - 1] + x[i]
    <3>1. CASE i = 1
      BY <1>2, <2>3, <2>4, <3>1
    <3>2. CASE i # 1
      <4>1. i - 1 \in 1 .. n
        BY <1>1, <3>2
      <4>2. f[i] = f[i - 1] \o s[i] /\ f[i - 1] \in Seq(T) /\ s[i] \in Seq(T)
        BY <1>1, <2>2, <2>3, <3>2, <4>1
      <4>3. Len(f[i]) = Len(f[i - 1]) + Len(s[i])
        BY <4>2, ConcatProperties
      <4> QED BY <1>2, <2>4, <4>1, <4>3
    <3> QED BY <3>1, <3>2
  <2>7. SumsUp(g, x, n)
    BY <1>2, <2>4, <2>5, <2>6 DEF SumsUp
  <2>8. n \in 1 .. n
    BY <1>1, <1>4
  <2> QED BY <2>1, <2>4, <2>7, <2>8 DEF x
<1> QED BY <1>3, <1>4

\* Of finitely many numbers one is the largest.
LEMMA Largest ==
  ASSUME NEW n \in Nat, NEW x, \A i \in 1 .. n : x[i] \in Nat
  PROVE  \E a \in {0} \cup {x[i] : i \in 1 .. n} : \A b \in {0} \cup {x[i] : i \in 1 .. n} : a >= b
<1> DEFINE Up(m) == {0} \cup {x[i] : i \in 1 .. m}
           Bad == {m \in 0 .. n : ~\E a \in Up(m) : \A b \in Up(m) : a >= b}
<1>1. Bad = {}
  <2> SUFFICES ASSUME Bad # {} PROVE FALSE
    OBVIOUS
  <2>1. Bad \subseteq Nat
    OBVIOUS
  <2>2. PICK m \in Bad : \A k \in Bad : m <= k
    BY <2>1, Least
  <2>3. m \in 0 .. n
    BY <2>2
  <2>4. m # 0
    <3>1. Up(0) = {0}
      OBVIOUS
    <3>2. \E a \in {0} : \A b \in {0} : a >= b
      OBVIOUS
    <3> QED BY <2>2, <3>1, <3>2
  <2>5. m - 1 \in 0 .. n /\ ~(m <= m - 1) /\ m \in 1 .. n /\ 1 .. m = (1 .. m - 1) \cup {m}
    BY <2>3, <2>4
  <2>6. Up(m) = Up(m - 1) \cup {x[m]}
    BY <2>5
  <2>7. PICK a \in Up(m - 1) : \A b \in Up(m - 1) : a >= b
    BY <2>2, <2>5
  <2>8. Up(m - 1) \subseteq Nat /\ x[m] \in Nat
    <3>1. \A i \in 1 .. m - 1 : i \in 1 .. n
      BY <2>3, <2>5
    <3> QED BY <2>5, <3>1
  <2> HIDE DEF Up
  <2>9. CASE a >= x[m]
    BY <2>2, <2>6, <2>7, <2>9
  <2>10. CASE ~(a >= x[m])
    <3>1. \A b \in Up(m - 1) : x[m] >= b
      <4> SUFFICES ASSUME NEW b \in Up(m - 1) PROVE x[m] >= b
        OBVIOUS
      <4>1. a >= b /\ a \in Nat /\ b \in Nat
        BY <2>7, <2>8
      <4> QED BY <2>8, <2>10, <4>1
    <3>2. x[m] >= x[m]
      BY <2>8
    <3> QED BY <2>2, <2>6, <3>1, <3>2
  <2> QED BY <2>9, <2>10
<1>2. n \in 0 .. n
  OBVIOUS
<1> QED BY <1>1, <1>2

(***************************************************************************)
(* Suffixes: what a loop over a sequence has still to visit.               *)
(***************************************************************************)
LEMMA ReverseElements ==
  ASSUME NEW s, IsSeq(s)
  PROVE  /\ IsSeq(Reverse(s)) /\ Len(Reverse(s)) = Len(s)
         /\ \A i \in 1 .. Len(s) : Reverse(s)[i] = s[Len(s) - i + 1]
<1>1. Len(s) \in Nat
  BY IsSeqLen
<1> DEFINE r == [i \in 1 .. Len(s) |-> s[(Len(s) - i) + 1]]
<1>2. IsSeq(r) /\ Len(r) = Len(s)
  BY <1>1, IsSeqFunction
<1> QED BY <1>2 DEF Reverse

LEMMA SuffixItself == ASSUME NEW s, IsSeq(s) PROVE IsSuffix(s, s)
<1>1. Len(Reverse(s)) \in Nat
  BY IsSeqLen, ReverseElements
<1> QED BY <1>1 DEF IsSuffix, IsPrefix

LEMMA SuffixTail ==
  ASSUME NEW s, NEW t, IsSeq(s), IsSeq(t), s # <<>>, IsSuffix(s, t)
  PROVE  IsSuffix(Tail(s), t)
<1> DEFINE n == Len(s)
           m == Len(t)
           q == Tail(s)
<1>1. n \in Nat /\ m \in Nat /\ n # 0
  BY IsSeqLen
<1>2. IsSeq(q) /\ Len(q) = n - 1 /\ \A i \in 1 .. n - 1 : q[i] = s[i + 1]
  <2> DEFINE R == {s[i] : i \in DOMAIN s}
  <2>1. s \in Seq(R)
    BY DEF IsSeq
  <2> HIDE DEF R
  <2>2. Len(q) = n - 1 /\ \A i \in 1 .. Len(q) : q[i] = s[i + 1]
    BY <2>1, HeadTailProperties
  <2>3. IsSeq(q)
    BY IsSeqTail
  <2> HIDE DEF n, q
  <2> QED BY <2>2, <2>3
<1> HIDE DEF q
<1>3. PICK rs : rs = Reverse(s)
  OBVIOUS
<1>4. PICK rt : rt = Reverse(t)
  OBVIOUS
<1>5. PICK rq : rq = Reverse(q)
  OBVIOUS
<1>6. IsSeq(rs) /\ Len(rs) = n /\ \A i \in 1 .. n : rs[i] = s[n - i + 1]
  BY <1>3, ReverseElements
<1>7. IsSeq(rt) /\ Len(rt) = m
  BY <1>4, ReverseElements
<1>8. IsSeq(rq) /\ Len(rq) = n - 1 /\ \A i \in 1 .. n - 1 : rq[i] = q[n - 1 - i + 1]
  BY <1>2, <1>5, ReverseElements
<1>9. n <= m /\ SubSeq(rs, 1, n) = SubSeq(rt, 1, n)
  BY <1>3, <1>4, <1>6, <1>7 DEF IsSuffix, IsPrefix
<1> HIDE DEF n, m
<1>10. \A i \in 1 .. n : rs[i] = rt[i]
  <2>1. \A i \in 1 .. n : SubSeq(rs, 1, n)[i] = rs[i]
    BY <1>1, <1>6, IsSeqPrefix
  <2>2. \A i \in 1 .. n : SubSeq(rt, 1, n)[i] = rt[i]
    BY <1>1, <1>7, <1>9, IsSeqPrefix
  <2> QED BY <1>9, <2>1, <2>2
<1>11. \A i \in 1 .. n - 1 : rq[i] = rt[i]
  <2> TAKE i \in 1 .. n - 1
  <2>1. n - 1 - i + 1 \in 1 .. n - 1 /\ (n - 1 - i + 1) + 1 = n - i + 1 /\ i \in 1 .. n
    BY <1>1
  <2>2. rq[i] = q[n - 1 - i + 1]
    BY <1>8
  <2>3. q[n - 1 - i + 1] = s[n - i + 1]
    BY <1>2, <2>1
  <2> QED BY <1>6, <1>10, <2>1, <2>2, <2>3
<1>12. n - 1 \in Nat /\ n - 1 <= m
  BY <1>1, <1>9
<1>13. /\ IsSeq(SubSeq(rq, 1, n - 1)) /\ Len(SubSeq(rq, 1, n - 1)) = n - 1
       /\ \A i \in 1 .. n - 1 : SubSeq(rq, 1, n - 1)[i] = rq[i]
  BY <1>8, <1>12, IsSeqPrefix
<1>14. /\ IsSeq(SubSeq(rt, 1, n - 1)) /\ Len(SubSeq(rt, 1, n - 1)) = n - 1
       /\ \A i \in 1 .. n - 1 : SubSeq(rt, 1, n - 1)[i] = rt[i]
  BY <1>7, <1>12, IsSeqPrefix
<1>15. SubSeq(rq, 1, n - 1) = SubSeq(rt, 1, n - 1)
  BY <1>11, <1>13, <1>14, IsSeqEqual
<1> QED BY <1>4, <1>5, <1>7, <1>8, <1>12, <1>15 DEF IsSuffix, IsPrefix, q
=============================================================================
