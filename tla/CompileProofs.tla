--------------------------- MODULE CompileProofs ----------------------------
(***************************************************************************)
(* The compiler hands the driver one argument per placeholder, in the      *)
(* order of the placeholders, whatever the registry, the filter, the       *)
(* values and the dialect.                                                 *)
(*                                                                         *)
(* The invariant speaks of every active call: its text shows exactly the   *)
(* arguments bound from its beginning to the beginning of the call inside  *)
(* it (for the innermost one: to now).  A part joins its call's text next  *)
(* to the parts before, so the ranges close up as the calls return.        *)
(***************************************************************************)
EXTENDS SequenceLemmas, FilterFaults, FiniteSetTheorems

(***************************************************************************)
(* The renderers.                                                          *)
(*                                                                         *)
(* Every one, of every dialect, writes its placeholders in the order in    *)
(* which it binds its arguments, and one for each; and texts that do so    *)
(* can be put one after another.  It mentions the column it was given, if  *)
(* it writes anything, and no other.                                       *)
(***************************************************************************)
\* text shows the arguments lo + 1 .. hi, each once and in that order.
Shows(text, lo, hi) ==
  /\ IsSeq(text) /\ lo \in Nat /\ hi \in Nat /\ lo <= hi
  /\ InOrder(text, lo, hi)

\* InOrder, with positions spelled out.
LEMMA InOrderByPosition ==
  ASSUME NEW text, NEW lo, NEW hi
  PROVE  InOrder(text, lo, hi) <=>
           /\ \A i \in DOMAIN text : \A j \in DOMAIN text[i].slots : text[i].slots[j] \in (lo + 1) .. hi
           /\ \A v \in (lo + 1) .. hi :
                \E i \in DOMAIN text : \E j \in DOMAIN text[i].slots : text[i].slots[j] = v
           /\ \A i, k \in DOMAIN text :
                \A j \in DOMAIN text[i].slots : \A l \in DOMAIN text[k].slots :
                  (i < k \/ (i = k /\ j < l)) => text[i].slots[j] < text[k].slots[l]
<1>1. \A i \in DOMAIN text : \A j \in DOMAIN text[i].slots :
        <<i, j>> \in Places(text) /\ Shown(text, <<i, j>>) = text[i].slots[j]
  BY DEF Places, Shown
<1>2. \A p \in Places(text) : \E i \in DOMAIN text : \E j \in DOMAIN text[i].slots : p = <<i, j>>
  BY DEF Places
<1>3. \A i, j, k, l : Precedes(<<i, j>>, <<k, l>>) <=> i < k \/ (i = k /\ j < l)
  BY DEF Precedes
<1> DEFINE R == (lo + 1) .. hi
<1> HIDE DEF R
<1>4. ({Shown(text, p) : p \in Places(text)} = R) <=>
           /\ \A i \in DOMAIN text : \A j \in DOMAIN text[i].slots : text[i].slots[j] \in R
           /\ \A v \in R :
                \E i \in DOMAIN text : \E j \in DOMAIN text[i].slots : text[i].slots[j] = v
  <2>1. ({Shown(text, p) : p \in Places(text)} = R) <=>
           /\ \A p \in Places(text) : Shown(text, p) \in R
           /\ \A v \in R : \E p \in Places(text) : Shown(text, p) = v
    OBVIOUS
  <2>2. ASSUME \A i \in DOMAIN text : \A j \in DOMAIN text[i].slots : text[i].slots[j] \in R,
               NEW p \in Places(text)
        PROVE  Shown(text, p) \in R
    <3>1. PICK i \in DOMAIN text : \E j \in DOMAIN text[i].slots : p = <<i, j>>
      BY <1>2
    <3>2. PICK j \in DOMAIN text[i].slots : p = <<i, j>>
      BY <3>1
    <3>3. Shown(text, p) = text[i].slots[j]
      BY <1>1, <3>2
    <3> QED BY <2>2, <3>3
  <2>3. ASSUME NEW p \in Places(text)
        PROVE  \E i \in DOMAIN text : \E j \in DOMAIN text[i].slots : text[i].slots[j] = Shown(text, p)
    <3>1. PICK i \in DOMAIN text : \E j \in DOMAIN text[i].slots : p = <<i, j>>
      BY <1>2
    <3>2. PICK j \in DOMAIN text[i].slots : p = <<i, j>>
      BY <3>1
    <3>3. Shown(text, p) = text[i].slots[j]
      BY <1>1, <3>2
    <3> QED BY <3>3
  <2>4. (\A p \in Places(text) : Shown(text, p) \in R) <=>
          \A i \in DOMAIN text : \A j \in DOMAIN text[i].slots : text[i].slots[j] \in R
    BY <1>1, <2>2
  <2>5. \A v \in R : ((\E p \in Places(text) : Shown(text, p) = v) <=>
          \E i \in DOMAIN text : \E j \in DOMAIN text[i].slots : text[i].slots[j] = v)
    <3> TAKE v \in R
    <3>1. ASSUME NEW p \in Places(text), Shown(text, p) = v
          PROVE  \E i \in DOMAIN text : \E j \in DOMAIN text[i].slots : text[i].slots[j] = v
      BY <2>3, <3>1
    <3>2. ASSUME NEW i \in DOMAIN text, NEW j \in DOMAIN text[i].slots, text[i].slots[j] = v
          PROVE  \E p \in Places(text) : Shown(text, p) = v
      <4>1. <<i, j>> \in Places(text) /\ Shown(text, <<i, j>>) = v
        BY <1>1, <3>2
      <4> QED BY <4>1
    <3> QED BY <3>1, <3>2
  <2> QED BY <2>1, <2>4, <2>5
<1>5. (\A p, q \in Places(text) : Precedes(p, q) => Shown(text, p) < Shown(text, q)) <=>
           \A i, k \in DOMAIN text :
                \A j \in DOMAIN text[i].slots : \A l \in DOMAIN text[k].slots :
                  (i < k \/ (i = k /\ j < l)) => text[i].slots[j] < text[k].slots[l]
  <2>1. ASSUME NEW i \in DOMAIN text, NEW k \in DOMAIN text,
               NEW j \in DOMAIN text[i].slots, NEW l \in DOMAIN text[k].slots,
               \A p, q \in Places(text) : Precedes(p, q) => Shown(text, p) < Shown(text, q),
               i < k \/ (i = k /\ j < l)
        PROVE  text[i].slots[j] < text[k].slots[l]
    <3>1. <<i, j>> \in Places(text) /\ <<k, l>> \in Places(text) /\ Precedes(<<i, j>>, <<k, l>>)
      BY <1>1, <1>3, <2>1
    <3>2. Shown(text, <<i, j>>) < Shown(text, <<k, l>>)
      BY <2>1, <3>1
    <3> QED BY <1>1, <3>2
  <2>2. ASSUME NEW p \in Places(text), NEW q \in Places(text), Precedes(p, q),
               \A i, k \in DOMAIN text :
                 \A j \in DOMAIN text[i].slots : \A l \in DOMAIN text[k].slots :
                   (i < k \/ (i = k /\ j < l)) => text[i].slots[j] < text[k].slots[l]
        PROVE  Shown(text, p) < Shown(text, q)
    <3>1. PICK i \in DOMAIN text : \E j \in DOMAIN text[i].slots : p = <<i, j>>
      BY <1>2
    <3>2. PICK j \in DOMAIN text[i].slots : p = <<i, j>>
      BY <3>1
    <3>3. PICK k \in DOMAIN text : \E l \in DOMAIN text[k].slots : q = <<k, l>>
      BY <1>2
    <3>4. PICK l \in DOMAIN text[k].slots : q = <<k, l>>
      BY <3>3
    <3>5. Precedes(<<i, j>>, <<k, l>>)
      BY <2>2, <3>2, <3>4
    <3>6. text[i].slots[j] < text[k].slots[l]
      BY <1>3, <2>2, <3>5
    <3>7. Shown(text, p) = text[i].slots[j] /\ Shown(text, q) = text[k].slots[l]
      BY <1>1, <3>2, <3>4
    <3> QED BY <3>6, <3>7
  <2> QED BY <2>1, <2>2
<1>6. InOrder(text, lo, hi) <=>
        /\ {Shown(text, p) : p \in Places(text)} = R
        /\ \A p, q \in Places(text) : Precedes(p, q) => Shown(text, p) < Shown(text, q)
  BY DEF InOrder, R
<1> QED BY <1>4, <1>5, <1>6 DEF R

(***************************************************************************)
(* Putting texts together.                                                 *)
(***************************************************************************)
LEMMA ShowsNothing == ASSUME NEW n \in Nat PROVE Shows(<<>>, n, n)
<1>1. IsSeq(<<>>)
  BY EmptySeq, IsSeqIntro
<1>2. DOMAIN <<>> = {} /\ (n + 1) .. n = {}
  OBVIOUS
<1>3. InOrder(<<>>, n, n)
  BY <1>2, InOrderByPosition
<1> QED BY <1>1, <1>3 DEF Shows

\* No text, no arguments.
LEMMA EmptyShows == ASSUME NEW lo, NEW hi, Shows(<<>>, lo, hi) PROVE lo = hi
<1>1. DOMAIN <<>> = {} /\ lo \in Nat /\ hi \in Nat /\ lo <= hi /\ InOrder(<<>>, lo, hi)
  BY DEF Shows
<1>2. \A v : v \notin (lo + 1) .. hi
  BY <1>1, InOrderByPosition
<1>3. hi \in (lo + 1) .. hi <=> lo # hi
  BY <1>1
<1> QED BY <1>2, <1>3

LEMMA ShowsWord == ASSUME NEW w, NEW n \in Nat PROVE Shows(<<Word(w)>>, n, n)
<1>1. IsSeq(<<Word(w)>>) /\ DOMAIN <<Word(w)>> = {1} /\ <<Word(w)>>[1] = Word(w)
  BY IsSeqOne
<1>2. DOMAIN Word(w).slots = {} /\ (n + 1) .. n = {}
  BY DEF Word
<1>3. InOrder(<<Word(w)>>, n, n)
  BY <1>1, <1>2, InOrderByPosition
<1> QED BY <1>1, <1>3 DEF Shows

LEMMA ShowsConcat ==
  ASSUME NEW s, NEW t, NEW a, NEW b, NEW c, Shows(s, a, b), Shows(t, b, c)
  PROVE  Shows(s \o t, a, c)
<1> DEFINE u == s \o t
           m == Len(s)
           n == Len(t)
<1>1. /\ IsSeq(s) /\ IsSeq(t) /\ a \in Nat /\ b \in Nat /\ c \in Nat /\ a <= b /\ b <= c
      /\ InOrder(s, a, b) /\ InOrder(t, b, c)
  BY DEF Shows
<1>2. /\ IsSeq(u) /\ m \in Nat /\ n \in Nat
      /\ DOMAIN s = 1 .. m /\ DOMAIN t = 1 .. n /\ DOMAIN u = 1 .. m + n
      /\ \A i \in 1 .. m : u[i] = s[i]
      /\ \A i \in 1 .. n : u[m + i] = t[i]
  BY <1>1, IsSeqLen, IsSeqConcat
<1> HIDE DEF u, m, n
<1>3. \A i \in 1 .. m : \A j \in DOMAIN s[i].slots : s[i].slots[j] \in (a + 1) .. b
  BY <1>1, <1>2, InOrderByPosition
<1>4. \A i \in 1 .. n : \A j \in DOMAIN t[i].slots : t[i].slots[j] \in (b + 1) .. c
  BY <1>1, <1>2, InOrderByPosition
<1>5. \A i \in 1 .. m + n : i \in 1 .. m \/ (i - m \in 1 .. n /\ m + (i - m) = i)
  BY <1>2
<1>6. \A i \in 1 .. m : i \in 1 .. m + n
  BY <1>2
<1>7. \A i \in 1 .. n : m + i \in 1 .. m + n
  BY <1>2
<1>8. \A i \in 1 .. m + n : \A j \in DOMAIN u[i].slots : u[i].slots[j] \in (a + 1) .. c
  <2> SUFFICES ASSUME NEW i \in 1 .. m + n, NEW j \in DOMAIN u[i].slots
               PROVE  u[i].slots[j] \in (a + 1) .. c
    OBVIOUS
  <2>1. CASE i \in 1 .. m
    <3>1. u[i].slots[j] \in (a + 1) .. b
      BY <1>2, <1>3, <2>1
    <3> QED BY <1>1, <3>1
  <2>2. CASE i - m \in 1 .. n /\ m + (i - m) = i
    <3>1. u[i].slots[j] \in (b + 1) .. c
      <4>1. u[i] = t[i - m]
        BY <1>2, <2>2
      <4> QED BY <1>4, <2>2, <4>1
    <3> QED BY <1>1, <3>1
  <2> QED BY <1>5, <2>1, <2>2
<1>9. ASSUME NEW v \in (a + 1) .. c
      PROVE  \E i \in 1 .. m + n : \E j \in DOMAIN u[i].slots : u[i].slots[j] = v
  <2>1. CASE v <= b
    <3>1. v \in (a + 1) .. b
      BY <1>1, <2>1
    <3>2. PICK i \in 1 .. m : \E j \in DOMAIN s[i].slots : s[i].slots[j] = v
      BY <1>1, <1>2, <3>1, InOrderByPosition
    <3> QED BY <1>2, <1>6, <3>2
  <2>2. CASE ~(v <= b)
    <3>1. v \in (b + 1) .. c
      BY <1>1, <2>2
    <3>2. PICK i \in 1 .. n : \E j \in DOMAIN t[i].slots : t[i].slots[j] = v
      BY <1>1, <1>2, <3>1, InOrderByPosition
    <3>3. u[m + i] = t[i]
      BY <1>2
    <3> QED BY <1>7, <3>2, <3>3
  <2> QED BY <2>1, <2>2
<1>10. ASSUME NEW i \in 1 .. m + n, NEW k \in 1 .. m + n,
              NEW j \in DOMAIN u[i].slots, NEW l \in DOMAIN u[k].slots,
              i < k \/ (i = k /\ j < l)
       PROVE  u[i].slots[j] < u[k].slots[l]
  <2>1. CASE k \in 1 .. m
    <3>1. i \in 1 .. m
      BY <1>2, <1>10, <2>1
    <3>2. u[i] = s[i] /\ u[k] = s[k]
      BY <1>2, <2>1, <3>1
    <3> QED BY <1>1, <1>2, <1>10, <2>1, <3>1, <3>2, InOrderByPosition
  <2>2. CASE i \in 1 .. m /\ k - m \in 1 .. n /\ m + (k - m) = k
    <3>1. u[i] = s[i] /\ u[k] = t[k - m]
      BY <1>2, <2>2
    <3>2. u[i].slots[j] \in (a + 1) .. b /\ u[k].slots[l] \in (b + 1) .. c
      BY <1>3, <1>4, <2>2, <3>1
    <3> QED BY <1>1, <3>2
  <2>3. CASE i - m \in 1 .. n /\ m + (i - m) = i /\ k - m \in 1 .. n /\ m + (k - m) = k
    <3>1. u[i] = t[i - m] /\ u[k] = t[k - m]
      BY <1>2, <2>3
    <3>2. i - m < k - m \/ (i - m = k - m /\ j < l)
      BY <1>2, <1>10
    <3>3. \A x, y \in 1 .. n : \A z \in DOMAIN t[x].slots : \A w \in DOMAIN t[y].slots :
            (x < y \/ (x = y /\ z < w)) => t[x].slots[z] < t[y].slots[w]
      BY <1>1, <1>2, InOrderByPosition
    <3>4. j \in DOMAIN t[i - m].slots /\ l \in DOMAIN t[k - m].slots
      BY <3>1
    <3>5. t[i - m].slots[j] < t[k - m].slots[l]
      BY <2>3, <3>2, <3>3, <3>4
    <3> QED BY <3>1, <3>5
  <2> QED BY <1>5, <2>1, <2>2, <2>3
<1>11. InOrder(u, a, c)
  BY <1>2, <1>8, <1>9, <1>10, InOrderByPosition
<1> QED BY <1>1, <1>2, <1>11 DEF Shows, u

(***************************************************************************)
(* The renderers.  r is what one returned with n arguments bound before.   *)
(***************************************************************************)
Renders(r, n) == IsSeq(r.args) /\ Shows(r.text, n, n + Len(r.args))

LEMMA NothingRenders == ASSUME NEW n \in Nat PROVE Renders(Nothing, n)
<1>1. IsSeq(<<>>)
  BY EmptySeq, IsSeqIntro
<1>2. n + Len(<<>>) = n
  OBVIOUS
<1> QED BY <1>1, <1>2, ShowsNothing DEF Renders, Nothing

LEMMA OneRenders ==
  ASSUME NEW sym, NEW col, NEW n \in Nat, NEW bound, IsSeq(bound)
  PROVE  Renders(One(sym, col, n, bound), n)
<1> DEFINE token == Predicate(sym, col, n, Len(bound))
<1>1. Len(bound) \in Nat
  BY IsSeqLen
<1>2. token.slots = [i \in 1 .. Len(bound) |-> n + i]
  BY DEF Predicate
<1> HIDE DEF token
<1>3. IsSeq(<<token>>) /\ Len(<<token>>) = 1 /\ DOMAIN <<token>> = {1} /\ <<token>>[1] = token
  BY IsSeqOne
<1>4. \A j \in 1 .. Len(bound) : n + j \in (n + 1) .. (n + Len(bound))
  BY <1>1
<1>5. \A v \in (n + 1) .. (n + Len(bound)) : v - n \in 1 .. Len(bound) /\ n + (v - n) = v
  BY <1>1
<1>6. \A i, j \in 1 .. Len(bound) : i < j => n + i < n + j
  BY <1>1
<1>7. \A i \in {1} : \A j \in DOMAIN <<token>>[i].slots :
        <<token>>[i].slots[j] \in (n + 1) .. (n + Len(bound))
  BY <1>2, <1>3, <1>4
<1>8. \A v \in (n + 1) .. (n + Len(bound)) :
        \E i \in {1} : \E j \in DOMAIN <<token>>[i].slots : <<token>>[i].slots[j] = v
  BY <1>2, <1>3, <1>5
<1>9. \A i, k \in {1} : \A j \in DOMAIN <<token>>[i].slots : \A l \in DOMAIN <<token>>[k].slots :
        (i < k \/ (i = k /\ j < l)) => <<token>>[i].slots[j] < <<token>>[k].slots[l]
  BY <1>2, <1>3, <1>6
<1>10. InOrder(<<token>>, n, n + Len(bound))
  BY <1>3, <1>7, <1>8, <1>9, InOrderByPosition
<1>11. n + Len(bound) \in Nat /\ n <= n + Len(bound)
  BY <1>1
<1>12. Shows(<<token>>, n, n + Len(bound))
  BY <1>3, <1>10, <1>11 DEF Shows
<1> QED BY <1>12 DEF Renders, One, token

\* Which groups of k placeholders the odd positions of a joined text show.
LEMMA Halves ==
  ASSUME NEW i \in Nat, i >= 1
  PROVE  /\ (i - 1) \div 2 \in Nat
         /\ i % 2 = 1 => i = 2 * ((i - 1) \div 2) + 1
         /\ i % 2 = 1 \/ i % 2 = 0
OBVIOUS

LEMMA WordSlots == ASSUME NEW w PROVE DOMAIN Word(w).slots = {}
BY DEF Word

\* Predicates in the odd positions, each over the next k arguments.
LEMMA PredicatesShow ==
  ASSUME NEW n \in Nat, NEW k \in {1, 2}, NEW count \in Nat, count # 0,
         NEW text, IsSeq(text), DOMAIN text = 1 .. 2 * count - 1,
         \A i \in 1 .. 2 * count - 1 :
           IF i % 2 = 1 THEN text[i].slots = [j \in 1 .. k |-> n + k * ((i - 1) \div 2) + j]
                        ELSE text[i] = Word("AND")
  PROVE  Shows(text, n, n + k * count)
<1> DEFINE m == 2 * count - 1
           half(i) == (i - 1) \div 2
           hi == n + k * count
<1>1. m \in Nat /\ hi \in Nat /\ n <= hi
  OBVIOUS
<1>2. IsSeq(text) /\ DOMAIN text = 1 .. m
  OBVIOUS
<1>3. \A i \in 1 .. m : half(i) \in Nat /\ (i % 2 = 1 => i = 2 * half(i) + 1 /\ half(i) < count)
  OBVIOUS
<1>4. \A i \in 1 .. m : i % 2 = 1 => text[i].slots = [j \in 1 .. k |-> n + k * half(i) + j]
  OBVIOUS
<1>5. \A i \in 1 .. m : i % 2 # 1 => DOMAIN text[i].slots = {}
  <2>1. DOMAIN Word("AND").slots = {}
    BY WordSlots
  <2>2. \A i \in 1 .. m : i % 2 # 1 => text[i] = Word("AND")
    OBVIOUS
  <2> QED BY <2>1, <2>2
<1>6. ASSUME NEW i \in 1 .. m, NEW j \in DOMAIN text[i].slots
      PROVE  i % 2 = 1 /\ j \in 1 .. k /\ text[i].slots[j] = n + k * half(i) + j
  <2> HIDE DEF half, m
  <2>1. i % 2 = 1
    BY <1>5
  <2>2. text[i].slots = [x \in 1 .. k |-> n + k * half(i) + x]
    BY <1>4, <2>1
  <2> QED BY <2>1, <2>2
<1>7. \A v \in (n + 1) .. hi :
        \E i \in 1 .. m : i % 2 = 1 /\ \E j \in 1 .. k : n + k * half(i) + j = v
  <2> SUFFICES ASSUME NEW v \in (n + 1) .. hi
               PROVE  \E i \in 1 .. m : i % 2 = 1 /\ \E j \in 1 .. k : n + k * half(i) + j = v
    OBVIOUS
  <2>1. CASE k = 1
    <3> DEFINE i == 2 * (v - n - 1) + 1
    <3>1. i \in 1 .. m /\ i % 2 = 1 /\ half(i) = v - n - 1
      BY <2>1
    <3>2. 1 \in 1 .. k /\ n + k * (v - n - 1) + 1 = v
      BY <2>1
    <3> HIDE DEF i
    <3> QED BY <3>1, <3>2
  <2>2. CASE k = 2
    <3> DEFINE i == 2 * ((v - n - 1) \div 2) + 1
               j == ((v - n - 1) % 2) + 1
    <3>1. i \in 1 .. m /\ i % 2 = 1 /\ half(i) = (v - n - 1) \div 2
      BY <2>2
    <3>2. j \in 1 .. k /\ n + k * ((v - n - 1) \div 2) + j = v
      BY <2>2
    <3> HIDE DEF i, j
    <3> QED BY <3>1, <3>2
  <2> QED BY <2>1, <2>2
<1>8. \A i \in 1 .. m : \A j \in DOMAIN text[i].slots : text[i].slots[j] \in (n + 1) .. hi
  <2> SUFFICES ASSUME NEW i \in 1 .. m, NEW j \in DOMAIN text[i].slots
               PROVE  text[i].slots[j] \in (n + 1) .. hi
    OBVIOUS
  <2>1. i % 2 = 1 /\ j \in 1 .. k /\ text[i].slots[j] = n + k * half(i) + j
    BY <1>6
  <2>2. half(i) \in Nat /\ half(i) < count
    BY <1>3, <2>1
  <2> HIDE DEF half
  <2>3. n + k * half(i) + j \in (n + 1) .. hi
    <3>1. CASE k = 1 BY <2>1, <2>2, <3>1
    <3>2. CASE k = 2 BY <2>1, <2>2, <3>2
    <3> QED BY <3>1, <3>2
  <2> QED BY <2>1, <2>3
<1>9. \A v \in (n + 1) .. hi :
        \E i \in 1 .. m : \E j \in DOMAIN text[i].slots : text[i].slots[j] = v
  <2> SUFFICES ASSUME NEW v \in (n + 1) .. hi
               PROVE  \E i \in 1 .. m : \E j \in DOMAIN text[i].slots : text[i].slots[j] = v
    OBVIOUS
  <2> HIDE DEF half, m, hi
  <2>1. PICK i \in 1 .. m : i % 2 = 1 /\ \E j \in 1 .. k : n + k * half(i) + j = v
    BY <1>7
  <2>2. text[i].slots = [x \in 1 .. k |-> n + k * half(i) + x]
    BY <1>4, <2>1
  <2>3. PICK j \in 1 .. k : n + k * half(i) + j = v
    BY <2>1
  <2>4. j \in DOMAIN text[i].slots /\ text[i].slots[j] = v
    BY <2>2, <2>3
  <2> QED BY <2>4
<1>10. \A i, g \in 1 .. m : \A j \in DOMAIN text[i].slots : \A l \in DOMAIN text[g].slots :
         (i < g \/ (i = g /\ j < l)) => text[i].slots[j] < text[g].slots[l]
  <2> SUFFICES ASSUME NEW i \in 1 .. m, NEW g \in 1 .. m,
                      NEW j \in DOMAIN text[i].slots, NEW l \in DOMAIN text[g].slots,
                      i < g \/ (i = g /\ j < l)
               PROVE  text[i].slots[j] < text[g].slots[l]
    OBVIOUS
  <2>1. /\ i % 2 = 1 /\ j \in 1 .. k /\ text[i].slots[j] = n + k * half(i) + j
        /\ g % 2 = 1 /\ l \in 1 .. k /\ text[g].slots[l] = n + k * half(g) + l
    BY <1>6
  <2>2. /\ half(i) \in Nat /\ i = 2 * half(i) + 1
        /\ half(g) \in Nat /\ g = 2 * half(g) + 1
    BY <1>3, <2>1
  <2> HIDE DEF half
  <2>3. half(i) < half(g) \/ (half(i) = half(g) /\ j < l)
    BY <2>2
  <2>4. n + k * half(i) + j < n + k * half(g) + l
    <3>1. CASE k = 1 BY <2>1, <2>2, <2>3, <3>1
    <3>2. CASE k = 2 BY <2>1, <2>2, <2>3, <3>2
    <3> QED BY <3>1, <3>2
  <2> QED BY <2>1, <2>4
<1>11. InOrder(text, n, hi)
  BY <1>2, <1>8, <1>9, <1>10, InOrderByPosition
<1> QED BY <1>1, <1>2, <1>11 DEF Shows

LEMMA JoinedRenders ==
  ASSUME NEW sym, NEW col, NEW n \in Nat, NEW k \in {1, 2}, NEW count \in Nat, count # 0,
         NEW bound, IsSeq(bound), Len(bound) = k * count
  PROVE  Renders(Joined(sym, col, n, k, count, bound), n)
<1> DEFINE text == [i \in 1 .. 2 * count - 1 |->
                      IF i % 2 = 1 THEN Predicate(sym, col, n + k * ((i - 1) \div 2), k)
                                   ELSE Word("AND")]
<1>1. 2 * count - 1 \in Nat
  OBVIOUS
<1>2. IsSeq(text) /\ DOMAIN text = 1 .. 2 * count - 1
  BY <1>1, IsSeqFunction
<1>3. \A i \in 1 .. 2 * count - 1 :
        IF i % 2 = 1 THEN text[i].slots = [j \in 1 .. k |-> n + k * ((i - 1) \div 2) + j]
                     ELSE text[i] = Word("AND")
  BY DEF Predicate
<1>4. Joined(sym, col, n, k, count, bound) = [text |-> text, args |-> bound]
  BY DEF Joined
<1> HIDE DEF text
<1>5. Shows(text, n, n + k * count)
  BY <1>2, <1>3, PredicatesShow
<1> QED BY <1>4, <1>5 DEF Renders

LEMMA StrsIsSeq ==
  ASSUME NEW vals, IsSeq(vals)
  PROVE  IsSeq(Strs(vals)) /\ Len(Strs(vals)) = Len(vals)
<1>1. Len(vals) \in Nat /\ DOMAIN vals = 1 .. Len(vals)
  BY IsSeqLen
<1> DEFINE s == [i \in 1 .. Len(vals) |-> <<"str", vals[i]>>]
<1>2. IsSeq(s) /\ Len(s) = Len(vals)
  BY <1>1, IsSeqFunction
<1> QED BY <1>1, <1>2 DEF Strs

LEMMA PathsIsSeq ==
  ASSUME NEW keys, IsSeq(keys)
  PROVE  IsSeq(Paths(keys)) /\ Len(Paths(keys)) = Len(keys)
<1>1. Len(keys) \in Nat /\ DOMAIN keys = 1 .. Len(keys)
  BY IsSeqLen
<1> DEFINE s == [i \in 1 .. Len(keys) |-> <<"path", keys[i]>>]
<1>2. IsSeq(s) /\ Len(s) = Len(keys)
  BY <1>1, IsSeqFunction
<1> QED BY <1>1, <1>2 DEF Paths

LEMMA KeyValuesIsSeq == ASSUME NEW pairs \in Seq(KeyValue) PROVE IsSeq(KeyValues(pairs))
<1> DEFINE T == Text \X Text
           s == [i \in DOMAIN pairs |-> [j \in DOMAIN pairs[i].values |-> <<pairs[i].key, pairs[i].values[j]>>]]
<1>1. Len(pairs) \in Nat /\ DOMAIN pairs = 1 .. Len(pairs)
  BY LenProperties
<1>2. ASSUME NEW i \in 1 .. Len(pairs)
      PROVE  s[i] \in Seq(T)
  <2>1. pairs[i] \in KeyValue
    BY <1>1, ElementOfSeq
  <2>2. pairs[i].key \in Text /\ pairs[i].values \in Seq(Text)
    BY <2>1 DEF KeyValue
  <2> DEFINE v == pairs[i].values
  <2>3. Len(v) \in Nat /\ DOMAIN v = 1 .. Len(v) /\ \A j \in 1 .. Len(v) : v[j] \in Text
    BY <2>2, LenProperties, ElementOfSeq
  <2> HIDE DEF v
  <2>4. [j \in 1 .. Len(v) |-> <<pairs[i].key, v[j]>>] \in [1 .. Len(v) -> T]
    BY <2>2, <2>3
  <2>5. [j \in 1 .. Len(v) |-> <<pairs[i].key, v[j]>>] \in Seq(T)
    BY <2>3, <2>4, SeqDef
  <2>6. s[i] = [j \in 1 .. Len(v) |-> <<pairs[i].key, v[j]>>]
    BY <1>1, <2>3 DEF v
  <2> QED BY <2>5, <2>6
<1>3. s \in [1 .. Len(pairs) -> Seq(T)]
  BY <1>1, <1>2
<1> HIDE DEF T
<1>4. s \in Seq(Seq(T))
  BY <1>1, <1>3, SeqDef
<1> HIDE DEF s
<1>5. FlattenSeq(s) \in Seq(T)
  BY <1>4, FlattenSeqType
<1>6. KeyValues(pairs) = FlattenSeq(s)
  BY DEF KeyValues, s
<1> QED BY <1>5, <1>6, IsSeqIntro

LEMMA EachPairRenders ==
  ASSUME NEW sym, NEW keyTag, NEW col, NEW pairs \in Seq(KeyValue), NEW n \in Nat
  PROVE  Renders(EachPair(sym, keyTag, col, pairs, n), n)
<1> DEFINE kvs == KeyValues(pairs)
           bound == [i \in 1 .. 2 * Len(kvs) |->
                       LET kv == kvs[(i + 1) \div 2]
                       IN IF i % 2 = 1 THEN <<keyTag, kv[1]>> ELSE <<"str", kv[2]>>]
<1>1. IsSeq(kvs)
  BY KeyValuesIsSeq
<1>2. EachPair(sym, keyTag, col, pairs, n) =
        IF kvs = <<>> THEN Nothing ELSE Joined(sym, col, n, 2, Len(kvs), bound)
  BY DEF EachPair
<1> HIDE DEF kvs
<1>3. CASE kvs = <<>>
  BY <1>2, <1>3, NothingRenders
<1>4. CASE kvs # <<>>
  <2>1. Len(kvs) \in Nat /\ Len(kvs) # 0 /\ 2 * Len(kvs) \in Nat
    BY <1>1, <1>4, IsSeqLen
  <2>2. IsSeq(bound) /\ Len(bound) = 2 * Len(kvs)
    BY <2>1, IsSeqFunction
  <2> HIDE DEF bound
  <2>3. Renders(Joined(sym, col, n, 2, Len(kvs), bound), n)
    BY <2>1, <2>2, JoinedRenders
  <2> QED BY <1>2, <1>4, <2>3
<1> QED BY <1>3, <1>4

(***************************************************************************)
(* The dialects.                                                           *)
(***************************************************************************)
LEMMA LikeRenders ==
  ASSUME NEW d \in Dialect, NEW col, NEW pattern, NEW match, NEW n \in Nat
  PROVE  Renders(Like(d, col, pattern, match, n), n)
<1>1. \A p : IsSeq(Needle(p, match))
  BY IsSeqOne DEF Needle
<1>2. \A sym, p : Renders(One(sym, col, n, Needle(p, match)), n)
  BY <1>1, OneRenders
<1>3. d \in {"clickhouse", "postgres", "sqlite", "mysql"}
  BY DEF Dialect
<1> QED BY <1>2, <1>3 DEF Like, ClickHouseLike, PostgresLike, SQLiteLike, MySQLLike

LEMMA ArrayContainsRenders ==
  ASSUME NEW d \in Dialect, NEW col, NEW vals, IsSeq(vals), NEW all, NEW n \in Nat
  PROVE  Renders(ArrayContains(d, col, vals, all, n), n)
<1>1. IsSeq(List(vals)) /\ IsSeq(Strs(vals)) /\ IsSeq(Append(Strs(vals), <<"num", Len(vals)>>))
  BY IsSeqOne, StrsIsSeq, IsSeqAppend DEF List
<1>2. \A sym : /\ Renders(One(sym, col, n, List(vals)), n)
               /\ Renders(One(sym, col, n, Strs(vals)), n)
               /\ Renders(One(sym, col, n, Append(Strs(vals), <<"num", Len(vals)>>)), n)
  BY <1>1, OneRenders
<1>3. d \in {"clickhouse", "postgres", "sqlite", "mysql"}
  BY DEF Dialect
<1> QED
  BY <1>2, <1>3
  DEF ArrayContains, ClickHouseArrayContains, PostgresArrayContains, SQLiteArrayContains, MySQLArrayContains

LEMMA MapHasKeysRenders ==
  ASSUME NEW d \in Dialect, NEW col, NEW keys, IsSeq(keys), keys # <<>>, NEW n \in Nat
  PROVE  Renders(MapHasKeys(d, col, keys, n), n)
<1>1. Len(keys) \in Nat /\ Len(keys) # 0 /\ Len(keys) = 1 * Len(keys) /\ 1 \in {1, 2}
  BY IsSeqLen
<1>2. IsSeq(List(keys)) /\ IsSeq(Strs(keys)) /\ IsSeq(Paths(keys))
  BY IsSeqOne, StrsIsSeq, PathsIsSeq DEF List
<1>3. Len(Strs(keys)) = 1 * Len(keys) /\ Len(Paths(keys)) = 1 * Len(keys)
  BY <1>1, StrsIsSeq, PathsIsSeq
<1>4. \A sym : /\ Renders(One(sym, col, n, List(keys)), n)
               /\ Renders(One(sym, col, n, Strs(keys)), n)
  BY <1>2, OneRenders
<1>5. \A sym : /\ Renders(Joined(sym, col, n, 1, Len(keys), Strs(keys)), n)
               /\ Renders(Joined(sym, col, n, 1, Len(keys), Paths(keys)), n)
  BY <1>1, <1>2, <1>3, JoinedRenders
<1>6. d \in {"clickhouse", "postgres", "sqlite", "mysql"}
  BY DEF Dialect
<1> QED
  BY <1>4, <1>5, <1>6
  DEF MapHasKeys, ClickHouseMapHasKeys, PostgresMapHasKeys, SQLiteMapHasKeys, MySQLMapHasKeys

LEMMA MapHasKeyValuesRenders ==
  ASSUME NEW d \in Dialect, NEW col, NEW pairs \in Seq(KeyValue), NEW n \in Nat
  PROVE  Renders(MapHasKeyValues(d, col, pairs, n), n)
<1>1. \A sym, tag : Renders(EachPair(sym, tag, col, pairs, n), n)
  BY EachPairRenders
<1>2. d \in {"clickhouse", "postgres", "sqlite", "mysql"}
  BY DEF Dialect
<1> QED
  BY <1>1, <1>2
  DEF MapHasKeyValues, ClickHouseMapHasKeyValues, PostgresMapHasKeyValues, SQLiteMapHasKeyValues,
      MySQLMapHasKeyValues

LEMMA ScalarInRenders ==
  ASSUME NEW d, HasScalarIn(d), NEW col, NEW vals, NEW negate, NEW n \in Nat
  PROVE  Renders(ScalarIn(d, col, vals, negate, n), n)
<1>1. IsSeq(List(vals))
  BY IsSeqOne DEF List
<1>2. \A sym : Renders(One(sym, col, n, List(vals)), n)
  BY <1>1, OneRenders
<1> QED BY <1>2 DEF HasScalarIn, ScalarIn, PostgresScalarIn, SQLiteScalarIn

(***************************************************************************)
(* The operators.                                                          *)
(***************************************************************************)
LEMMA NegatedShows ==
  ASSUME NEW text, NEW lo, NEW hi, Shows(text, lo, hi)
  PROVE  Shows(Negated(text), lo, hi)
<1>1. lo \in Nat /\ hi \in Nat
  BY DEF Shows
<1> DEFINE open == <<Word("NOT"), Word("(")>>
<1>2. open = <<Word("NOT")>> \o <<Word("(")>>
  OBVIOUS
<1>3. Shows(open, lo, lo)
  BY <1>1, <1>2, ShowsWord, ShowsConcat
<1>4. Shows(<<Word(")")>>, hi, hi)
  BY <1>1, ShowsWord
<1> HIDE DEF open
<1>5. Shows(open \o text \o <<Word(")")>>, lo, hi)
  BY <1>3, <1>4, ShowsConcat
<1> QED BY <1>5 DEF Negated, open

LEMMA ResolvedRenders ==
  ASSUME NEW r, NEW n, Renders(r, n) PROVE Renders(Resolved(r), n)
BY DEF Renders, Resolved

LEMMA NegateIfRenders ==
  ASSUME NEW r, NEW n, Renders(r, n), NEW negative, r = [text |-> r.text, args |-> r.args]
  PROVE  Renders(NegateIf(negative, r), n)
<1>1. IsSeq(r.args) /\ Shows(r.text, n, n + Len(r.args))
  BY DEF Renders
<1>2. Shows(Negated(r.text), n, n + Len(r.args))
  BY <1>1, NegatedShows
<1>3. NegateIf(negative, r) =
        [ok |-> TRUE, text |-> IF negative THEN Negated(r.text) ELSE r.text, args |-> r.args]
  BY DEF NegateIf, Resolved
<1> QED BY <1>1, <1>2, <1>3 DEF Renders

LEMMA CompareRenders ==
  ASSUME NEW col, NEW op, NEW arg, NEW n \in Nat
  PROVE  Renders(Compare(col, op, arg, n), n)
BY IsSeqOne, OneRenders, ResolvedRenders DEF Compare

LEMMA InListRenders ==
  ASSUME NEW col, NEW op, NEW bound, IsSeq(bound), NEW n \in Nat
  PROVE  Renders(InList(col, op, bound, n), n)
BY OneRenders, ResolvedRenders DEF InList

LEMMA SkippedRenders == ASSUME NEW n \in Nat PROVE Renders(Skipped, n)
BY NothingRenders, ResolvedRenders DEF Skipped

LEMMA BadValueIsBad == ASSUME NEW bound PROVE ~BadValue(bound).ok
BY DEF BadValue

LEMMA StringsIsSeq ==
  ASSUME NEW vals, IsSeq(vals)
  PROVE  IsSeq(Strings(vals))
<1>1. Len(vals) \in Nat /\ DOMAIN vals = 1 .. Len(vals)
  BY IsSeqLen
<1>2. IsSeq([i \in 1 .. Len(vals) |-> AsString(vals[i])])
  BY <1>1, IsSeqFunction
<1> QED BY <1>1, <1>2 DEF Strings

LEMMA FloatsIsSeq ==
  ASSUME NEW vals, IsSeq(vals)
  PROVE  IsSeq(Floats(vals))
<1>1. Len(vals) \in Nat /\ DOMAIN vals = 1 .. Len(vals)
  BY IsSeqLen
<1>2. IsSeq([i \in 1 .. Len(vals) |-> <<"num", AsFloat(vals[i])>>])
  BY <1>1, IsSeqFunction
<1> QED BY <1>1, <1>2 DEF Floats

\* An operator that passes the gate has one of the forms resolve knows.
LEMMA AllowedOperator ==
  ASSUME NEW f, NEW op, Allows(f, op), op \notin NullTests
  PROVE  /\ f.type \in {"string", "id", "int", "float", "bool", "timestamp", "enum", "array", "map"}
         /\ f.type \in {"string", "id", "enum"} => op \in Equality \cup Membership \cup Matching
         /\ f.type \in {"int", "float"} => op \in Equality \cup Membership \cup Ordering \cup {"_between"}
<1>1. op \in Operators(f.type)
  BY DEF Allows, EffectiveOperators
<1>2. f.type \in DOMAIN TypeOperators /\ op \in TypeOperators[f.type]
  BY <1>1 DEF Operators
<1>3. DOMAIN TypeOperators =
        {"string", "id", "int", "float", "bool", "timestamp", "enum", "array", "map"}
  BY DEF TypeOperators
<1>4. /\ TypeOperators["string"] = Equality \cup Membership \cup Matching
      /\ TypeOperators["id"] = Equality \cup Membership
      /\ TypeOperators["enum"] = Equality \cup Membership
      /\ TypeOperators["int"] = NumberOperators
      /\ TypeOperators["float"] = NumberOperators
  BY DEF TypeOperators
<1> QED BY <1>2, <1>3, <1>4 DEF NumberOperators

LEMMA ScalarRenders ==
  ASSUME NEW d \in Dialect, NEW f, NEW col, NEW c, IsSeq(c.values), NEW n \in Nat,
         c.op \in Equality \cup Membership \cup Matching,
         ResolveScalar(d, f, col, c, n).ok
  PROVE  Renders(ResolveScalar(d, f, col, c, n), n)
<1> DEFINE v == First(c.values)
<1>1. CASE c.op \in Equality \cup Matching
  <2>1. ResolveScalar(d, f, col, c, n) =
          IF ~ScalarOk(f, v) THEN BadValue(<<>>)
          ELSE IF c.op \in Equality THEN Compare(col, c.op, <<"str", AsString(v)>>, n)
          ELSE Resolved(Like(d, col, AsString(v), Anchor[c.op], n))
    BY <1>1 DEF ResolveScalar, Equality, Matching, Membership
  <2>2. Renders(Compare(col, c.op, <<"str", AsString(v)>>, n), n)
    BY CompareRenders
  <2>3. Renders(Resolved(Like(d, col, AsString(v), Anchor[c.op], n)), n)
    BY LikeRenders, ResolvedRenders
  <2> QED BY <2>1, <2>2, <2>3, BadValueIsBad
<1>2. CASE c.op \in Membership
  <2>1. ResolveScalar(d, f, col, c, n) =
          IF \E i \in DOMAIN c.values : ~ScalarOk(f, c.values[i]) THEN BadValue(<<>>)
          ELSE IF c.values = <<>> THEN Skipped
          ELSE IF f.type \in {"string", "enum"} /\ HasScalarIn(d)
          THEN Resolved(ScalarIn(d, col, Strings(c.values), c.op = "_nin", n))
          ELSE InList(col, c.op, Strs(Strings(c.values)), n)
    BY <1>2 DEF ResolveScalar, Equality, Matching, Membership
  <2>2. HasScalarIn(d) => Renders(Resolved(ScalarIn(d, col, Strings(c.values), c.op = "_nin", n)), n)
    BY ScalarInRenders, ResolvedRenders
  <2>3. Renders(InList(col, c.op, Strs(Strings(c.values)), n), n)
    BY StringsIsSeq, StrsIsSeq, InListRenders
  <2> QED BY <2>1, <2>2, <2>3, BadValueIsBad, SkippedRenders
<1> QED BY <1>1, <1>2

LEMMA NumericRenders ==
  ASSUME NEW col, NEW c, IsSeq(c.values), NEW n \in Nat,
         c.op \in Equality \cup Membership \cup Ordering \cup {"_between"},
         ResolveNumeric(col, c, n).ok
  PROVE  Renders(ResolveNumeric(col, c, n), n)
<1> DEFINE v == First(c.values)
           bad == SelectInSeq(c.values, LAMBDA x : ~IsFloat(x))
<1>1. CASE c.op \in Equality \cup Ordering
  <2>1. ResolveNumeric(col, c, n) =
          IF IsFloat(v) THEN Compare(col, c.op, <<"num", AsFloat(v)>>, n) ELSE BadValue(<<>>)
    BY <1>1 DEF ResolveNumeric, Equality, Ordering, Membership
  <2> QED BY <2>1, CompareRenders, BadValueIsBad
<1>2. CASE c.op \in Membership
  <2>1. ResolveNumeric(col, c, n) =
          IF c.values = <<>> THEN Skipped
          ELSE IF bad # 0 THEN BadValue(Floats(SubSeq(c.values, 1, bad - 1)))
          ELSE InList(col, c.op, Floats(c.values), n)
    BY <1>2 DEF ResolveNumeric, Equality, Ordering, Membership
  <2> QED BY <2>1, FloatsIsSeq, InListRenders, BadValueIsBad, SkippedRenders
<1>3. CASE c.op = "_between"
  <2>1. ResolveNumeric(col, c, n) =
          IF Len(c.values) = 2 /\ IsFloat(c.values[1]) /\ IsFloat(c.values[2])
          THEN Resolved(One("BETWEEN", col, n, Floats(c.values)))
          ELSE BadValue(<<>>)
    BY <1>3 DEF ResolveNumeric, Equality, Ordering, Membership
  <2> QED BY <2>1, FloatsIsSeq, OneRenders, ResolvedRenders, BadValueIsBad
<1> QED BY <1>1, <1>2, <1>3

LEMMA TimestampRenders ==
  ASSUME NEW d, NEW col, NEW c, IsSeq(c.values), NEW n \in Nat, ResolveTimestamp(d, col, c, n).ok
  PROVE  Renders(ResolveTimestamp(d, col, c, n), n)
<1>1. ASSUME NEW lo, NEW hi
      PROVE  Renders(Around(col, lo, hi), n)
  <2> DEFINE token == [sym |-> "BETWEEN now", col |-> col, lit |-> <<lo, hi>>, slots |-> <<>>]
  <2>1. DOMAIN token.slots = {} /\ (n + 1) .. n = {}
    OBVIOUS
  <2> HIDE DEF token
  <2>2. IsSeq(<<token>>) /\ DOMAIN <<token>> = {1} /\ <<token>>[1] = token
    BY IsSeqOne
  <2>3. InOrder(<<token>>, n, n)
    BY <2>1, <2>2, InOrderByPosition
  <2>4. Shows(<<token>>, n, n)
    BY <2>2, <2>3 DEF Shows
  <2>5. Renders([text |-> <<token>>, args |-> <<>>], n)
    BY <2>4, NothingRenders DEF Renders, Nothing
  <2> QED BY <2>5, ResolvedRenders DEF Around, token
<1>2. Renders(Resolved(One("BETWEEN", col, n, Strs(Strings(c.values)))), n)
  BY StringsIsSeq, StrsIsSeq, OneRenders, ResolvedRenders
<1>3. \A x : Renders(Compare(col, c.op, x, n), n)
  BY CompareRenders
<1> QED BY <1>1, <1>2, <1>3, BadValueIsBad DEF ResolveTimestamp, Relative

\* What a dialect returns, as a record.
LEMMA DialectRecords ==
  ASSUME NEW d \in Dialect, NEW col, NEW x, NEW all, NEW n
  PROVE  /\ LET r == ArrayContains(d, col, x, all, n) IN r = [text |-> r.text, args |-> r.args]
         /\ LET r == MapHasKeys(d, col, x, n) IN r = [text |-> r.text, args |-> r.args]
         /\ LET r == MapHasKeyValues(d, col, x, n) IN r = [text |-> r.text, args |-> r.args]
<1> DEFINE IsRecord(r) == r = [text |-> r.text, args |-> r.args]
<1>1. \A sym, bound : IsRecord(One(sym, col, n, bound))
  BY DEF One
<1>2. \A sym, k, count, bound : IsRecord(Joined(sym, col, n, k, count, bound))
  BY DEF Joined
<1>3. IsRecord(Nothing)
  BY DEF Nothing
<1> HIDE DEF IsRecord
<1>4. \A sym, tag : IsRecord(EachPair(sym, tag, col, x, n))
  BY <1>2, <1>3 DEF EachPair
<1>5. d \in {"clickhouse", "postgres", "sqlite", "mysql"}
  BY DEF Dialect
<1>6. IsRecord(ArrayContains(d, col, x, all, n))
  BY <1>1, <1>5
  DEF ArrayContains, ClickHouseArrayContains, PostgresArrayContains, SQLiteArrayContains, MySQLArrayContains
<1>7. IsRecord(MapHasKeys(d, col, x, n))
  BY <1>1, <1>2, <1>5
  DEF MapHasKeys, ClickHouseMapHasKeys, PostgresMapHasKeys, SQLiteMapHasKeys, MySQLMapHasKeys
<1>8. IsRecord(MapHasKeyValues(d, col, x, n))
  BY <1>4, <1>5
  DEF MapHasKeyValues, ClickHouseMapHasKeyValues, PostgresMapHasKeyValues, SQLiteMapHasKeyValues,
      MySQLMapHasKeyValues
<1> QED BY <1>6, <1>7, <1>8 DEF IsRecord

LEMMA ArrayRenders ==
  ASSUME NEW d \in Dialect, NEW col, NEW c, IsSeq(c.values), NEW n \in Nat,
         ResolveArray(d, col, c, n).ok
  PROVE  Renders(ResolveArray(d, col, c, n), n)
<1> DEFINE all == c.op \in {"_contains", "_not_contains"}
           r == ArrayContains(d, col, Strings(c.values), all, n)
<1>1. Renders(r, n)
  BY StringsIsSeq, ArrayContainsRenders
<1>2. r = [text |-> r.text, args |-> r.args]
  BY DialectRecords
<1>3. Renders(NegateIf(c.op \in {"_not_contains", "_not_contains_any"}, r), n)
  BY <1>1, <1>2, NegateIfRenders
<1> QED BY <1>3, BadValueIsBad, SkippedRenders DEF ResolveArray

LEMMA MapRenders ==
  ASSUME NEW d \in Dialect, NEW col, NEW c, c.pairs \in Seq(KeyValue), NEW n \in Nat
  PROVE  Renders(ResolveMap(d, col, c, n), n)
<1>1. CASE c.pairs = <<>>
  BY <1>1, SkippedRenders DEF ResolveMap
<1>2. CASE c.pairs # <<>>
  <2> DEFINE keys == [i \in DOMAIN c.pairs |-> c.pairs[i].key]
             r == IF c.op \in KeyTests THEN MapHasKeys(d, col, keys, n)
                  ELSE MapHasKeyValues(d, col, c.pairs, n)
  <2>1. Len(c.pairs) \in Nat /\ Len(c.pairs) # 0 /\ DOMAIN c.pairs = 1 .. Len(c.pairs)
    BY <1>2, LenProperties, EmptySeq
  <2>2. keys = [i \in 1 .. Len(c.pairs) |-> keys[i]]
    BY <2>1
  <2> HIDE DEF keys
  <2>3. IsSeq(keys) /\ Len(keys) = Len(c.pairs)
    BY <2>1, <2>2, IsSeqFunction
  <2>4. keys # <<>>
    BY <2>1, <2>3, IsSeqLen
  <2>5. Renders(r, n)
    BY <2>3, <2>4, MapHasKeysRenders, MapHasKeyValuesRenders
  <2>6. r = [text |-> r.text, args |-> r.args]
    BY DialectRecords
  <2>7. ResolveMap(d, col, c, n) = NegateIf(c.op \in {"_not_has_keys", "_not_has_key_values"}, r)
    BY <1>2 DEF ResolveMap, keys
  <2> HIDE DEF r
  <2> QED BY <2>5, <2>6, <2>7, NegateIfRenders
<1> QED BY <1>1, <1>2

\* Whatever the field, the operator and the values: if they can be coerced, the
\* text shows the arguments that were bound for it, in their order.
LEMMA ResolveRenders ==
  ASSUME NEW d \in Dialect, NEW f, NEW col, NEW c, IsSeq(c.values), c.pairs \in Seq(KeyValue),
         NEW n \in Nat, Allows(f, c.op), Resolve(d, f, col, c, n).ok
  PROVE  Renders(Resolve(d, f, col, c, n), n)
<1>1. CASE c.op \in NullTests
  <2>1. IsSeq(<<>>)
    BY EmptySeq, IsSeqIntro
  <2>2. \A sym : Renders(Resolved(One(sym, col, n, <<>>)), n)
    BY <2>1, OneRenders, ResolvedRenders
  <2> QED BY <1>1, <2>2 DEF Resolve, NullTests
<1>2. CASE c.op \notin NullTests
  <2>1. c.op # "_is_null" /\ c.op # "_is_not_null"
    BY <1>2 DEF NullTests
  <2>2. f.type \in {"string", "id", "int", "float", "bool", "timestamp", "enum", "array", "map"}
    BY <1>2, AllowedOperator
  <2>3. CASE f.type \in {"string", "id", "enum"}
    <3>1. Resolve(d, f, col, c, n) = ResolveScalar(d, f, col, c, n)
      BY <2>1, <2>3 DEF Resolve
    <3> QED BY <1>2, <2>3, <3>1, AllowedOperator, ScalarRenders
  <2>4. CASE f.type \in {"int", "float"}
    <3>1. Resolve(d, f, col, c, n) = ResolveNumeric(col, c, n)
      BY <2>1, <2>4 DEF Resolve
    <3> QED BY <1>2, <2>4, <3>1, AllowedOperator, NumericRenders
  <2>5. CASE f.type = "bool"
    <3>1. Resolve(d, f, col, c, n) = ResolveBool(col, c, n)
      BY <2>1, <2>5 DEF Resolve
    <3> QED BY <3>1, CompareRenders, BadValueIsBad DEF ResolveBool
  <2>6. CASE f.type = "timestamp"
    <3>1. Resolve(d, f, col, c, n) = ResolveTimestamp(d, col, c, n)
      BY <2>1, <2>6 DEF Resolve
    <3> QED BY <3>1, TimestampRenders
  <2>7. CASE f.type = "array"
    <3>1. Resolve(d, f, col, c, n) = ResolveArray(d, col, c, n)
      BY <2>1, <2>7 DEF Resolve
    <3> QED BY <3>1, ArrayRenders
  <2>8. CASE f.type = "map"
    <3>1. Resolve(d, f, col, c, n) = ResolveMap(d, col, c, n)
      BY <2>1, <2>8 DEF Resolve
    <3> QED BY <3>1, MapRenders
  <2> QED BY <2>2, <2>3, <2>4, <2>5, <2>6, <2>7, <2>8
<1> QED BY <1>1, <1>2

(***************************************************************************)
(* Columns.  A word has none.                                              *)
(***************************************************************************)
\* The columns that text mentions are among cols; it mentions one of cols.
Over(text, cols) == IsSeq(text) /\ \A i \in DOMAIN text : text[i].col \in cols \cup {""}
Touches(text, cols) == \E i \in DOMAIN text : text[i].col \in cols

LEMMA OverNothing == ASSUME NEW cols PROVE Over(<<>>, cols)
<1>1. IsSeq(<<>>)
  BY EmptySeq, IsSeqIntro
<1>2. DOMAIN <<>> = {}
  OBVIOUS
<1> QED BY <1>1, <1>2 DEF Over

LEMMA OverWord == ASSUME NEW w, NEW cols PROVE Over(<<Word(w)>>, cols)
<1>1. IsSeq(<<Word(w)>>) /\ DOMAIN <<Word(w)>> = {1} /\ <<Word(w)>>[1] = Word(w)
  BY IsSeqOne
<1>2. Word(w).col = ""
  BY DEF Word
<1> QED BY <1>1, <1>2 DEF Over

LEMMA OverMore ==
  ASSUME NEW text, NEW some, NEW all, Over(text, some), some \subseteq all
  PROVE  Over(text, all)
BY DEF Over

LEMMA OverConcat ==
  ASSUME NEW s, NEW t, NEW cols, Over(s, cols), Over(t, cols)
  PROVE  Over(s \o t, cols)
<1>1. IsSeq(s) /\ IsSeq(t) /\ Len(s) \in Nat /\ Len(t) \in Nat
      /\ DOMAIN s = 1 .. Len(s) /\ DOMAIN t = 1 .. Len(t)
  BY IsSeqLen DEF Over
<1>2. /\ IsSeq(s \o t) /\ Len(s \o t) = Len(s) + Len(t)
      /\ DOMAIN (s \o t) = 1 .. Len(s) + Len(t)
      /\ \A i \in 1 .. Len(s) : (s \o t)[i] = s[i]
      /\ \A i \in 1 .. Len(t) : (s \o t)[Len(s) + i] = t[i]
  BY <1>1, IsSeqConcat, IsSeqLen
<1> DEFINE u == s \o t
<1> HIDE DEF u
<1>3. ASSUME NEW i \in DOMAIN u
      PROVE  u[i].col \in cols \cup {""}
  <2>1. i \in 1 .. Len(s) \/ (i - Len(s) \in 1 .. Len(t) /\ Len(s) + (i - Len(s)) = i)
    BY <1>1, <1>2 DEF u
  <2>2. u[i] = s[i] \/ u[i] = t[i - Len(s)]
    BY <1>2, <2>1 DEF u
  <2>3. CASE i \in 1 .. Len(s)
    BY <1>1, <1>2, <2>3 DEF u, Over
  <2>4. CASE i - Len(s) \in 1 .. Len(t) /\ Len(s) + (i - Len(s)) = i
    <3>1. u[i] = t[i - Len(s)]
      BY <1>2, <2>4 DEF u
    <3> QED BY <1>1, <2>4, <3>1 DEF Over
  <2> QED BY <2>1, <2>3, <2>4
<1> QED BY <1>2, <1>3 DEF Over, u

\* A text mentions what a part of it mentions.
LEMMA TouchesConcat ==
  ASSUME NEW s, NEW t, NEW cols, IsSeq(s), IsSeq(t), Touches(s, cols) \/ Touches(t, cols)
  PROVE  Touches(s \o t, cols)
<1>1. Len(s) \in Nat /\ Len(t) \in Nat /\ DOMAIN s = 1 .. Len(s) /\ DOMAIN t = 1 .. Len(t)
  BY IsSeqLen
<1>2. /\ DOMAIN (s \o t) = 1 .. Len(s) + Len(t)
      /\ \A i \in 1 .. Len(s) : (s \o t)[i] = s[i]
      /\ \A i \in 1 .. Len(t) : (s \o t)[Len(s) + i] = t[i]
  BY <1>1, IsSeqConcat, IsSeqLen
<1> DEFINE u == s \o t
<1> HIDE DEF u
<1>3. CASE Touches(s, cols)
  <2>1. PICK i \in 1 .. Len(s) : s[i].col \in cols
    BY <1>1, <1>3 DEF Touches
  <2>2. i \in DOMAIN u /\ u[i] = s[i]
    BY <1>1, <1>2, <2>1 DEF u
  <2> QED BY <2>1, <2>2 DEF Touches, u
<1>4. CASE Touches(t, cols)
  <2>1. PICK i \in 1 .. Len(t) : t[i].col \in cols
    BY <1>1, <1>4 DEF Touches
  <2>2. Len(s) + i \in DOMAIN u /\ u[Len(s) + i] = t[i]
    BY <1>1, <1>2, <2>1 DEF u
  <2> QED BY <2>1, <2>2 DEF Touches, u
<1> QED BY <1>3, <1>4

LEMMA NegatedOver ==
  ASSUME NEW text, NEW cols, Over(text, cols)
  PROVE  Over(Negated(text), cols) /\ \A some : Touches(text, some) => Touches(Negated(text), some)
<1> DEFINE open == <<Word("NOT"), Word("(")>>
           rest == <<Word(")")>>
<1>1. open = <<Word("NOT")>> \o <<Word("(")>>
  OBVIOUS
<1>2. Over(open, cols) /\ Over(rest, cols)
  <2>1. Over(<<Word("NOT")>>, cols) /\ Over(<<Word("(")>>, cols) /\ Over(<<Word(")")>>, cols)
    BY OverWord
  <2>2. Over(<<Word("NOT")>> \o <<Word("(")>>, cols)
    BY <2>1, OverConcat
  <2> QED BY <1>1, <2>1, <2>2
<1>3. Negated(text) = open \o text \o rest
  BY DEF Negated
<1> HIDE DEF open, rest
<1>4. IsSeq(open) /\ IsSeq(text) /\ IsSeq(rest) /\ IsSeq(open \o text)
  BY <1>2, IsSeqConcat DEF Over
<1>5. Over(open \o text, cols)
  BY <1>2, OverConcat
<1> QED BY <1>2, <1>3, <1>4, <1>5, OverConcat, TouchesConcat

(***************************************************************************)
(* What a renderer returned mentions col, if it is anything, and no other  *)
(* column.                                                                 *)
(***************************************************************************)
Reads(r, col) == Over(r.text, {col}) /\ (r.text # <<>> => Touches(r.text, {col}))

LEMMA NothingReads == ASSUME NEW col PROVE Reads(Nothing, col)
BY OverNothing DEF Reads, Nothing

LEMMA OneReads == ASSUME NEW sym, NEW col, NEW n, NEW bound PROVE Reads(One(sym, col, n, bound), col)
<1> DEFINE token == Predicate(sym, col, n, Len(bound))
<1>1. token.col = col
  BY DEF Predicate
<1> HIDE DEF token
<1>2. IsSeq(<<token>>) /\ DOMAIN <<token>> = {1} /\ <<token>>[1] = token
  BY IsSeqOne
<1>3. One(sym, col, n, bound).text = <<token>>
  BY DEF One, token
<1> QED BY <1>1, <1>2, <1>3 DEF Reads, Over, Touches

LEMMA JoinedReads ==
  ASSUME NEW sym, NEW col, NEW n, NEW k, NEW count \in Nat, count # 0, NEW bound
  PROVE  Reads(Joined(sym, col, n, k, count, bound), col)
<1> DEFINE text == [i \in 1 .. 2 * count - 1 |->
                      IF i % 2 = 1 THEN Predicate(sym, col, n + k * ((i - 1) \div 2), k)
                                   ELSE Word("AND")]
<1>1. 2 * count - 1 \in Nat /\ 1 \in 1 .. 2 * count - 1 /\ 1 % 2 = 1
  OBVIOUS
<1>2. IsSeq(text) /\ DOMAIN text = 1 .. 2 * count - 1
  BY <1>1, IsSeqFunction
<1>3. \A i \in 1 .. 2 * count - 1 :
        text[i].col = col \/ text[i].col = ""
  BY DEF Predicate, Word
<1>4. text[1].col = col
  BY <1>1 DEF Predicate
<1>5. Joined(sym, col, n, k, count, bound).text = text
  BY DEF Joined
<1> HIDE DEF text
<1> QED BY <1>1, <1>2, <1>3, <1>4, <1>5 DEF Reads, Over, Touches

LEMMA JoinedWrites ==
  ASSUME NEW sym, NEW col, NEW n, NEW k, NEW count \in Nat, count # 0, NEW bound
  PROVE  Joined(sym, col, n, k, count, bound).text # <<>>
<1> DEFINE m == 2 * count - 1
           text == [i \in 1 .. m |->
                      IF i % 2 = 1 THEN Predicate(sym, col, n + k * ((i - 1) \div 2), k) ELSE Word("AND")]
<1>1. Joined(sym, col, n, k, count, bound).text = text
  BY DEF Joined
<1>2. 1 \in 1 .. m
  OBVIOUS
<1> HIDE DEF m
<1>3. 1 \in DOMAIN text
  BY <1>2
<1> QED BY <1>1, <1>3

LEMMA EachPairReads ==
  ASSUME NEW sym, NEW keyTag, NEW col, NEW pairs \in Seq(KeyValue), NEW n
  PROVE  Reads(EachPair(sym, keyTag, col, pairs, n), col)
<1> DEFINE kvs == KeyValues(pairs)
<1>1. \E bound : EachPair(sym, keyTag, col, pairs, n) =
        IF kvs = <<>> THEN Nothing ELSE Joined(sym, col, n, 2, Len(kvs), bound)
  BY DEF EachPair
<1>2. IsSeq(kvs)
  BY KeyValuesIsSeq
<1> HIDE DEF kvs
<1>3. kvs # <<>> => Len(kvs) \in Nat /\ Len(kvs) # 0
  BY <1>2, IsSeqLen
<1> QED BY <1>1, <1>3, NothingReads, JoinedReads

LEMMA LikeReads ==
  ASSUME NEW d \in Dialect, NEW col, NEW pattern, NEW match, NEW n
  PROVE  Reads(Like(d, col, pattern, match, n), col)
BY OneReads DEF Dialect, Like, ClickHouseLike, PostgresLike, SQLiteLike, MySQLLike

LEMMA ArrayContainsReads ==
  ASSUME NEW d \in Dialect, NEW col, NEW vals, NEW all, NEW n
  PROVE  Reads(ArrayContains(d, col, vals, all, n), col)
BY OneReads
   DEF Dialect, ArrayContains, ClickHouseArrayContains, PostgresArrayContains, SQLiteArrayContains,
       MySQLArrayContains

LEMMA MapHasKeysReads ==
  ASSUME NEW d \in Dialect, NEW col, NEW keys, IsSeq(keys), keys # <<>>, NEW n
  PROVE  Reads(MapHasKeys(d, col, keys, n), col)
<1>1. Len(keys) \in Nat /\ Len(keys) # 0
  BY IsSeqLen
<1>2. \A sym, bound : Reads(Joined(sym, col, n, 1, Len(keys), bound), col)
  BY <1>1, JoinedReads
<1> QED
  BY <1>2, OneReads
  DEF Dialect, MapHasKeys, ClickHouseMapHasKeys, PostgresMapHasKeys, SQLiteMapHasKeys, MySQLMapHasKeys

LEMMA MapHasKeyValuesReads ==
  ASSUME NEW d \in Dialect, NEW col, NEW pairs \in Seq(KeyValue), NEW n
  PROVE  Reads(MapHasKeyValues(d, col, pairs, n), col)
BY EachPairReads
   DEF Dialect, MapHasKeyValues, ClickHouseMapHasKeyValues, PostgresMapHasKeyValues,
       SQLiteMapHasKeyValues, MySQLMapHasKeyValues

LEMMA ScalarInReads ==
  ASSUME NEW d, HasScalarIn(d), NEW col, NEW vals, NEW negate, NEW n
  PROVE  Reads(ScalarIn(d, col, vals, negate, n), col)
BY OneReads DEF HasScalarIn, ScalarIn, PostgresScalarIn, SQLiteScalarIn

LEMMA ResolvedReads == ASSUME NEW r, NEW col, Reads(r, col) PROVE Reads(Resolved(r), col)
BY DEF Reads, Resolved

LEMMA SkippedReads == ASSUME NEW col PROVE Reads(Skipped, col)
BY NothingReads, ResolvedReads DEF Skipped

LEMMA BadValueReads == ASSUME NEW col, NEW bound PROVE Reads(BadValue(bound), col)
BY OverNothing DEF Reads, BadValue

LEMMA CompareReads == ASSUME NEW col, NEW op, NEW arg, NEW n PROVE Reads(Compare(col, op, arg, n), col)
BY OneReads, ResolvedReads DEF Compare

LEMMA InListReads == ASSUME NEW col, NEW op, NEW bound, NEW n PROVE Reads(InList(col, op, bound, n), col)
BY OneReads, ResolvedReads DEF InList

LEMMA AroundReads == ASSUME NEW col, NEW lo, NEW hi PROVE Reads(Around(col, lo, hi), col)
<1> DEFINE token == [sym |-> "BETWEEN now", col |-> col, lit |-> <<lo, hi>>, slots |-> <<>>]
<1>1. token.col = col
  OBVIOUS
<1> HIDE DEF token
<1>2. IsSeq(<<token>>) /\ DOMAIN <<token>> = {1} /\ <<token>>[1] = token
  BY IsSeqOne
<1>3. Around(col, lo, hi).text = <<token>>
  BY DEF Around, Resolved, token
<1> QED BY <1>1, <1>2, <1>3 DEF Reads, Over, Touches

LEMMA NegateIfReads ==
  ASSUME NEW r, NEW col, Reads(r, col), NEW negative, r = [text |-> r.text, args |-> r.args]
  PROVE  /\ Over(NegateIf(negative, r).text, {col})
         /\ r.text # <<>> \/ ~negative => Reads(NegateIf(negative, r), col)
<1>1. NegateIf(negative, r).text = IF negative THEN Negated(r.text) ELSE r.text
  BY DEF NegateIf, Resolved
<1>2. Over(Negated(r.text), {col}) /\ (r.text # <<>> => Touches(Negated(r.text), {col}))
  BY NegatedOver DEF Reads
<1> QED BY <1>1, <1>2 DEF Reads

LEMMA ScalarReads ==
  ASSUME NEW d \in Dialect, NEW f, NEW col, NEW c, NEW n, c.op \in Equality \cup Membership \cup Matching
  PROVE  Reads(ResolveScalar(d, f, col, c, n), col)
<1>1. CASE c.op \in Equality \cup Matching
  <2> DEFINE s == AsString(First(c.values))
  <2>1. \/ ResolveScalar(d, f, col, c, n) = BadValue(<<>>)
        \/ ResolveScalar(d, f, col, c, n) = Compare(col, c.op, <<"str", s>>, n)
        \/ ResolveScalar(d, f, col, c, n) = Resolved(Like(d, col, s, Anchor[c.op], n))
    BY <1>1 DEF ResolveScalar, Equality, Matching, Membership
  <2> QED BY <2>1, BadValueReads, CompareReads, LikeReads, ResolvedReads
<1>2. CASE c.op \in Membership
  <2>1. \/ ResolveScalar(d, f, col, c, n) = BadValue(<<>>)
        \/ ResolveScalar(d, f, col, c, n) = Skipped
        \/ /\ HasScalarIn(d)
           /\ ResolveScalar(d, f, col, c, n) = Resolved(ScalarIn(d, col, Strings(c.values), c.op = "_nin", n))
        \/ ResolveScalar(d, f, col, c, n) = InList(col, c.op, Strs(Strings(c.values)), n)
    BY <1>2 DEF ResolveScalar, Equality, Matching, Membership
  <2> QED BY <2>1, BadValueReads, SkippedReads, ScalarInReads, ResolvedReads, InListReads
<1> QED BY <1>1, <1>2

LEMMA NumericReads ==
  ASSUME NEW col, NEW c, NEW n, c.op \in Equality \cup Membership \cup Ordering \cup {"_between"}
  PROVE  Reads(ResolveNumeric(col, c, n), col)
<1>1. CASE c.op \in Equality \cup Ordering
  <2>1. \/ ResolveNumeric(col, c, n) = Compare(col, c.op, <<"num", AsFloat(First(c.values))>>, n)
        \/ ResolveNumeric(col, c, n) = BadValue(<<>>)
    BY <1>1 DEF ResolveNumeric, Equality, Ordering, Membership
  <2> QED BY <2>1, CompareReads, BadValueReads
<1>2. CASE c.op \in Membership
  <2>1. \/ ResolveNumeric(col, c, n) = Skipped
        \/ \E bound : ResolveNumeric(col, c, n) = BadValue(bound)
        \/ ResolveNumeric(col, c, n) = InList(col, c.op, Floats(c.values), n)
    BY <1>2 DEF ResolveNumeric, Equality, Ordering, Membership
  <2> QED BY <2>1, SkippedReads, BadValueReads, InListReads
<1>3. CASE c.op = "_between"
  <2>1. \/ ResolveNumeric(col, c, n) = Resolved(One("BETWEEN", col, n, Floats(c.values)))
        \/ ResolveNumeric(col, c, n) = BadValue(<<>>)
    BY <1>3 DEF ResolveNumeric, Equality, Ordering, Membership
  <2> QED BY <2>1, OneReads, ResolvedReads, BadValueReads
<1> QED BY <1>1, <1>2, <1>3

LEMMA TimestampReads ==
  ASSUME NEW d, NEW col, NEW c, NEW n
  PROVE  Reads(ResolveTimestamp(d, col, c, n), col)
<1>1. \/ ResolveTimestamp(d, col, c, n) = Resolved(One("BETWEEN", col, n, Strs(Strings(c.values))))
      \/ ResolveTimestamp(d, col, c, n) = BadValue(<<>>)
      \/ \E lo, hi : ResolveTimestamp(d, col, c, n) = Around(col, lo, hi)
      \/ ResolveTimestamp(d, col, c, n) = Compare(col, c.op, <<"str", AsString(First(c.values))>>, n)
  BY DEF ResolveTimestamp, Relative
<1> QED BY <1>1, OneReads, ResolvedReads, BadValueReads, AroundReads, CompareReads

LEMMA ArrayReads ==
  ASSUME NEW d \in Dialect, NEW col, NEW c, NEW n
  PROVE  Reads(ResolveArray(d, col, c, n), col)
<1> DEFINE all == c.op \in {"_contains", "_not_contains"}
           r == ArrayContains(d, col, Strings(c.values), all, n)
           negative == c.op \in {"_not_contains", "_not_contains_any"}
<1>1. \/ ResolveArray(d, col, c, n) = BadValue(<<>>)
      \/ ResolveArray(d, col, c, n) = Skipped
      \/ ResolveArray(d, col, c, n) = NegateIf(negative, r)
  BY DEF ResolveArray
<1>2. r = [text |-> r.text, args |-> r.args] /\ Reads(r, col)
  BY DialectRecords, ArrayContainsReads
<1>3. r.text # <<>>
  <2>1. \A sym, bound : One(sym, col, n, bound).text # <<>>
    BY DEF One
  <2> QED
    BY <2>1
    DEF Dialect, ArrayContains, ClickHouseArrayContains, PostgresArrayContains, SQLiteArrayContains,
        MySQLArrayContains
<1> HIDE DEF r, negative
<1>4. Reads(NegateIf(negative, r), col)
  BY <1>2, <1>3, NegateIfReads
<1> QED BY <1>1, <1>4, BadValueReads, SkippedReads DEF r, negative

\* "NOT ()" mentions no column: a negated test of keys that all have no values.
LEMMA MapReads ==
  ASSUME NEW d \in Dialect, NEW col, NEW c, c.pairs \in Seq(KeyValue), NEW n
  PROVE  /\ Over(ResolveMap(d, col, c, n).text, {col})
         /\ SaysSomething(c) => Reads(ResolveMap(d, col, c, n), col)
<1>1. CASE c.pairs = <<>>
  <2>1. Reads(ResolveMap(d, col, c, n), col)
    BY <1>1, SkippedReads DEF ResolveMap
  <2> QED BY <2>1 DEF Reads
<1>2. CASE c.pairs # <<>>
  <2> DEFINE keys == [i \in DOMAIN c.pairs |-> c.pairs[i].key]
             r == IF c.op \in KeyTests THEN MapHasKeys(d, col, keys, n)
                  ELSE MapHasKeyValues(d, col, c.pairs, n)
             negative == c.op \in {"_not_has_keys", "_not_has_key_values"}
  <2>1. Len(c.pairs) \in Nat /\ Len(c.pairs) # 0 /\ DOMAIN c.pairs = 1 .. Len(c.pairs)
    BY <1>2, LenProperties, EmptySeq
  <2>2. keys = [i \in 1 .. Len(c.pairs) |-> keys[i]]
    BY <2>1
  <2>3. ResolveMap(d, col, c, n) = NegateIf(negative, r)
    BY <1>2 DEF ResolveMap
  <2> HIDE DEF keys
  <2>4. IsSeq(keys) /\ Len(keys) = Len(c.pairs)
    BY <2>1, <2>2, IsSeqFunction
  <2>5. keys # <<>>
    BY <2>1, <2>4, IsSeqLen
  <2>6. Reads(r, col)
    BY <2>4, <2>5, MapHasKeysReads, MapHasKeyValuesReads
  <2>7. r = [text |-> r.text, args |-> r.args]
    BY DialectRecords
  <2>8. SaysSomething(c) /\ negative => r.text # <<>>
    <3>1. \A sym, bound : One(sym, col, n, bound).text # <<>>
      BY DEF One
    <3>2. \A sym, k, count, bound : count \in Nat /\ count # 0 => Joined(sym, col, n, k, count, bound).text # <<>>
      BY JoinedWrites
    <3>3. Len(keys) \in Nat /\ Len(keys) # 0
      BY <2>1, <2>4
    <3>4. MapHasKeys(d, col, keys, n).text # <<>>
      BY <3>1, <3>2, <3>3
      DEF Dialect, MapHasKeys, ClickHouseMapHasKeys, PostgresMapHasKeys, SQLiteMapHasKeys, MySQLMapHasKeys
    <3>5. ASSUME KeyValues(c.pairs) # <<>>
          PROVE  MapHasKeyValues(d, col, c.pairs, n).text # <<>>
      <4>1. IsSeq(KeyValues(c.pairs))
        BY KeyValuesIsSeq
      <4>2. Len(KeyValues(c.pairs)) \in Nat /\ Len(KeyValues(c.pairs)) # 0
        BY <3>5, <4>1, IsSeqLen
      <4>3. \A sym, tag : \E bound :
              EachPair(sym, tag, col, c.pairs, n) = Joined(sym, col, n, 2, Len(KeyValues(c.pairs)), bound)
        BY <3>5 DEF EachPair
      <4>4. \A sym, tag : EachPair(sym, tag, col, c.pairs, n).text # <<>>
        BY <3>2, <4>2, <4>3
      <4> QED
        BY <4>4
        DEF Dialect, MapHasKeyValues, ClickHouseMapHasKeyValues, PostgresMapHasKeyValues,
            SQLiteMapHasKeyValues, MySQLMapHasKeyValues
    <3> QED BY <1>2, <3>4, <3>5 DEF SaysSomething, KeyTests
  <2> HIDE DEF r, negative
  <2> QED BY <2>3, <2>6, <2>7, <2>8, NegateIfReads DEF Reads
<1> QED BY <1>1, <1>2

\* Whatever the field, the operator and the values, the text mentions no column
\* but the one it is about; and that one, if it says anything.
LEMMA ResolveReads ==
  ASSUME NEW d \in Dialect, NEW f, NEW col, NEW c, c.pairs \in Seq(KeyValue), NEW n, Allows(f, c.op)
  PROVE  /\ Over(Resolve(d, f, col, c, n).text, {col})
         /\ SaysSomething(c) => Reads(Resolve(d, f, col, c, n), col)
<1>1. CASE c.op \in NullTests
  <2>1. \A sym : Reads(Resolved(One(sym, col, n, <<>>)), col)
    BY OneReads, ResolvedReads
  <2>2. Reads(Resolve(d, f, col, c, n), col)
    BY <1>1, <2>1 DEF Resolve, NullTests
  <2> QED BY <2>2 DEF Reads
<1>2. CASE c.op \notin NullTests
  <2>1. c.op # "_is_null" /\ c.op # "_is_not_null"
    BY <1>2 DEF NullTests
  <2>2. f.type \in {"string", "id", "int", "float", "bool", "timestamp", "enum", "array", "map"}
    BY <1>2, AllowedOperator
  <2>3. CASE f.type \in {"string", "id", "enum"}
    <3>1. Resolve(d, f, col, c, n) = ResolveScalar(d, f, col, c, n)
      BY <2>1, <2>3 DEF Resolve
    <3>2. Reads(Resolve(d, f, col, c, n), col)
      BY <1>2, <2>3, <3>1, AllowedOperator, ScalarReads
    <3> QED BY <3>2 DEF Reads
  <2>4. CASE f.type \in {"int", "float"}
    <3>1. Resolve(d, f, col, c, n) = ResolveNumeric(col, c, n)
      BY <2>1, <2>4 DEF Resolve
    <3>2. Reads(Resolve(d, f, col, c, n), col)
      BY <1>2, <2>4, <3>1, AllowedOperator, NumericReads
    <3> QED BY <3>2 DEF Reads
  <2>5. CASE f.type = "bool"
    <3>1. Resolve(d, f, col, c, n) = ResolveBool(col, c, n)
      BY <2>1, <2>5 DEF Resolve
    <3>2. Reads(Resolve(d, f, col, c, n), col)
      BY <3>1, CompareReads, BadValueReads DEF ResolveBool
    <3> QED BY <3>2 DEF Reads
  <2>6. CASE f.type = "timestamp"
    <3>1. Resolve(d, f, col, c, n) = ResolveTimestamp(d, col, c, n)
      BY <2>1, <2>6 DEF Resolve
    <3>2. Reads(Resolve(d, f, col, c, n), col)
      BY <3>1, TimestampReads
    <3> QED BY <3>2 DEF Reads
  <2>7. CASE f.type = "array"
    <3>1. Resolve(d, f, col, c, n) = ResolveArray(d, col, c, n)
      BY <2>1, <2>7 DEF Resolve
    <3>2. Reads(Resolve(d, f, col, c, n), col)
      BY <3>1, ArrayReads
    <3> QED BY <3>2 DEF Reads
  <2>8. CASE f.type = "map"
    <3>1. Resolve(d, f, col, c, n) = ResolveMap(d, col, c, n)
      BY <2>1, <2>8 DEF Resolve
    <3> QED BY <3>1, MapReads
  <2> QED BY <2>2, <2>3, <2>4, <2>5, <2>6, <2>7, <2>8
<1> QED BY <1>1, <1>2

(***************************************************************************)
(* What a failing operator leaves bound.                                   *)
(***************************************************************************)
LEMMA NumericBinds ==
  ASSUME NEW col, NEW c, IsSeq(c.values), NEW n, c.op \in Equality \cup Membership \cup Ordering \cup {"_between"},
         ~ResolveNumeric(col, c, n).ok
  PROVE  IsSeq(ResolveNumeric(col, c, n).args)
<1> DEFINE bad == SelectInSeq(c.values, LAMBDA x : ~IsFloat(x))
           found == {i \in 1 .. Len(c.values) : ~IsFloat(c.values[i])}
           before == SubSeq(c.values, 1, bad - 1)
           v == First(c.values)
<1>1. \/ ResolveNumeric(col, c, n) = BadValue(<<>>)
      \/ bad # 0 /\ ResolveNumeric(col, c, n) = BadValue(Floats(before))
  <2>1. CASE c.op \in Equality \cup Ordering
    <3>1. ResolveNumeric(col, c, n) =
            IF IsFloat(v) THEN Compare(col, c.op, <<"num", AsFloat(v)>>, n) ELSE BadValue(<<>>)
      BY <2>1 DEF ResolveNumeric, Equality, Ordering, Membership
    <3> QED BY <3>1 DEF Compare, Resolved
  <2>2. CASE c.op \in Membership
    <3>1. ResolveNumeric(col, c, n) =
            IF c.values = <<>> THEN Skipped
            ELSE IF bad # 0 THEN BadValue(Floats(before)) ELSE InList(col, c.op, Floats(c.values), n)
      BY <2>2 DEF ResolveNumeric, Equality, Ordering, Membership
    <3>2. \A r : Resolved(r).ok
      BY DEF Resolved
    <3>3. Skipped.ok /\ InList(col, c.op, Floats(c.values), n).ok
      BY <3>2 DEF Skipped, InList
    <3> HIDE DEF bad, before
    <3> QED BY <3>1, <3>3
  <2>3. CASE c.op = "_between"
    <3>1. ResolveNumeric(col, c, n) =
            IF Len(c.values) = 2 /\ IsFloat(c.values[1]) /\ IsFloat(c.values[2])
            THEN Resolved(One("BETWEEN", col, n, Floats(c.values)))
            ELSE BadValue(<<>>)
      BY <2>3 DEF ResolveNumeric, Equality, Ordering, Membership
    <3> QED BY <3>1 DEF Resolved
  <2> QED BY <2>1, <2>2, <2>3
<1>2. bad = IF found # {} THEN Min(found) ELSE 0
  BY DEF SelectInSeq
<1>3. Len(c.values) \in Nat
  BY IsSeqLen
<1>4. bad # 0 => IsSeq(Floats(before))
  <2> SUFFICES ASSUME bad # 0 PROVE IsSeq(Floats(before))
    OBVIOUS
  <2>1. found # {} /\ bad = Min(found)
    BY <1>2
  <2>2. found \subseteq Nat
    BY <1>3
  <2> HIDE DEF found, bad
  <2>3. \E x \in found : \A y \in found : x <= y
    BY <2>1, <2>2, Least
  <2>4. bad \in found
    BY <2>1, <2>3 DEF Min
  <2>5. bad - 1 \in Nat /\ bad - 1 <= Len(c.values)
    BY <1>3, <2>4 DEF found
  <2>6. IsSeq(before)
    BY <2>5, IsSeqPrefix
  <2> HIDE DEF before
  <2> QED BY <2>6, FloatsIsSeq
<1> HIDE DEF bad, before
<1>5. IsSeq(<<>>)
  BY EmptySeq, IsSeqIntro
<1> QED BY <1>1, <1>4, <1>5 DEF BadValue

LEMMA FailureBinds ==
  ASSUME NEW d, NEW f, NEW col, NEW c, IsSeq(c.values), NEW n, Allows(f, c.op),
         ~Resolve(d, f, col, c, n).ok
  PROVE  IsSeq(Resolve(d, f, col, c, n).args)
<1>1. IsSeq(<<>>)
  BY EmptySeq, IsSeqIntro
<1>2. \A r : Resolved(r).ok
  BY DEF Resolved
<1>3. c.op \notin NullTests
  BY <1>2 DEF Resolve, NullTests
<1>4. c.op # "_is_null" /\ c.op # "_is_not_null"
  BY <1>3 DEF NullTests
<1>5. f.type \in {"string", "id", "int", "float", "bool", "timestamp", "enum", "array", "map"}
  BY <1>3, AllowedOperator
<1>6. CASE f.type \in {"string", "id", "enum"}
  <2>1. Resolve(d, f, col, c, n) = ResolveScalar(d, f, col, c, n)
    BY <1>4, <1>6 DEF Resolve
  <2>2. c.op \in Equality \cup Membership \cup Matching
    BY <1>3, <1>6, AllowedOperator
  <2>3. ResolveScalar(d, f, col, c, n) = BadValue(<<>>)
    BY <1>2, <2>1, <2>2 DEF ResolveScalar, Compare, Skipped, InList
  <2> QED BY <1>1, <2>1, <2>3 DEF BadValue
<1>7. CASE f.type \in {"int", "float"}
  <2>1. Resolve(d, f, col, c, n) = ResolveNumeric(col, c, n)
    BY <1>4, <1>7 DEF Resolve
  <2>2. c.op \in Equality \cup Membership \cup Ordering \cup {"_between"}
    BY <1>3, <1>7, AllowedOperator
  <2> QED BY <2>1, <2>2, NumericBinds
<1>8. CASE f.type = "bool"
  <2>1. Resolve(d, f, col, c, n) = ResolveBool(col, c, n)
    BY <1>4, <1>8 DEF Resolve
  <2>2. ResolveBool(col, c, n) = BadValue(<<>>)
    BY <1>2, <2>1 DEF ResolveBool, Compare
  <2> QED BY <1>1, <2>1, <2>2 DEF BadValue
<1>9. CASE f.type = "timestamp"
  <2>1. Resolve(d, f, col, c, n) = ResolveTimestamp(d, col, c, n)
    BY <1>4, <1>9 DEF Resolve
  <2>2. ResolveTimestamp(d, col, c, n) = BadValue(<<>>)
    BY <1>2, <2>1 DEF ResolveTimestamp, Compare, Around
  <2> QED BY <1>1, <2>1, <2>2 DEF BadValue
<1>10. CASE f.type = "array"
  <2>1. Resolve(d, f, col, c, n) = ResolveArray(d, col, c, n)
    BY <1>4, <1>10 DEF Resolve
  <2>2. ResolveArray(d, col, c, n) = BadValue(<<>>)
    BY <1>2, <2>1 DEF ResolveArray, Skipped, NegateIf
  <2> QED BY <1>1, <2>1, <2>2 DEF BadValue
<1>11. CASE f.type = "map"
  <2>1. Resolve(d, f, col, c, n) = ResolveMap(d, col, c, n)
    BY <1>4, <1>11 DEF Resolve
  <2>2. ResolveMap(d, col, c, n).ok
    BY <1>2 DEF ResolveMap, Skipped, NegateIf
  <2> QED BY <2>1, <2>2
<1> QED BY <1>5, <1>6, <1>7, <1>8, <1>9, <1>10, <1>11

(***************************************************************************)
(* Types.  A text is in the symbols of its dialect.                        *)
(***************************************************************************)
LEMMA SymbolsOf ==
  /\ \A d : Shared \subseteq Symbols(d)
  /\ {"ILIKE", "hasAll", "hasAny", "mapContains", "[] ="} \subseteq Symbols("clickhouse")
  /\ {"ILIKE", "@>", "&&", "?", "?&", "= ANY", "<> ALL", "->> ="} \subseteq Symbols("postgres")
  /\ {"LIKE ESCAPE", "count distinct =", "EXISTS value IN", "EXISTS key", "IN json_each",
      "NOT IN json_each", "EXISTS key value"} \subseteq Symbols("sqlite")
  /\ {"LOWER LIKE", "JSON_CONTAINS", "JSON_OVERLAPS", "JSON_CONTAINS_PATH", "JSON_EXTRACT ="} \subseteq Symbols("mysql")
BY DEF Symbols, Own

LEMMA WordType ==
  ASSUME NEW d, NEW w \in {"AND", "OR", "NOT", "(", ")"}
  PROVE  Word(w) \in Token(d) /\ <<Word(w)>> \in Seq(Token(d))
<1>1. <<>> \in Seq(Int) /\ <<>> \in Seq(Nat)
  OBVIOUS
<1>2. w \in Symbols(d)
  BY SymbolsOf DEF Shared
<1>3. Word(w) \in Token(d)
  BY <1>1, <1>2 DEF Word, Token
<1> DEFINE T == Token(d)
           word == Word(w)
<1>4. word \in T
  BY <1>3
<1> HIDE DEF T, word
<1>5. <<word>> \in Seq(T)
  BY <1>4
<1> QED BY <1>3, <1>5 DEF T, word

LEMMA PredicateType ==
  ASSUME NEW d, NEW sym \in Symbols(d), NEW col \in ColumnNames, NEW n \in Nat, NEW k \in Nat
  PROVE  Predicate(sym, col, n, k) \in Token(d)
<1> DEFINE s == [i \in 1 .. k |-> n + i]
<1>1. s \in [1 .. k -> Nat]
  OBVIOUS
<1>2. s \in Seq(Nat)
  BY <1>1, SeqDef
<1>3. <<>> \in Seq(Int)
  OBVIOUS
<1>4. Predicate(sym, col, n, k) = [sym |-> sym, col |-> col, lit |-> <<>>, slots |-> s]
  BY DEF Predicate
<1> HIDE DEF s
<1>5. [sym |-> sym, col |-> col, lit |-> <<>>, slots |-> s] \in Token(d)
  BY <1>2, <1>3 DEF Token
<1> QED BY <1>4, <1>5

\* r is a text of d.
Tokens(d, r) == r.text \in Seq(Token(d))

LEMMA NothingType == ASSUME NEW d PROVE Tokens(d, Nothing)
BY DEF Tokens, Nothing

LEMMA OneToken ==
  ASSUME NEW d, NEW token \in Token(d), NEW r, r.text = <<token>> PROVE Tokens(d, r)
<1> DEFINE T == Token(d)
<1>1. token \in T
  OBVIOUS
<1> HIDE DEF T
<1>2. <<token>> \in Seq(T)
  BY <1>1
<1> QED BY <1>2 DEF Tokens, T

LEMMA OneType ==
  ASSUME NEW d, NEW sym \in Symbols(d), NEW col \in ColumnNames, NEW n \in Nat, NEW bound, IsSeq(bound)
  PROVE  Tokens(d, One(sym, col, n, bound))
<1>1. Predicate(sym, col, n, Len(bound)) \in Token(d)
  BY IsSeqLen, PredicateType
<1>2. One(sym, col, n, bound).text = <<Predicate(sym, col, n, Len(bound))>>
  BY DEF One
<1> QED BY <1>1, <1>2, OneToken

LEMMA JoinedType ==
  ASSUME NEW d, NEW sym \in Symbols(d), NEW col \in ColumnNames, NEW n \in Nat, NEW k \in {1, 2},
         NEW count \in Nat, count # 0, NEW bound
  PROVE  Tokens(d, Joined(sym, col, n, k, count, bound))
<1> DEFINE m == 2 * count - 1
           at(i) == n + k * ((i - 1) \div 2)
           text == [i \in 1 .. m |-> IF i % 2 = 1 THEN Predicate(sym, col, at(i), k) ELSE Word("AND")]
           T == Token(d)
<1>1. m \in Nat
  OBVIOUS
<1>2. \A i \in 1 .. m : at(i) \in Nat
  OBVIOUS
<1>3. Joined(sym, col, n, k, count, bound).text = text
  BY DEF Joined
<1> HIDE DEF m, at
<1>4. \A i \in 1 .. m : Predicate(sym, col, at(i), k) \in T
  BY <1>2, PredicateType
<1>5. Word("AND") \in T
  BY WordType
<1> HIDE DEF T
<1>6. text \in [1 .. m -> T]
  BY <1>4, <1>5
<1>7. text \in Seq(T)
  BY <1>1, <1>6, SeqDef
<1> QED BY <1>3, <1>7 DEF Tokens, T

LEMMA EachPairType ==
  ASSUME NEW d, NEW sym \in Symbols(d), NEW keyTag, NEW col \in ColumnNames,
         NEW pairs \in Seq(KeyValue), NEW n \in Nat
  PROVE  Tokens(d, EachPair(sym, keyTag, col, pairs, n))
<1> DEFINE kvs == KeyValues(pairs)
<1>1. \E bound : EachPair(sym, keyTag, col, pairs, n) =
        IF kvs = <<>> THEN Nothing ELSE Joined(sym, col, n, 2, Len(kvs), bound)
  BY DEF EachPair
<1>2. IsSeq(kvs)
  BY KeyValuesIsSeq
<1> HIDE DEF kvs
<1>3. kvs # <<>> => Len(kvs) \in Nat /\ Len(kvs) # 0
  BY <1>2, IsSeqLen
<1> QED BY <1>1, <1>3, NothingType, JoinedType

LEMMA LikeType ==
  ASSUME NEW d \in Dialect, NEW col \in ColumnNames, NEW pattern, NEW match, NEW n \in Nat
  PROVE  Tokens(d, Like(d, col, pattern, match, n))
<1>1. \A p : IsSeq(Needle(p, match))
  BY IsSeqOne DEF Needle
<1>2. \A sym \in Symbols(d) : \A p : Tokens(d, One(sym, col, n, Needle(p, match)))
  BY <1>1, OneType
<1> QED BY <1>2, SymbolsOf DEF Dialect, Like, ClickHouseLike, PostgresLike, SQLiteLike, MySQLLike

LEMMA ArrayContainsType ==
  ASSUME NEW d \in Dialect, NEW col \in ColumnNames, NEW vals, IsSeq(vals), NEW all, NEW n \in Nat
  PROVE  Tokens(d, ArrayContains(d, col, vals, all, n))
<1>1. IsSeq(List(vals)) /\ IsSeq(Strs(vals)) /\ IsSeq(Append(Strs(vals), <<"num", Len(vals)>>))
  BY IsSeqOne, StrsIsSeq, IsSeqAppend DEF List
<1>2. \A sym \in Symbols(d) : /\ Tokens(d, One(sym, col, n, List(vals)))
                              /\ Tokens(d, One(sym, col, n, Strs(vals)))
                              /\ Tokens(d, One(sym, col, n, Append(Strs(vals), <<"num", Len(vals)>>)))
  BY <1>1, OneType
<1> QED
  BY <1>2, SymbolsOf
  DEF Dialect, ArrayContains, ClickHouseArrayContains, PostgresArrayContains, SQLiteArrayContains,
      MySQLArrayContains

LEMMA MapHasKeysType ==
  ASSUME NEW d \in Dialect, NEW col \in ColumnNames, NEW keys, IsSeq(keys), keys # <<>>, NEW n \in Nat
  PROVE  Tokens(d, MapHasKeys(d, col, keys, n))
<1>1. Len(keys) \in Nat /\ Len(keys) # 0 /\ 1 \in {1, 2}
  BY IsSeqLen
<1>2. IsSeq(List(keys)) /\ IsSeq(Strs(keys))
  BY IsSeqOne, StrsIsSeq DEF List
<1>3. \A sym \in Symbols(d) : Tokens(d, One(sym, col, n, List(keys))) /\ Tokens(d, One(sym, col, n, Strs(keys)))
  BY <1>2, OneType
<1>4. \A sym \in Symbols(d) : \A bound : Tokens(d, Joined(sym, col, n, 1, Len(keys), bound))
  BY <1>1, JoinedType
<1> QED
  BY <1>3, <1>4, SymbolsOf
  DEF Dialect, MapHasKeys, ClickHouseMapHasKeys, PostgresMapHasKeys, SQLiteMapHasKeys, MySQLMapHasKeys

LEMMA MapHasKeyValuesType ==
  ASSUME NEW d \in Dialect, NEW col \in ColumnNames, NEW pairs \in Seq(KeyValue), NEW n \in Nat
  PROVE  Tokens(d, MapHasKeyValues(d, col, pairs, n))
BY EachPairType, SymbolsOf
   DEF Dialect, MapHasKeyValues, ClickHouseMapHasKeyValues, PostgresMapHasKeyValues,
       SQLiteMapHasKeyValues, MySQLMapHasKeyValues

LEMMA ScalarInType ==
  ASSUME NEW d, HasScalarIn(d), NEW col \in ColumnNames, NEW vals, NEW negate, NEW n \in Nat
  PROVE  Tokens(d, ScalarIn(d, col, vals, negate, n))
<1>1. IsSeq(List(vals))
  BY IsSeqOne DEF List
<1>2. \A sym \in Symbols(d) : Tokens(d, One(sym, col, n, List(vals)))
  BY <1>1, OneType
<1> QED BY <1>2, SymbolsOf DEF HasScalarIn, ScalarIn, PostgresScalarIn, SQLiteScalarIn

LEMMA ConcatType ==
  ASSUME NEW d, NEW s \in Seq(Token(d)), NEW t \in Seq(Token(d))
  PROVE  s \o t \in Seq(Token(d))
<1> DEFINE T == Token(d)
<1>1. s \in Seq(T) /\ t \in Seq(T)
  OBVIOUS
<1> HIDE DEF T
<1>2. s \o t \in Seq(T)
  BY <1>1
<1> QED BY <1>2 DEF T

LEMMA NegatedType ==
  ASSUME NEW d, NEW text \in Seq(Token(d))
  PROVE  Negated(text) \in Seq(Token(d))
<1> DEFINE open == <<Word("NOT"), Word("(")>>
           rest == <<Word(")")>>
<1>1. open = <<Word("NOT")>> \o <<Word("(")>>
  OBVIOUS
<1>2. open \in Seq(Token(d)) /\ rest \in Seq(Token(d))
  BY <1>1, WordType, ConcatType
<1>3. Negated(text) = open \o text \o rest
  BY DEF Negated
<1> HIDE DEF open, rest
<1> QED BY <1>2, <1>3, ConcatType

LEMMA ResolvedType == ASSUME NEW d, NEW r, Tokens(d, r) PROVE Tokens(d, Resolved(r))
BY DEF Tokens, Resolved

LEMMA SkippedType == ASSUME NEW d PROVE Tokens(d, Skipped)
BY NothingType, ResolvedType DEF Skipped

LEMMA BadValueType == ASSUME NEW d, NEW bound PROVE Tokens(d, BadValue(bound))
BY DEF Tokens, BadValue

LEMMA NegateIfType ==
  ASSUME NEW d, NEW r, Tokens(d, r), NEW negative, r = [text |-> r.text, args |-> r.args]
  PROVE  Tokens(d, NegateIf(negative, r))
<1>1. NegateIf(negative, r).text = IF negative THEN Negated(r.text) ELSE r.text
  BY DEF NegateIf, Resolved
<1> QED BY <1>1, NegatedType DEF Tokens

LEMMA CompareType ==
  ASSUME NEW d, NEW col \in ColumnNames, NEW op \in Equality \cup Ordering, NEW arg, NEW n \in Nat
  PROVE  Tokens(d, Compare(col, op, arg, n))
<1>1. Cmp[op] \in Symbols(d)
  <2>1. Cmp[op] \in {"=", "!=", ">", ">=", "<", "<="}
    BY DEF Equality, Ordering, Cmp
  <2> QED BY <2>1, SymbolsOf DEF Shared
<1>2. IsSeq(<<arg>>)
  BY IsSeqOne
<1> QED BY <1>1, <1>2, OneType, ResolvedType DEF Compare

LEMMA SharedType ==
  ASSUME NEW d, NEW sym \in Shared, NEW col \in ColumnNames, NEW bound, IsSeq(bound), NEW n \in Nat
  PROVE  Tokens(d, Resolved(One(sym, col, n, bound)))
BY SymbolsOf, OneType, ResolvedType

LEMMA InListType ==
  ASSUME NEW d, NEW col \in ColumnNames, NEW op, NEW bound, IsSeq(bound), NEW n \in Nat
  PROVE  Tokens(d, InList(col, op, bound, n))
BY SharedType DEF InList, Shared

LEMMA AroundType ==
  ASSUME NEW d, NEW col \in ColumnNames, NEW lo \in Int, NEW hi \in Int
  PROVE  Tokens(d, Around(col, lo, hi))
<1> DEFINE token == [sym |-> "BETWEEN now", col |-> col, lit |-> <<lo, hi>>, slots |-> <<>>]
<1>1. <<lo, hi>> \in Seq(Int) /\ <<>> \in Seq(Nat)
  OBVIOUS
<1>2. "BETWEEN now" \in Symbols(d)
  BY SymbolsOf DEF Shared
<1>3. token \in Token(d)
  BY <1>1, <1>2 DEF Token
<1>4. Around(col, lo, hi).text = <<token>>
  BY DEF Around, Resolved
<1> HIDE DEF token
<1> QED BY <1>3, <1>4, OneToken

\* The ends of an interval are whole minutes, in every dialect.
LEMMA RelativeTimeType ==
  ASSUME NEW d \in Dialect, NEW amount \in Int, NEW unit \in {"m", "h", "d", "w"}
  PROVE  RelativeTime(d, amount, unit) \in Int
<1>1. Minutes[unit] \in Int /\ Minutes["d"] \in Int
  BY DEF Minutes
<1>2. amount * Minutes[unit] \in Int /\ (amount * 7) * Minutes["d"] \in Int
  BY <1>1
<1> QED
  BY <1>2
  DEF Dialect, RelativeTime, ClickHouseRelativeTime, PostgresRelativeTime, SQLiteRelativeTime, MySQLRelativeTime

LEMMA ScalarType ==
  ASSUME NEW d \in Dialect, NEW f, NEW col \in ColumnNames, NEW c, IsSeq(c.values), NEW n \in Nat,
         c.op \in Equality \cup Membership \cup Matching
  PROVE  Tokens(d, ResolveScalar(d, f, col, c, n))
<1> DEFINE s == AsString(First(c.values))
<1>1. CASE c.op \in Equality \cup Matching
  <2>1. \/ ResolveScalar(d, f, col, c, n) = BadValue(<<>>)
        \/ c.op \in Equality /\ ResolveScalar(d, f, col, c, n) = Compare(col, c.op, <<"str", s>>, n)
        \/ ResolveScalar(d, f, col, c, n) = Resolved(Like(d, col, s, Anchor[c.op], n))
    BY <1>1 DEF ResolveScalar, Equality, Matching, Membership
  <2> QED BY <2>1, BadValueType, CompareType, LikeType, ResolvedType
<1>2. CASE c.op \in Membership
  <2>1. \/ ResolveScalar(d, f, col, c, n) = BadValue(<<>>)
        \/ ResolveScalar(d, f, col, c, n) = Skipped
        \/ /\ HasScalarIn(d)
           /\ ResolveScalar(d, f, col, c, n) = Resolved(ScalarIn(d, col, Strings(c.values), c.op = "_nin", n))
        \/ ResolveScalar(d, f, col, c, n) = InList(col, c.op, Strs(Strings(c.values)), n)
    BY <1>2 DEF ResolveScalar, Equality, Matching, Membership
  <2>2. IsSeq(Strs(Strings(c.values)))
    BY StringsIsSeq, StrsIsSeq
  <2> QED BY <2>1, <2>2, BadValueType, SkippedType, ScalarInType, ResolvedType, InListType
<1> QED BY <1>1, <1>2

LEMMA NumericType ==
  ASSUME NEW d, NEW col \in ColumnNames, NEW c, IsSeq(c.values), NEW n \in Nat,
         c.op \in Equality \cup Membership \cup Ordering \cup {"_between"}
  PROVE  Tokens(d, ResolveNumeric(col, c, n))
<1>1. IsSeq(Floats(c.values))
  BY FloatsIsSeq
<1>2. CASE c.op \in Equality \cup Ordering
  <2>1. \/ ResolveNumeric(col, c, n) = Compare(col, c.op, <<"num", AsFloat(First(c.values))>>, n)
        \/ ResolveNumeric(col, c, n) = BadValue(<<>>)
    BY <1>2 DEF ResolveNumeric, Equality, Ordering, Membership
  <2> QED BY <1>2, <2>1, CompareType, BadValueType
<1>3. CASE c.op \in Membership
  <2>1. \/ ResolveNumeric(col, c, n) = Skipped
        \/ \E bound : ResolveNumeric(col, c, n) = BadValue(bound)
        \/ ResolveNumeric(col, c, n) = InList(col, c.op, Floats(c.values), n)
    BY <1>3 DEF ResolveNumeric, Equality, Ordering, Membership
  <2> QED BY <1>1, <2>1, SkippedType, BadValueType, InListType
<1>4. CASE c.op = "_between"
  <2>1. \/ ResolveNumeric(col, c, n) = Resolved(One("BETWEEN", col, n, Floats(c.values)))
        \/ ResolveNumeric(col, c, n) = BadValue(<<>>)
    BY <1>4 DEF ResolveNumeric, Equality, Ordering, Membership
  <2>2. "BETWEEN" \in Shared
    BY DEF Shared
  <2> QED BY <1>1, <2>1, <2>2, SharedType, BadValueType
<1> QED BY <1>2, <1>3, <1>4

LEMMA TimestampType ==
  ASSUME NEW d \in Dialect, NEW col \in ColumnNames, NEW c, IsSeq(c.values), NEW n \in Nat,
         c.op \in {"_eq", "_between"} \cup Ordering \cup Relative
  PROVE  Tokens(d, ResolveTimestamp(d, col, c, n))
<1> DEFINE v == First(c.values)
           iv == Interval(v)
<1>1. CASE c.op = "_between"
  <2>1. \/ ResolveTimestamp(d, col, c, n) = Resolved(One("BETWEEN", col, n, Strs(Strings(c.values))))
        \/ ResolveTimestamp(d, col, c, n) = BadValue(<<>>)
    BY <1>1 DEF ResolveTimestamp, Relative
  <2>2. "BETWEEN" \in Shared /\ IsSeq(Strs(Strings(c.values)))
    BY StringsIsSeq, StrsIsSeq DEF Shared
  <2> QED BY <2>1, <2>2, SharedType, BadValueType
<1>2. CASE c.op \in Relative
  <2>1. \/ ResolveTimestamp(d, col, c, n) = BadValue(<<>>)
        \/ /\ IsInterval(v)
           /\ \/ ResolveTimestamp(d, col, c, n) = Around(col, RelativeTime(d, -iv.n, iv.unit), 0)
              \/ ResolveTimestamp(d, col, c, n) = Around(col, 0, RelativeTime(d, iv.n, iv.unit))
    BY <1>2 DEF ResolveTimestamp, Relative
  <2>2. CASE IsInterval(v)
    <3>1. iv \in [n : Nat \ {0}, unit : {"m", "h", "d", "w"}]
      BY <2>2, IntervalAssumption DEF IsInterval, Interval
    <3> HIDE DEF iv
    <3>2. iv.n \in Int /\ -iv.n \in Int /\ iv.unit \in {"m", "h", "d", "w"}
      BY <3>1
    <3>3. RelativeTime(d, -iv.n, iv.unit) \in Int /\ RelativeTime(d, iv.n, iv.unit) \in Int
      BY <3>2, RelativeTimeType
    <3> QED BY <2>1, <3>3, AroundType, BadValueType
  <2> QED BY <2>1, <2>2, BadValueType
<1>3. CASE c.op \in {"_eq"} \cup Ordering
  <2>1. \/ ResolveTimestamp(d, col, c, n) = Compare(col, c.op, <<"str", AsString(v)>>, n)
        \/ ResolveTimestamp(d, col, c, n) = BadValue(<<>>)
    BY <1>3 DEF ResolveTimestamp, Ordering, Relative
  <2>2. c.op \in Equality \cup Ordering
    BY <1>3 DEF Equality
  <2> QED BY <2>1, <2>2, CompareType, BadValueType
<1> QED BY <1>1, <1>2, <1>3

LEMMA ArrayType ==
  ASSUME NEW d \in Dialect, NEW col \in ColumnNames, NEW c, IsSeq(c.values), NEW n \in Nat
  PROVE  Tokens(d, ResolveArray(d, col, c, n))
<1> DEFINE all == c.op \in {"_contains", "_not_contains"}
           r == ArrayContains(d, col, Strings(c.values), all, n)
<1>1. Tokens(d, r)
  BY StringsIsSeq, ArrayContainsType
<1>2. r = [text |-> r.text, args |-> r.args]
  BY DialectRecords
<1>3. Tokens(d, NegateIf(c.op \in {"_not_contains", "_not_contains_any"}, r))
  BY <1>1, <1>2, NegateIfType
<1> QED BY <1>3, BadValueType, SkippedType DEF ResolveArray

LEMMA MapType ==
  ASSUME NEW d \in Dialect, NEW col \in ColumnNames, NEW c, c.pairs \in Seq(KeyValue), NEW n \in Nat
  PROVE  Tokens(d, ResolveMap(d, col, c, n))
<1>1. CASE c.pairs = <<>>
  BY <1>1, SkippedType DEF ResolveMap
<1>2. CASE c.pairs # <<>>
  <2> DEFINE keys == [i \in DOMAIN c.pairs |-> c.pairs[i].key]
             r == IF c.op \in KeyTests THEN MapHasKeys(d, col, keys, n)
                  ELSE MapHasKeyValues(d, col, c.pairs, n)
  <2>1. Len(c.pairs) \in Nat /\ Len(c.pairs) # 0 /\ DOMAIN c.pairs = 1 .. Len(c.pairs)
    BY <1>2, LenProperties, EmptySeq
  <2>2. keys = [i \in 1 .. Len(c.pairs) |-> keys[i]]
    BY <2>1
  <2> HIDE DEF keys
  <2>3. IsSeq(keys) /\ Len(keys) = Len(c.pairs)
    BY <2>1, <2>2, IsSeqFunction
  <2>4. keys # <<>>
    BY <2>1, <2>3, IsSeqLen
  <2>5. Tokens(d, r)
    BY <2>3, <2>4, MapHasKeysType, MapHasKeyValuesType
  <2>6. r = [text |-> r.text, args |-> r.args]
    BY DialectRecords
  <2>7. ResolveMap(d, col, c, n) = NegateIf(c.op \in {"_not_has_keys", "_not_has_key_values"}, r)
    BY <1>2 DEF ResolveMap, keys
  <2> HIDE DEF r
  <2> QED BY <2>5, <2>6, <2>7, NegateIfType
<1> QED BY <1>1, <1>2

\* The operators of the types that AllowedOperator says nothing of.
LEMMA AllowedElse ==
  ASSUME NEW f, NEW op, Allows(f, op), op \notin NullTests
  PROVE  /\ f.type = "bool" => op \in Equality
         /\ f.type = "timestamp" => op \in {"_eq", "_between"} \cup Ordering \cup Relative
<1>1. op \in Operators(f.type)
  BY DEF Allows, EffectiveOperators
<1>2. f.type \in DOMAIN TypeOperators /\ op \in TypeOperators[f.type]
  BY <1>1 DEF Operators
<1>3. /\ TypeOperators["bool"] = Equality
      /\ TypeOperators["timestamp"] = {"_eq", "_between"} \cup Ordering \cup Relative
  BY DEF TypeOperators
<1> QED BY <1>2, <1>3

\* Whatever the field, the operator and the values, the text is in the symbols
\* of the dialect.
LEMMA ResolveType ==
  ASSUME NEW d \in Dialect, NEW f, NEW col \in ColumnNames, NEW c, IsSeq(c.values),
         c.pairs \in Seq(KeyValue), NEW n \in Nat, Allows(f, c.op)
  PROVE  Tokens(d, Resolve(d, f, col, c, n))
<1>1. CASE c.op \in NullTests
  <2>1. IsSeq(<<>>)
    BY EmptySeq, IsSeqIntro
  <2>2. "IS NULL" \in Shared /\ "IS NOT NULL" \in Shared
    BY DEF Shared
  <2>3. /\ Tokens(d, Resolved(One("IS NULL", col, n, <<>>)))
        /\ Tokens(d, Resolved(One("IS NOT NULL", col, n, <<>>)))
    BY <2>1, <2>2, SharedType
  <2> QED BY <1>1, <2>3 DEF Resolve, NullTests
<1>2. CASE c.op \notin NullTests
  <2>1. c.op # "_is_null" /\ c.op # "_is_not_null"
    BY <1>2 DEF NullTests
  <2>2. f.type \in {"string", "id", "int", "float", "bool", "timestamp", "enum", "array", "map"}
    BY <1>2, AllowedOperator
  <2>3. CASE f.type \in {"string", "id", "enum"}
    <3>1. Resolve(d, f, col, c, n) = ResolveScalar(d, f, col, c, n)
      BY <2>1, <2>3 DEF Resolve
    <3> QED BY <1>2, <2>3, <3>1, AllowedOperator, ScalarType
  <2>4. CASE f.type \in {"int", "float"}
    <3>1. Resolve(d, f, col, c, n) = ResolveNumeric(col, c, n)
      BY <2>1, <2>4 DEF Resolve
    <3> QED BY <1>2, <2>4, <3>1, AllowedOperator, NumericType
  <2>5. CASE f.type = "bool"
    <3>1. Resolve(d, f, col, c, n) = ResolveBool(col, c, n)
      BY <2>1, <2>5 DEF Resolve
    <3>2. c.op \in Equality \cup Ordering
      BY <1>2, <2>5, AllowedElse
    <3> QED BY <3>1, <3>2, CompareType, BadValueType DEF ResolveBool
  <2>6. CASE f.type = "timestamp"
    <3>1. Resolve(d, f, col, c, n) = ResolveTimestamp(d, col, c, n)
      BY <2>1, <2>6 DEF Resolve
    <3> QED BY <1>2, <2>6, <3>1, AllowedElse, TimestampType
  <2>7. CASE f.type = "array"
    <3>1. Resolve(d, f, col, c, n) = ResolveArray(d, col, c, n)
      BY <2>1, <2>7 DEF Resolve
    <3> QED BY <3>1, ArrayType
  <2>8. CASE f.type = "map"
    <3>1. Resolve(d, f, col, c, n) = ResolveMap(d, col, c, n)
      BY <2>1, <2>8 DEF Resolve
    <3> QED BY <3>1, MapType
  <2> QED BY <2>2, <2>3, <2>4, <2>5, <2>6, <2>7, <2>8
<1> QED BY <1>1, <1>2

(***************************************************************************)
(* The calls.                                                              *)
(***************************************************************************)
\* A call is a record; it loops over conditions; nothing is text before the
\* first part; and the leaf of a search field is known and passed the gates.
CallOK(call) ==
  /\ call = [form |-> call.form, node |-> call.node, rest |-> call.rest, cols |-> call.cols,
             text |-> call.text, live |-> call.live, from |-> call.from]
  /\ call.rest \in Seq(Condition)
  /\ IsSeq(call.cols)
  /\ call.live = 0 => call.text = <<>>
  /\ call.live \in Nat
  /\ call.form = "search" => call.node.key \in DOMAIN Registry
  /\ call.cols # <<>> =>
       /\ call.node.key \in DOMAIN Registry
       /\ Allows(Registry[call.node.key], call.node.op)
       /\ IsSeq(call.node.values)
       /\ call.node.pairs \in Seq(KeyValue)

\* How many arguments were bound when the call inside the i-th began.
End(calls, bound, i) == IF i = Len(calls) THEN bound ELSE calls[i + 1].from

StackOK(base, calls, bound) ==
  /\ IsSeq(calls)
  /\ End(calls, bound, 0) = base
  /\ \A i \in 1 .. Len(calls) :
       CallOK(calls[i]) /\ Shows(calls[i].text, calls[i].from, End(calls, bound, i))

\* A rendering that began with base arguments bound.
Rendering(base) ==
  /\ dialect \in Dialect
  /\ result = "running" => IsSeq(args) /\ stack # <<>> /\ StackOK(base, stack, Len(args))
  /\ result = "ok" => IsSeq(args) /\ Shows(sql, base, Len(args))

(***************************************************************************)
(* The stack.                                                              *)
(***************************************************************************)
LEMMA Pop ==
  ASSUME NEW base, NEW calls, NEW bound, StackOK(base, calls, bound), calls # <<>>
  PROVE  StackOK(base, SubSeq(calls, 1, Len(calls) - 1), calls[Len(calls)].from)
<1> DEFINE n == Len(calls)
           below == SubSeq(calls, 1, n - 1)
<1>1. IsSeq(calls) /\ n \in Nat /\ n # 0
  BY IsSeqLen DEF StackOK
<1>2. IsSeq(below) /\ Len(below) = n - 1 /\ \A i \in 1 .. n - 1 : below[i] = calls[i]
  <2>1. n - 1 \in Nat /\ n - 1 <= Len(calls)
    BY <1>1
  <2> HIDE DEF n
  <2> QED BY <1>1, <2>1, IsSeqPrefix
<1> HIDE DEF below
<1>3. \A i \in 0 .. n - 1 : End(below, calls[n].from, i) = End(calls, bound, i)
  <2> SUFFICES ASSUME NEW i \in 0 .. n - 1
               PROVE  End(below, calls[n].from, i) = End(calls, bound, i)
    OBVIOUS
  <2>1. End(calls, bound, i) = calls[i + 1].from
    BY <1>1 DEF End
  <2>2. i # n - 1 => below[i + 1] = calls[i + 1]
    BY <1>1, <1>2
  <2>3. i = n - 1 => i + 1 = n
    BY <1>1
  <2> QED BY <1>2, <2>1, <2>2, <2>3 DEF End
<1>4. 0 \in 0 .. n - 1 /\ \A i \in 1 .. n - 1 : i \in 0 .. n - 1 /\ i \in 1 .. n
  BY <1>1
<1>5. End(below, calls[n].from, 0) = base
  BY <1>3, <1>4 DEF StackOK
<1>6. \A i \in 1 .. n - 1 :
        CallOK(below[i]) /\ Shows(below[i].text, below[i].from, End(below, calls[n].from, i))
  BY <1>2, <1>3, <1>4 DEF StackOK
<1> HIDE DEF n
<1>7. StackOK(base, below, calls[n].from)
  BY <1>2, <1>5, <1>6 DEF StackOK
<1> QED BY <1>7 DEF below, n

LEMMA Push ==
  ASSUME NEW base, NEW calls, NEW bound, StackOK(base, calls, bound), NEW call, CallOK(call), call.from = bound,
         NEW now, Shows(call.text, bound, now)
  PROVE  StackOK(base, Append(calls, call), now) /\ Append(calls, call) # <<>>
<1> DEFINE n == Len(calls)
           more == Append(calls, call)
<1>1. IsSeq(calls) /\ n \in Nat
  BY IsSeqLen DEF StackOK
<1>2. IsSeq(more) /\ Len(more) = n + 1 /\ more[n + 1] = call /\ \A i \in 1 .. n : more[i] = calls[i]
  BY <1>1, IsSeqAppend
<1> HIDE DEF more
<1>3. \A i \in 0 .. n : End(more, now, i) = End(calls, bound, i)
  <2> SUFFICES ASSUME NEW i \in 0 .. n
               PROVE  End(more, now, i) = End(calls, bound, i)
    OBVIOUS
  <2>1. End(more, now, i) = more[i + 1].from
    BY <1>1, <1>2 DEF End
  <2>2. i # n => more[i + 1] = calls[i + 1]
    BY <1>1, <1>2
  <2> QED BY <1>2, <2>1, <2>2 DEF End
<1>4. End(more, now, n + 1) = now
  BY <1>2 DEF End
<1>5. 0 \in 0 .. n /\ \A i \in 1 .. n + 1 : i = n + 1 \/ (i \in 1 .. n /\ i \in 0 .. n)
  BY <1>1
<1> HIDE DEF n
<1>6. \A i \in 1 .. n + 1 : CallOK(more[i]) /\ Shows(more[i].text, more[i].from, End(more, now, i))
  BY <1>2, <1>3, <1>4, <1>5 DEF StackOK, n
<1>7. StackOK(base, more, now)
  BY <1>2, <1>3, <1>5, <1>6 DEF StackOK
<1>8. more # <<>>
  BY <1>1, <1>2, IsSeqLen
<1> QED BY <1>7, <1>8 DEF more

LEMMA Inside ==
  ASSUME NEW base, NEW calls, NEW bound, StackOK(base, calls, bound), calls # <<>>
  PROVE  /\ CallOK(calls[Len(calls)])
         /\ Shows(calls[Len(calls)].text, calls[Len(calls)].from, bound)
         /\ calls[Len(calls)].from \in Nat /\ bound \in Nat
<1>1. Len(calls) \in 1 .. Len(calls)
  BY IsSeqLen DEF StackOK
<1>2. End(calls, bound, Len(calls)) = bound
  BY DEF End
<1> QED BY <1>1, <1>2 DEF StackOK, Shows

(***************************************************************************)
(* One call.                                                               *)
(***************************************************************************)
LEMMA PlusShows ==
  ASSUME NEW call, CallOK(call), NEW part, NEW a, NEW b,
         Shows(call.text, call.from, a), Shows(part, a, b)
  PROVE  /\ CallOK(Plus(call, part))
         /\ Plus(call, part).from = call.from
         /\ Shows(Plus(call, part).text, call.from, b)
<1>1. CASE part = <<>>
  <2>1. a = b
    BY <1>1, EmptyShows
  <2> QED BY <1>1, <2>1 DEF Plus
<1>2. CASE part # <<>>
  <2> DEFINE text == IF call.live = 0 THEN part
                     ELSE call.text \o <<Separator(call.form)>> \o part
             p == Plus(call, part)
  <2>1. p = [form |-> call.form, node |-> call.node, rest |-> call.rest, cols |-> call.cols,
             text |-> text, live |-> call.live + 1, from |-> call.from]
    BY <1>2 DEF Plus, CallOK
  <2>2. CASE call.live = 0
    <3>1. call.from = a
      BY <2>2, EmptyShows DEF CallOK
    <3> QED BY <2>1, <2>2, <3>1 DEF CallOK
  <2>3. CASE call.live # 0
    <3>1. Shows(<<Separator(call.form)>>, a, a)
      BY ShowsWord DEF Separator, Shows
    <3>2. Shows(call.text \o <<Separator(call.form)>>, call.from, a)
      BY <3>1, ShowsConcat
    <3>3. Shows(text, call.from, b)
      BY <2>3, <3>2, ShowsConcat
    <3>4. call.live + 1 \in Nat /\ call.live + 1 # 0
      BY DEF CallOK
    <3> HIDE DEF text, p
    <3> QED BY <2>1, <3>3, <3>4 DEF CallOK, p
  <2> QED BY <2>2, <2>3
<1> QED BY <1>1, <1>2

\* The next child, the next column.
LEMMA Advance ==
  ASSUME NEW call, CallOK(call)
  PROVE  /\ [call EXCEPT !.rest = Tail(@)] =
              [form |-> call.form, node |-> call.node, rest |-> Tail(call.rest), cols |-> call.cols,
               text |-> call.text, live |-> call.live, from |-> call.from]
         /\ [call EXCEPT !.cols = Tail(@)] =
              [form |-> call.form, node |-> call.node, rest |-> call.rest, cols |-> Tail(call.cols),
               text |-> call.text, live |-> call.live, from |-> call.from]
<1>1. call \in [form : {call.form}, node : {call.node}, rest : {call.rest}, cols : {call.cols},
               text : {call.text}, live : {call.live}, from : {call.from}]
  BY DEF CallOK
<1>2. ASSUME NEW x
      PROVE  [call EXCEPT !.rest = x] =
               [form |-> call.form, node |-> call.node, rest |-> x, cols |-> call.cols,
                text |-> call.text, live |-> call.live, from |-> call.from]
  BY <1>1
<1>3. ASSUME NEW x
      PROVE  [call EXCEPT !.cols = x] =
               [form |-> call.form, node |-> call.node, rest |-> call.rest, cols |-> x,
                text |-> call.text, live |-> call.live, from |-> call.from]
  BY <1>1
<1> QED BY <1>2, <1>3

LEMMA ReturnedShows ==
  ASSUME NEW call, CallOK(call), NEW b, Shows(call.text, call.from, b)
  PROVE  Shows(Returned(call), call.from, b)
<1>1. call.live = 0 => Shows(<<>>, call.from, b)
  BY DEF CallOK
<1>2. Shows(Negated(call.text), call.from, b)
  BY NegatedShows
<1>3. Shows(<<Word("(")>>, call.from, call.from) /\ Shows(<<Word(")")>>, b, b)
  BY ShowsWord DEF Shows
<1>4. Shows(<<Word("(")>> \o call.text \o <<Word(")")>>, call.from, b)
  BY <1>3, ShowsConcat
<1> QED BY <1>1, <1>2, <1>4 DEF Returned

(***************************************************************************)
(* The actions.                                                            *)
(***************************************************************************)
LEMMA Beginning ==
  ASSUME NEW base \in Nat, NEW conds \in Seq(Condition), NEW top,
         top = [form |-> "top", node |-> Empty, rest |-> conds, cols |-> <<>>,
                text |-> <<>>, live |-> 0, from |-> base]
  PROVE  StackOK(base, <<top>>, base) /\ <<top>> # <<>>
<1>1. IsSeq(<<>>)
  BY EmptySeq, IsSeqIntro
<1>2. CallOK(top)
  BY <1>1 DEF CallOK
<1>3. top.text = <<>> /\ top.from = base /\ Shows(<<>>, base, base)
  BY ShowsNothing
<1>4. IsSeq(<<top>>) /\ Len(<<top>>) = 1 /\ <<top>>[1] = top /\ <<top>> # <<>>
  BY IsSeqOne
<1> QED BY <1>2, <1>3, <1>4 DEF StackOK, End

LEMMA InitRendering == Init => Rendering(0)
<1> SUFFICES ASSUME Init PROVE Rendering(0)
  OBVIOUS
<1> DEFINE top == [form |-> "top", node |-> Empty, rest |-> filter, cols |-> <<>>,
                   text |-> <<>>, live |-> 0, from |-> 0]
<1>1. dialect \in Dialect /\ result = "running" /\ args = <<>> /\ stack = <<top>> /\ Len(args) = 0
  BY TargetAssumption DEF Init
<1>2. filter \in Seq(Condition)
  BY FilterAssumption DEF Init
<1>3. IsSeq(args)
  BY <1>1, EmptySeq, IsSeqIntro
<1> HIDE DEF top
<1>4. StackOK(0, stack, 0) /\ stack # <<>>
  BY <1>1, <1>2, Beginning DEF top
<1> QED BY <1>1, <1>3, <1>4 DEF Rendering

\* What the invariant says of the innermost call.
LEMMA Innermost ==
  ASSUME NEW base, Rendering(base), result = "running"
  PROVE  /\ IsSeq(args) /\ Len(args) \in Nat /\ IsSeq(stack) /\ stack # <<>>
         /\ CallOK(Inner)
         /\ Shows(Inner.text, Inner.from, Len(args))
         /\ Inner.from \in Nat
         /\ StackOK(base, Below, Inner.from)
<1>1. IsSeq(args) /\ stack # <<>> /\ StackOK(base, stack, Len(args))
  BY DEF Rendering
<1>2. Len(args) \in Nat /\ IsSeq(stack)
  BY <1>1, IsSeqLen DEF StackOK
<1>3. CallOK(Inner) /\ Shows(Inner.text, Inner.from, Len(args)) /\ Inner.from \in Nat
  BY <1>1, Inside DEF Inner
<1>4. StackOK(base, Below, Inner.from)
  BY <1>1, Pop DEF Inner, Below
<1> QED BY <1>1, <1>2, <1>3, <1>4

LEMMA OnwardOK ==
  ASSUME CallOK(Inner), Inner.rest # <<>>
  PROVE  /\ CallOK(Onward) /\ Onward.from = Inner.from /\ Onward.text = Inner.text
         /\ Node \in Condition
         /\ IsSeq(Node.values) /\ Node.pairs \in Seq(KeyValue)
         /\ Node.and \in Seq(Condition) /\ Node.or \in Seq(Condition) /\ Node.not \in Seq(Condition)
<1>1. Inner.rest \in Seq(Condition)
  BY DEF CallOK
<1>2. Node \in Condition /\ Tail(Inner.rest) \in Seq(Condition)
  BY <1>1, HeadTailProperties DEF Node
<1>3. Onward = [form |-> Inner.form, node |-> Inner.node, rest |-> Tail(Inner.rest), cols |-> Inner.cols,
                text |-> Inner.text, live |-> Inner.live, from |-> Inner.from]
  BY Advance DEF Onward
<1>4. CallOK(Onward)
  BY <1>2, <1>3 DEF CallOK
<1>5. Node.values \in Seq(Value)
  BY <1>2, ConditionAssumption
<1> QED BY <1>2, <1>3, <1>4, <1>5, ConditionAssumption, IsSeqIntro

LEMMA HookedOK ==
  ASSUME Node \in Condition, IsSeq(Node.values)
  PROVE  Hooked.key = Node.key /\ Hooked.op = Node.op /\ Hooked.pairs = Node.pairs /\ IsSeq(Hooked.values)
<1>1. Hooked.key = Node.key /\ Hooked.op = Node.op /\ Hooked.pairs = Node.pairs
      /\ Hooked.values = AfterHooks(Field, Node.values)
  BY ConditionAssumption DEF Hooked
<1>2. Len(Node.values) \in Nat /\ DOMAIN Node.values = 1 .. Len(Node.values)
  BY IsSeqLen
<1> DEFINE s == [i \in 1 .. Len(Node.values) |-> Field.transform[Node.values[i]]]
<1>3. IsSeq(s)
  BY <1>2, IsSeqFunction
<1>4. AfterHooks(Field, Node.values) = s
  BY <1>2 DEF AfterHooks
<1> QED BY <1>1, <1>3, <1>4

\* The steps that go on, and the steps that fail.
LEMMA StillRendering ==
  ASSUME NEW base, Rendering(base), dialect' = dialect, result' = "running",
         IsSeq(args'), stack' # <<>>, StackOK(base, stack', Len(args'))
  PROVE  Rendering(base)'
BY DEF Rendering

LEMMA Failing ==
  ASSUME NEW base, Rendering(base), NEW error, error # "ok", error # "running", NEW bound, Fail(error, bound)
  PROVE  Rendering(base)'
BY DEF Rendering, Fail

\* A call is replaced by itself with more text, or by itself and a call inside it.
LEMMA Replacing ==
  ASSUME NEW base, NEW calls, NEW from, StackOK(base, calls, from), NEW call, CallOK(call), call.from = from,
         NEW bound, Shows(call.text, from, bound)
  PROVE  StackOK(base, Append(calls, call), bound) /\ Append(calls, call) # <<>>
BY Push

LEMMA Opening ==
  ASSUME NEW base, NEW calls, NEW from, StackOK(base, calls, from), NEW outer, CallOK(outer), outer.from = from,
         NEW bound, Shows(outer.text, from, bound),
         NEW inner, CallOK(inner), inner.from = bound, inner.text = <<>>
  PROVE  StackOK(base, calls \o <<outer, inner>>, bound) /\ calls \o <<outer, inner>> # <<>>
<1>1. bound \in Nat /\ IsSeq(calls)
  BY DEF Shows, StackOK
<1>2. StackOK(base, Append(calls, outer), bound)
  BY Push
<1>3. Shows(inner.text, bound, bound)
  BY <1>1, ShowsNothing
<1>4. StackOK(base, Append(Append(calls, outer), inner), bound) /\ Append(Append(calls, outer), inner) # <<>>
  BY <1>2, <1>3, Push
<1>5. Append(Append(calls, outer), inner) = calls \o <<outer, inner>>
  <2> DEFINE R == {calls[i] : i \in DOMAIN calls} \cup {outer, inner}
  <2>1. calls \in Seq(R) /\ outer \in R /\ inner \in R
    BY <1>1, SeqMonotonic DEF IsSeq
  <2> HIDE DEF R
  <2> QED BY <2>1
<1> QED BY <1>4, <1>5

LEMMA RenderLeafRendering == ASSUME NEW base, Rendering(base), RenderLeaf PROVE Rendering(base)'
<1> DEFINE r == Resolve(dialect, Field, Column(Node.key), Hooked, Len(args))
<1>1. /\ Inner.rest # <<>> /\ result = "running" /\ Allows(Field, Node.op)
      /\ \/ ~r.ok /\ Fail("ErrBadValue", r.args)
         \/ /\ r.ok
            /\ args' = args \o r.args
            /\ stack' = Append(Below, Plus(Onward, r.text))
            /\ UNCHANGED <<dialect, result>>
  BY DEF RenderLeaf, Admitted, AtLeaf, Visiting
<1>2. CASE ~r.ok /\ Fail("ErrBadValue", r.args)
  <2> HIDE DEF r
  <2> QED BY <1>2, Failing
<1>3. CASE /\ r.ok
           /\ args' = args \o r.args
           /\ stack' = Append(Below, Plus(Onward, r.text))
           /\ UNCHANGED <<dialect, result>>
  <2>1. /\ IsSeq(args) /\ Len(args) \in Nat /\ CallOK(Inner) /\ StackOK(base, Below, Inner.from)
        /\ Shows(Inner.text, Inner.from, Len(args))
    BY <1>1, Innermost
  <2>2. /\ CallOK(Onward) /\ Onward.from = Inner.from /\ Onward.text = Inner.text
        /\ Node \in Condition /\ IsSeq(Node.values) /\ Node.pairs \in Seq(KeyValue)
    BY <1>1, <2>1, OnwardOK
  <2>3. IsSeq(Hooked.values) /\ Hooked.pairs \in Seq(KeyValue) /\ Allows(Field, Hooked.op)
    BY <1>1, <2>2, HookedOK
  <2>4. Renders(r, Len(args))
    BY <1>3, <2>1, <2>3, ResolveRenders DEF Rendering
  <2> HIDE DEF r
  <2>5. IsSeq(r.args) /\ Shows(r.text, Len(args), Len(args) + Len(r.args))
    BY <2>4 DEF Renders
  <2>6. IsSeq(args') /\ Len(args') = Len(args) + Len(r.args)
    BY <1>3, <2>1, <2>5, IsSeqConcat
  <2>7. /\ CallOK(Plus(Onward, r.text)) /\ Plus(Onward, r.text).from = Inner.from
        /\ Shows(Plus(Onward, r.text).text, Inner.from, Len(args'))
    BY <2>1, <2>2, <2>5, <2>6, PlusShows
  <2>8. StackOK(base, stack', Len(args')) /\ stack' # <<>>
    BY <1>3, <2>1, <2>7, Replacing
  <2> QED BY <1>1, <1>3, <2>6, <2>8, StillRendering
<1> QED BY <1>1, <1>2, <1>3

LEMMA SearchColumnRendering == ASSUME NEW base, Rendering(base), SearchColumn PROVE Rendering(base)'
<1> DEFINE c == Inner.node
           r == Resolve(dialect, Registry[c.key], Head(Inner.cols), c, Len(args))
           call == [Inner EXCEPT !.cols = Tail(@)]
<1>1. /\ Inner.cols # <<>> /\ result = "running"
      /\ \/ ~r.ok /\ Fail("ErrBadValue", r.args)
         \/ /\ r.ok
            /\ args' = args \o r.args
            /\ stack' = Append(Below, Plus(call, r.text))
            /\ UNCHANGED <<dialect, result>>
  BY DEF SearchColumn
<1>2. CASE ~r.ok /\ Fail("ErrBadValue", r.args)
  <2> HIDE DEF r
  <2> QED BY <1>2, Failing
<1>3. CASE /\ r.ok
           /\ args' = args \o r.args
           /\ stack' = Append(Below, Plus(call, r.text))
           /\ UNCHANGED <<dialect, result>>
  <2>1. /\ IsSeq(args) /\ Len(args) \in Nat /\ CallOK(Inner) /\ StackOK(base, Below, Inner.from)
        /\ Shows(Inner.text, Inner.from, Len(args))
    BY <1>1, Innermost
  <2>2. IsSeq(c.values) /\ c.pairs \in Seq(KeyValue) /\ Allows(Registry[c.key], c.op)
    BY <1>1, <2>1 DEF CallOK
  <2>3. Renders(r, Len(args))
    BY <1>3, <2>1, <2>2, ResolveRenders DEF Rendering
  <2>4. call = [form |-> Inner.form, node |-> Inner.node, rest |-> Inner.rest, cols |-> Tail(Inner.cols),
                text |-> Inner.text, live |-> Inner.live, from |-> Inner.from]
    BY <2>1, Advance
  <2>5. IsSeq(Tail(Inner.cols))
    BY <1>1, <2>1, IsSeqTail DEF CallOK
  <2> HIDE DEF r, c, call
  <2>6. call.node = Inner.node
    BY <2>4
  <2>7. CallOK(call)
    BY <1>1, <2>1, <2>4, <2>5 DEF CallOK
  <2>8. call.from = Inner.from /\ call.text = Inner.text
    BY <2>4
  <2>9. IsSeq(r.args) /\ Shows(r.text, Len(args), Len(args) + Len(r.args))
    BY <2>3 DEF Renders
  <2>10. IsSeq(args') /\ Len(args') = Len(args) + Len(r.args)
    BY <1>3, <2>1, <2>9, IsSeqConcat
  <2>11. /\ CallOK(Plus(call, r.text)) /\ Plus(call, r.text).from = Inner.from
         /\ Shows(Plus(call, r.text).text, Inner.from, Len(args'))
    BY <2>1, <2>7, <2>8, <2>9, <2>10, PlusShows
  <2>12. StackOK(base, stack', Len(args')) /\ stack' # <<>>
    BY <1>3, <2>1, <2>11, Replacing
  <2> QED BY <1>1, <1>3, <2>10, <2>12, StillRendering
<1> QED BY <1>1, <1>2, <1>3

LEMMA CloseRendering == ASSUME NEW base, Rendering(base), Close PROVE Rendering(base)'
<1> DEFINE text == Returned(Inner)
           outer == stack[Len(stack) - 1]
           under == SubSeq(stack, 1, Len(stack) - 2)
<1>1. /\ result = "running" /\ Len(stack) > 1
      /\ stack' = Append(under, Plus(outer, text))
      /\ UNCHANGED <<dialect, args, result>>
  BY DEF Close, Finished
<1>2. /\ IsSeq(args) /\ IsSeq(stack) /\ CallOK(Inner) /\ StackOK(base, Below, Inner.from)
      /\ Shows(Inner.text, Inner.from, Len(args))
  BY <1>1, Innermost
<1>3. Len(stack) \in Nat /\ Len(stack) - 1 \in Nat /\ Len(stack) - 2 \in Nat
      /\ Len(stack) - 1 <= Len(stack) /\ Len(stack) - 2 <= Len(stack) /\ Len(stack) - 1 # 0
      /\ Len(stack) - 2 <= Len(stack) - 1 /\ Len(stack) - 1 \in 1 .. Len(stack) - 1
      /\ Len(stack) - 1 - 1 = Len(stack) - 2
  <2>1. Len(stack) \in Nat
    BY <1>2, IsSeqLen
  <2> QED BY <1>1, <2>1
<1>4. /\ IsSeq(Below) /\ Len(Below) = Len(stack) - 1
      /\ \A i \in 1 .. Len(stack) - 1 : Below[i] = stack[i]
  BY <1>2, <1>3, IsSeqPrefix DEF Below
<1>5. Below # <<>> /\ Below[Len(Below)] = outer
  BY <1>3, <1>4, IsSeqLen
<1>6. SubSeq(Below, 1, Len(Below) - 1) = under
  <2>1. /\ IsSeq(under) /\ Len(under) = Len(stack) - 2
        /\ \A i \in 1 .. Len(stack) - 2 : under[i] = stack[i]
    BY <1>2, <1>3, IsSeqPrefix
  <2> DEFINE front == SubSeq(Below, 1, Len(stack) - 2)
  <2>2. IsSeq(front) /\ Len(front) = Len(stack) - 2
        /\ \A i \in 1 .. Len(stack) - 2 : front[i] = Below[i]
    BY <1>3, <1>4, IsSeqPrefix
  <2>3. \A i \in 1 .. Len(stack) - 2 : i \in 1 .. Len(stack) - 1
    BY <1>3
  <2> HIDE DEF front, under
  <2>4. front = under
    BY <1>4, <2>1, <2>2, <2>3, IsSeqEqual
  <2> QED BY <1>3, <1>4, <2>4 DEF front
<1> HIDE DEF text, outer, under
<1>7. StackOK(base, under, outer.from) /\ CallOK(outer) /\ Shows(outer.text, outer.from, Inner.from)
  BY <1>2, <1>5, <1>6, Pop, Inside
<1>8. Shows(text, Inner.from, Len(args))
  BY <1>2, ReturnedShows DEF text
<1>9. /\ CallOK(Plus(outer, text)) /\ Plus(outer, text).from = outer.from
      /\ Shows(Plus(outer, text).text, outer.from, Len(args))
  BY <1>7, <1>8, PlusShows
<1>10. StackOK(base, stack', Len(args')) /\ stack' # <<>>
  BY <1>1, <1>7, <1>9, Replacing
<1> QED BY <1>1, <1>2, <1>10, StillRendering

LEMMA SkipRendering == ASSUME NEW base, Rendering(base), Skip PROVE Rendering(base)'
<1>1. /\ Inner.rest # <<>> /\ result = "running"
      /\ stack' = Append(Below, Onward)
      /\ UNCHANGED <<dialect, args, result>>
  BY DEF Skip, Visiting
<1>2. /\ IsSeq(args) /\ CallOK(Inner) /\ StackOK(base, Below, Inner.from)
      /\ Shows(Inner.text, Inner.from, Len(args))
  BY <1>1, Innermost
<1>3. CallOK(Onward) /\ Onward.from = Inner.from /\ Onward.text = Inner.text
  BY <1>1, <1>2, OnwardOK
<1>4. StackOK(base, stack', Len(args')) /\ stack' # <<>>
  BY <1>1, <1>2, <1>3, Replacing
<1> QED BY <1>1, <1>2, <1>4, StillRendering

LEMMA DescendRendering == ASSUME NEW base, Rendering(base), Descend PROVE Rendering(base)'
<1>1. PICK form \in {"and", "or", "not"} :
        /\ Inner.rest # <<>> /\ result = "running"
        /\ stack' = Below \o <<Onward, Call(form, Node, Node[form], <<>>)>>
        /\ UNCHANGED <<dialect, args, result>>
  BY DEF Descend, Visiting
<1>2. /\ IsSeq(args) /\ CallOK(Inner) /\ StackOK(base, Below, Inner.from)
      /\ Shows(Inner.text, Inner.from, Len(args))
  BY <1>1, Innermost
<1>3. /\ CallOK(Onward) /\ Onward.from = Inner.from /\ Onward.text = Inner.text
      /\ Node.and \in Seq(Condition) /\ Node.or \in Seq(Condition) /\ Node.not \in Seq(Condition)
  BY <1>1, <1>2, OnwardOK
<1> DEFINE call == Call(form, Node, Node[form], <<>>)
<1>4. Node[form] \in Seq(Condition)
  BY <1>3
<1>5. call.from = Len(args) /\ call.text = <<>>
  BY DEF Call
<1>6. CallOK(call)
  <2>1. IsSeq(<<>>)
    BY EmptySeq, IsSeqIntro
  <2> QED BY <1>4, <2>1 DEF CallOK, Call
<1> HIDE DEF call
<1>7. StackOK(base, stack', Len(args')) /\ stack' # <<>>
  BY <1>1, <1>2, <1>3, <1>5, <1>6, Opening DEF call
<1> QED BY <1>1, <1>2, <1>7, StillRendering

LEMMA OpenSearchRendering == ASSUME NEW base, Rendering(base), OpenSearch PROVE Rendering(base)'
<1>1. /\ Inner.rest # <<>> /\ result = "running"
      /\ Node.key \in DOMAIN Registry /\ Allows(Field, Node.op)
      /\ stack' = Below \o <<Onward, Call("search", Hooked, <<>>, Field.search)>>
      /\ UNCHANGED <<dialect, args, result>>
  BY DEF OpenSearch, Admitted, AtLeaf, Visiting, Known
<1>2. /\ IsSeq(args) /\ CallOK(Inner) /\ StackOK(base, Below, Inner.from)
      /\ Shows(Inner.text, Inner.from, Len(args))
  BY <1>1, Innermost
<1>3. /\ CallOK(Onward) /\ Onward.from = Inner.from /\ Onward.text = Inner.text
      /\ Node \in Condition /\ IsSeq(Node.values) /\ Node.pairs \in Seq(KeyValue)
  BY <1>1, <1>2, OnwardOK
<1>4. Hooked.key = Node.key /\ Hooked.op = Node.op /\ Hooked.pairs = Node.pairs /\ IsSeq(Hooked.values)
  BY <1>3, HookedOK
<1>5. IsSeq(Field.search)
  BY <1>1, RegistryAssumption, IsSeqIntro DEF Field
<1> DEFINE call == Call("search", Hooked, <<>>, Field.search)
<1>6. call.from = Len(args) /\ call.text = <<>>
  BY DEF Call
<1>7. CallOK(call)
  <2>1. <<>> \in Seq(Condition)
    BY EmptySeq
  <2>2. /\ Hooked.key \in DOMAIN Registry
        /\ Allows(Registry[Hooked.key], Hooked.op)
        /\ Hooked.pairs \in Seq(KeyValue)
    BY <1>1, <1>3, <1>4 DEF Field
  <2> QED BY <1>4, <1>5, <2>1, <2>2 DEF CallOK, Call
<1> HIDE DEF call
<1>8. StackOK(base, stack', Len(args')) /\ stack' # <<>>
  BY <1>1, <1>2, <1>3, <1>6, <1>7, Opening DEF call
<1> QED BY <1>1, <1>2, <1>8, StillRendering

\* The text returned is that of the outermost call.
LEMMA ReturnRendering == ASSUME NEW base, Rendering(base), Return PROVE Rendering(base)'
<1>1. /\ result = "running" /\ Len(stack) = 1 /\ sql' = Inner.text /\ result' = "ok"
      /\ dialect' = dialect /\ args' = args
  BY DEF Return, Finished
<1>2. /\ stack # <<>> /\ StackOK(base, stack, Len(args)) /\ Shows(Inner.text, Inner.from, Len(args))
      /\ IsSeq(args)
  BY <1>1, Innermost DEF Rendering
<1>3. Inner.from = base
  BY <1>1, <1>2 DEF StackOK, End, Inner
<1>4. Shows(sql', base, Len(args'))
  BY <1>1, <1>2, <1>3
<1> QED BY <1>1, <1>2, <1>4 DEF Rendering

LEMMA NextRendering == ASSUME NEW base, Rendering(base), [Next]_vars PROVE Rendering(base)'
<1>1. CASE Skip
  BY <1>1, SkipRendering
<1>2. CASE Malformed
  BY <1>2, Failing DEF Malformed
<1>3. CASE Descend
  BY <1>3, DescendRendering
<1>4. CASE UnknownField
  BY <1>4, Failing DEF UnknownField
<1>5. CASE BadOperator
  BY <1>5, Failing DEF BadOperator
<1>6. CASE HooksFail
  BY <1>6, Failing DEF HooksFail
<1>7. CASE RenderLeaf
  BY <1>7, RenderLeafRendering
<1>8. CASE OpenSearch
  BY <1>8, OpenSearchRendering
<1>9. CASE SearchColumn
  BY <1>9, SearchColumnRendering
<1>10. CASE Close
  BY <1>10, CloseRendering
<1>11. CASE Return
  BY <1>11, ReturnRendering
<1>12. CASE UNCHANGED vars
  BY <1>12 DEF vars, Rendering
<1> QED
  BY <1>1, <1>2, <1>3, <1>4, <1>5, <1>6, <1>7, <1>8, <1>9, <1>10, <1>11, <1>12 DEF Next

\* The text returned shows the arguments returned, one placeholder each and in
\* their order, whatever is compiled for whichever dialect (compile.go,
\* dialect.go:74-81 and the renderers of dialects/).
THEOREM PlaceholdersCorrect == Spec => []PlaceholdersInOrder
<1>1. Rendering(0) /\ [Next]_vars => Rendering(0)'
  BY NextRendering
<1>2. Rendering(0) => PlaceholdersInOrder
  BY DEF Rendering, Shows, PlaceholdersInOrder
<1> QED BY InitRendering, <1>1, <1>2, PTL DEF Spec

(***************************************************************************)
(* Columns and joins.                                                      *)
(*                                                                         *)
(* A rendering of nodes of C, which contains the children of its members,  *)
(* reads columns of the fields that C names: every call's text does, and   *)
(* that of a search only columns of its own field.  A search is the        *)
(* innermost call, never the outermost, and has no children.               *)
(***************************************************************************)
ChildrenIn(C) ==
  C \subseteq Condition /\ \A c \in C : c.and \in Seq(C) /\ c.or \in Seq(C) /\ c.not \in Seq(C)

FieldsOf(C) == ({c.key : c \in C} \cap DOMAIN Registry) \ {""}
ColumnsOfAll(K) == UNION {ColumnsOf(k) : k \in K}

CallReads(C, call) ==
  /\ call.rest \in Seq(C)
  /\ call.form # "search" => call.cols = <<>> /\ Over(call.text, ColumnsOfAll(FieldsOf(C)))
  /\ call.form = "search" =>
       /\ call.rest = <<>>
       /\ call.node.key \in FieldsOf(C)
       /\ ToSet(call.cols) \subseteq ColumnsOf(call.node.key)
       /\ Over(call.text, ColumnsOf(call.node.key))
       /\ AllSaySomething =>
            /\ SaysSomething(call.node)
            /\ call.live > 0 => Touches(call.text, ColumnsOf(call.node.key))

SearchInside(calls) ==
  \A i \in DOMAIN calls : calls[i].form = "search" => i # 1 /\ i = Len(calls)

StackReads(C, calls) == SearchInside(calls) /\ \A i \in DOMAIN calls : CallReads(C, calls[i])

Reading(C) ==
  /\ result = "running" => StackReads(C, stack)
  /\ result = "ok" => Over(sql, ColumnsOfAll(FieldsOf(C)))

(***************************************************************************)
(* The joins recorded are those of some fields: every column of a text     *)
(* that is not a search's is one of theirs, and each of them has a column  *)
(* in such a text, if all conditions say something.                        *)
(***************************************************************************)
Serves(calls, K) ==
  /\ \A i \in DOMAIN calls : calls[i].form # "search" => Over(calls[i].text, ColumnsOfAll(K))
  /\ AllSaySomething =>
       \A k \in K : \E i \in DOMAIN calls :
         calls[i].form # "search" /\ Touches(calls[i].text, ColumnsOf(k))

JoinsOf(K) == UNION {Registry[k].joins : k \in K}

Recording ==
  \E K \in SUBSET DOMAIN Registry :
    /\ joinKeys = JoinsOf(K)
    /\ result = "running" => Serves(stack, K)
    /\ result = "ok" =>
         /\ Over(sql, ColumnsOfAll(K))
         /\ AllSaySomething => \A k \in K : Touches(sql, ColumnsOf(k))

LEMMA ColumnsOfOne == ASSUME NEW K, NEW k \in K PROVE ColumnsOf(k) \subseteq ColumnsOfAll(K)
BY DEF ColumnsOfAll

\* What a call is with a part more, and what it returns.
LEMMA PlusReads ==
  ASSUME NEW call, CallOK(call), NEW part, NEW cols, Over(call.text, cols), Over(part, cols)
  PROVE  LET p == Plus(call, part) IN
         /\ p.form = call.form /\ p.node = call.node /\ p.rest = call.rest /\ p.cols = call.cols
         /\ Over(p.text, cols)
         /\ \A some : Touches(call.text, some) \/ Touches(part, some) => Touches(p.text, some)
         /\ p.live > 0 => call.live > 0 \/ part # <<>>
<1>1. CASE part = <<>>
  <2>1. Plus(call, part) = call
    BY <1>1 DEF Plus
  <2>2. \A some : ~Touches(part, some)
    BY <1>1 DEF Touches
  <2> QED BY <2>1, <2>2
<1>2. CASE part # <<>>
  <2> DEFINE sep == <<Separator(call.form)>>
             text == IF call.live = 0 THEN part ELSE call.text \o sep \o part
             p == Plus(call, part)
  <2>1. p = [form |-> call.form, node |-> call.node, rest |-> call.rest, cols |-> call.cols,
             text |-> text, live |-> call.live + 1, from |-> call.from]
    BY <1>2 DEF Plus, CallOK
  <2>2. Over(sep, cols)
    BY OverWord DEF Separator
  <2> HIDE DEF sep
  <2>3. Over(call.text \o sep, cols) /\ Over(call.text \o sep \o part, cols)
    BY <2>2, OverConcat
  <2>4. IsSeq(call.text) /\ IsSeq(sep) /\ IsSeq(part) /\ IsSeq(call.text \o sep)
    BY <2>2, <2>3 DEF Over
  <2>5. ASSUME NEW some, Touches(call.text, some) \/ Touches(part, some)
        PROVE  Touches(text, some)
    <3>1. call.live = 0 => ~Touches(call.text, some)
      BY DEF CallOK, Touches
    <3>2. Touches(call.text \o sep \o part, some)
      BY <2>4, <2>5, TouchesConcat
    <3> QED BY <2>5, <3>1, <3>2
  <2>6. Over(text, cols)
    BY <2>3
  <2> HIDE DEF text, p
  <2> QED BY <1>2, <2>1, <2>5, <2>6 DEF p
<1> QED BY <1>1, <1>2

LEMMA ReturnedReads ==
  ASSUME NEW call, CallOK(call), NEW cols, Over(call.text, cols)
  PROVE  /\ Over(Returned(call), cols)
         /\ \A some : Touches(call.text, some) => Touches(Returned(call), some)
         /\ Returned(call) # <<>> => call.live > 0
<1> DEFINE open == <<Word("(")>>
           close == <<Word(")")>>
<1>1. Over(open, cols) /\ Over(close, cols)
  BY OverWord
<1>2. \/ call.live = 0 /\ Returned(call) = <<>>
      \/ call.live > 0 /\ Returned(call) = Negated(call.text)
      \/ call.live > 0 /\ Returned(call) = call.text
      \/ call.live > 0 /\ Returned(call) = open \o call.text \o close
  BY DEF Returned, CallOK
<1> HIDE DEF open, close
<1>3. Over(open \o call.text, cols) /\ Over(open \o call.text \o close, cols)
  BY <1>1, OverConcat
<1>4. IsSeq(open) /\ IsSeq(call.text) /\ IsSeq(close) /\ IsSeq(open \o call.text)
  BY <1>1, <1>3 DEF Over
<1>5. \A some : Touches(call.text, some) => Touches(open \o call.text \o close, some)
  BY <1>4, TouchesConcat
<1>6. call.live = 0 => \A some : ~Touches(call.text, some)
  BY DEF CallOK, Touches
<1>7. Over(<<>>, cols)
  BY OverNothing
<1>8. Over(Negated(call.text), cols) /\ \A some : Touches(call.text, some) => Touches(Negated(call.text), some)
  BY NegatedOver
<1> QED BY <1>2, <1>3, <1>5, <1>6, <1>7, <1>8

(***************************************************************************)
(* The stacks that the actions leave.                                      *)
(***************************************************************************)
LEMMA Replaced ==
  ASSUME NEW calls, IsSeq(calls), calls # <<>>, NEW x,
         NEW n, n = Len(calls), NEW more, more = Append(SubSeq(calls, 1, n - 1), x)
  PROVE  /\ n \in Nat /\ n # 0 /\ DOMAIN calls = 1 .. n
         /\ IsSeq(more) /\ Len(more) = n /\ DOMAIN more = 1 .. n
         /\ \A i \in 1 .. n : i # n => more[i] = calls[i]
         /\ more[n] = x
<1> DEFINE below == SubSeq(calls, 1, n - 1)
<1>1. n \in Nat /\ n # 0 /\ DOMAIN calls = 1 .. n
  BY IsSeqLen
<1> HIDE DEF below
<1>2. n - 1 \in Nat /\ n - 1 <= n
  BY <1>1
<1>3. IsSeq(below) /\ Len(below) = n - 1 /\ \A i \in 1 .. n - 1 : below[i] = calls[i]
  BY <1>2, IsSeqPrefix DEF below
<1>4. IsSeq(more) /\ Len(more) = n - 1 + 1 /\ (\A i \in 1 .. n - 1 : more[i] = below[i]) /\ more[n - 1 + 1] = x
  BY <1>3, IsSeqAppend DEF below
<1>5. n - 1 + 1 = n /\ \A i \in 1 .. n : i # n => i \in 1 .. n - 1
  BY <1>1
<1>6. DOMAIN more = 1 .. n /\ Len(more) = n
  BY <1>4, <1>5, IsSeqLen
<1>7. \A i \in 1 .. n : i # n => more[i] = calls[i]
  BY <1>3, <1>4, <1>5
<1> QED BY <1>1, <1>4, <1>5, <1>6, <1>7

LEMMA Opened ==
  ASSUME NEW calls, IsSeq(calls), calls # <<>>, NEW x, NEW n, n = Len(calls),
         NEW one, one = Append(SubSeq(calls, 1, n - 1), x), NEW y, NEW more, more = Append(one, y)
  PROVE  /\ n \in Nat /\ n # 0 /\ DOMAIN calls = 1 .. n
         /\ IsSeq(more) /\ Len(more) = n + 1 /\ DOMAIN more = 1 .. n + 1
         /\ \A i \in 1 .. n : i # n => more[i] = calls[i]
         /\ more[n] = x /\ more[n + 1] = y
<1>1. /\ n \in Nat /\ n # 0 /\ DOMAIN calls = 1 .. n
      /\ Len(one) = n /\ DOMAIN one = 1 .. n
      /\ \A i \in 1 .. n : i # n => one[i] = calls[i]
      /\ one[n] = x
  BY Replaced
<1>2. IsSeq(one)
  BY Replaced
<1>3. /\ IsSeq(more) /\ Len(more) = n + 1
      /\ \A i \in 1 .. n : more[i] = one[i]
      /\ more[n + 1] = y
  BY <1>1, <1>2, IsSeqAppend
<1>4. DOMAIN more = 1 .. n + 1
  BY <1>3, IsSeqLen
<1>5. n \in 1 .. n
  BY <1>1
<1> QED BY <1>1, <1>3, <1>4, <1>5

LEMMA Closed ==
  ASSUME NEW calls, IsSeq(calls), Len(calls) > 1, NEW x,
         NEW n, n = Len(calls), NEW more, more = Append(SubSeq(calls, 1, n - 2), x)
  PROVE  /\ n \in Nat /\ n > 1 /\ DOMAIN calls = 1 .. n
         /\ IsSeq(more) /\ Len(more) = n - 1 /\ DOMAIN more = 1 .. n - 1
         /\ \A i \in 1 .. n - 1 : i # n - 1 => more[i] = calls[i]
         /\ more[n - 1] = x
<1> DEFINE under == SubSeq(calls, 1, n - 2)
<1>1. n \in Nat /\ n > 1 /\ DOMAIN calls = 1 .. n
  BY IsSeqLen
<1> HIDE DEF under
<1>2. n - 2 \in Nat /\ n - 2 <= n
  BY <1>1
<1>3. IsSeq(under) /\ Len(under) = n - 2 /\ \A i \in 1 .. n - 2 : under[i] = calls[i]
  BY <1>2, IsSeqPrefix DEF under
<1>4. IsSeq(more) /\ Len(more) = n - 2 + 1 /\ (\A i \in 1 .. n - 2 : more[i] = under[i]) /\ more[n - 2 + 1] = x
  BY <1>3, IsSeqAppend DEF under
<1>5. n - 2 + 1 = n - 1 /\ \A i \in 1 .. n - 1 : i # n - 1 => i \in 1 .. n - 2
  BY <1>1
<1>6. DOMAIN more = 1 .. n - 1 /\ Len(more) = n - 1
  BY <1>4, <1>5, IsSeqLen
<1>7. \A i \in 1 .. n - 1 : i # n - 1 => more[i] = calls[i]
  BY <1>3, <1>4, <1>5
<1> QED BY <1>1, <1>4, <1>5, <1>6, <1>7

LEMMA ReplaceReads ==
  ASSUME NEW C, NEW calls, IsSeq(calls), calls # <<>>, NEW n, n = Len(calls), StackReads(C, calls),
         NEW x, CallReads(C, x), x.form = calls[n].form,
         NEW more, more = Append(SubSeq(calls, 1, n - 1), x)
  PROVE  StackReads(C, more)
<1>1. /\ n \in Nat /\ n # 0 /\ DOMAIN calls = 1 .. n
      /\ Len(more) = n /\ DOMAIN more = 1 .. n
      /\ \A i \in 1 .. n : i # n => more[i] = calls[i]
      /\ more[n] = x
  BY Replaced
<1>2. \A i \in 1 .. n : CallReads(C, more[i]) /\ more[i].form = calls[i].form
  BY <1>1 DEF StackReads
<1> QED BY <1>1, <1>2 DEF StackReads, SearchInside

LEMMA OpenReads ==
  ASSUME NEW C, NEW calls, IsSeq(calls), calls # <<>>, NEW n, n = Len(calls), StackReads(C, calls),
         NEW x, CallReads(C, x), x.form = calls[n].form, x.form # "search", NEW y, CallReads(C, y),
         NEW one, one = Append(SubSeq(calls, 1, n - 1), x), NEW more, more = Append(one, y)
  PROVE  StackReads(C, more)
<1>1. /\ n \in Nat /\ n # 0 /\ DOMAIN calls = 1 .. n
      /\ Len(more) = n + 1 /\ DOMAIN more = 1 .. n + 1
      /\ \A i \in 1 .. n : i # n => more[i] = calls[i]
      /\ more[n] = x /\ more[n + 1] = y
  BY Opened
<1>2. \A i \in 1 .. n + 1 : i = n + 1 \/ i \in 1 .. n
  BY <1>1
<1>3. \A i \in 1 .. n : CallReads(C, more[i]) /\ more[i].form # "search"
  <2> SUFFICES ASSUME NEW i \in 1 .. n PROVE CallReads(C, more[i]) /\ more[i].form # "search"
    OBVIOUS
  <2>1. CASE i = n
    BY <1>1, <2>1
  <2>2. CASE i # n
    BY <1>1, <2>2 DEF StackReads, SearchInside
  <2> QED BY <2>1, <2>2
<1>4. n + 1 # 1
  BY <1>1
<1> QED BY <1>1, <1>2, <1>3, <1>4 DEF StackReads, SearchInside

LEMMA CloseReads ==
  ASSUME NEW C, NEW calls, IsSeq(calls), Len(calls) > 1, NEW n, n = Len(calls), StackReads(C, calls),
         NEW x, CallReads(C, x), x.form = calls[n - 1].form,
         NEW more, more = Append(SubSeq(calls, 1, n - 2), x)
  PROVE  StackReads(C, more) /\ x.form # "search"
<1>1. /\ n \in Nat /\ n > 1 /\ DOMAIN calls = 1 .. n
      /\ Len(more) = n - 1 /\ DOMAIN more = 1 .. n - 1
      /\ \A i \in 1 .. n - 1 : i # n - 1 => more[i] = calls[i]
      /\ more[n - 1] = x
  BY Closed
<1>2. \A i \in 1 .. n - 1 : i \in 1 .. n /\ i # n /\ calls[i].form # "search"
  BY <1>1 DEF StackReads, SearchInside
<1>3. n - 1 \in 1 .. n - 1
  BY <1>1
<1>4. \A i \in 1 .. n - 1 : CallReads(C, more[i]) /\ more[i].form # "search"
  BY <1>1, <1>2, <1>3 DEF StackReads
<1> QED BY <1>1, <1>2, <1>3, <1>4 DEF StackReads, SearchInside

LEMMA ReplaceServes ==
  ASSUME NEW calls, IsSeq(calls), calls # <<>>, NEW n, n = Len(calls), NEW K, Serves(calls, K), NEW L, K \subseteq L,
         NEW x, x.form = calls[n].form,
         x.form # "search" =>
           /\ Over(x.text, ColumnsOfAll(L))
           /\ \A some : Touches(calls[n].text, some) => Touches(x.text, some),
         AllSaySomething => \A k \in L : k \in K \/ (x.form # "search" /\ Touches(x.text, ColumnsOf(k))),
         NEW more, more = Append(SubSeq(calls, 1, n - 1), x)
  PROVE  Serves(more, L)
<1>1. /\ n \in Nat /\ n # 0 /\ DOMAIN calls = 1 .. n
      /\ Len(more) = n /\ DOMAIN more = 1 .. n
      /\ \A i \in 1 .. n : i # n => more[i] = calls[i]
      /\ more[n] = x
  BY Replaced
<1>2. ColumnsOfAll(K) \subseteq ColumnsOfAll(L)
  BY DEF ColumnsOfAll
<1>3. ASSUME NEW i \in 1 .. n, more[i].form # "search"
      PROVE  Over(more[i].text, ColumnsOfAll(L))
  <2>1. CASE i = n
    BY <1>1, <1>3, <2>1
  <2>2. CASE i # n
    BY <1>1, <1>2, <1>3, <2>2, OverMore DEF Serves
  <2> QED BY <2>1, <2>2
<1>4. ASSUME AllSaySomething, NEW k \in L
      PROVE  \E i \in 1 .. n : more[i].form # "search" /\ Touches(more[i].text, ColumnsOf(k))
  <2>1. CASE k \in K
    <3>1. PICK i \in 1 .. n : calls[i].form # "search" /\ Touches(calls[i].text, ColumnsOf(k))
      BY <1>1, <1>4, <2>1 DEF Serves
    <3>2. CASE i = n
      BY <1>1, <3>1, <3>2
    <3>3. CASE i # n
      BY <1>1, <3>1, <3>3
    <3> QED BY <3>2, <3>3
  <2>2. CASE k \notin K
    <3>1. n \in 1 .. n
      BY <1>1
    <3> QED BY <1>1, <1>4, <2>2, <3>1
  <2> QED BY <2>1, <2>2
<1> QED BY <1>1, <1>3, <1>4 DEF Serves

LEMMA OpenServes ==
  ASSUME NEW calls, IsSeq(calls), calls # <<>>, NEW n, n = Len(calls), NEW K, Serves(calls, K),
         NEW x, x.form = calls[n].form, x.text = calls[n].text,
         NEW y, y.text = <<>>,
         NEW one, one = Append(SubSeq(calls, 1, n - 1), x), NEW more, more = Append(one, y)
  PROVE  Serves(more, K)
<1>1. /\ n \in Nat /\ n # 0 /\ DOMAIN calls = 1 .. n
      /\ Len(more) = n + 1 /\ DOMAIN more = 1 .. n + 1
      /\ \A i \in 1 .. n : i # n => more[i] = calls[i]
      /\ more[n] = x /\ more[n + 1] = y
  BY Opened
<1>2. /\ \A i \in 1 .. n + 1 : i = n + 1 \/ i \in 1 .. n
      /\ \A i \in 1 .. n : i \in 1 .. n + 1
  BY <1>1
<1>3. \A i \in 1 .. n : more[i].form = calls[i].form /\ more[i].text = calls[i].text
  BY <1>1
<1>4. ASSUME NEW i \in 1 .. n + 1, more[i].form # "search" PROVE Over(more[i].text, ColumnsOfAll(K))
  <2>1. CASE i = n + 1
    BY <1>1, <2>1, OverNothing
  <2>2. CASE i \in 1 .. n
    BY <1>1, <1>3, <1>4, <2>2 DEF Serves
  <2> QED BY <1>2, <2>1, <2>2
<1>5. AllSaySomething => \A k \in K : \E i \in 1 .. n + 1 :
         more[i].form # "search" /\ Touches(more[i].text, ColumnsOf(k))
  BY <1>1, <1>2, <1>3 DEF Serves
<1> QED BY <1>1, <1>4, <1>5 DEF Serves

LEMMA CloseServes ==
  ASSUME NEW calls, IsSeq(calls), Len(calls) > 1, NEW n, n = Len(calls), NEW K, Serves(calls, K), NEW L, K \subseteq L,
         NEW x, x.form # "search",
         Over(x.text, ColumnsOfAll(L)),
         \A some : Touches(calls[n - 1].text, some) => Touches(x.text, some),
         calls[n].form # "search" =>
           \A some : Touches(calls[n].text, some) => Touches(x.text, some),
         AllSaySomething => \A k \in L : k \in K \/ Touches(x.text, ColumnsOf(k)),
         NEW more, more = Append(SubSeq(calls, 1, n - 2), x)
  PROVE  Serves(more, L)
<1>1. /\ n \in Nat /\ n > 1 /\ DOMAIN calls = 1 .. n
      /\ Len(more) = n - 1 /\ DOMAIN more = 1 .. n - 1
      /\ \A i \in 1 .. n - 1 : i # n - 1 => more[i] = calls[i]
      /\ more[n - 1] = x
  BY Closed
<1>2. ColumnsOfAll(K) \subseteq ColumnsOfAll(L)
  BY DEF ColumnsOfAll
<1>3. /\ n - 1 \in 1 .. n - 1
      /\ \A i \in 1 .. n - 1 : i \in 1 .. n
      /\ \A i \in 1 .. n : i = n \/ i = n - 1 \/ (i \in 1 .. n - 1 /\ i # n - 1)
  BY <1>1
<1>4. ASSUME NEW i \in 1 .. n - 1, more[i].form # "search"
      PROVE  Over(more[i].text, ColumnsOfAll(L))
  <2>1. CASE i = n - 1
    BY <1>1, <1>4, <2>1
  <2>2. CASE i # n - 1
    BY <1>1, <1>2, <1>3, <1>4, <2>2, OverMore DEF Serves
  <2> QED BY <2>1, <2>2
<1>5. ASSUME AllSaySomething, NEW k \in L
      PROVE  \E i \in 1 .. n - 1 : more[i].form # "search" /\ Touches(more[i].text, ColumnsOf(k))
  <2>1. CASE k \in K
    <3>1. PICK i \in 1 .. n : calls[i].form # "search" /\ Touches(calls[i].text, ColumnsOf(k))
      BY <1>1, <1>5, <2>1 DEF Serves
    <3>2. CASE i = n \/ i = n - 1
      BY <1>1, <1>3, <3>1, <3>2
    <3>3. CASE i \in 1 .. n - 1 /\ i # n - 1
      BY <1>1, <3>1, <3>3
    <3> QED BY <1>3, <3>2, <3>3
  <2>2. CASE k \notin K
    BY <1>1, <1>3, <1>5, <2>2
  <2> QED BY <2>1, <2>2
<1> QED BY <1>1, <1>4, <1>5 DEF Serves

LEMMA TwoMore ==
  ASSUME NEW calls, IsSeq(calls), NEW x, NEW y
  PROVE  calls \o <<x, y>> = Append(Append(calls, x), y)
<1> DEFINE R == {calls[i] : i \in DOMAIN calls} \cup {x, y}
<1>1. calls \in Seq(R) /\ x \in R /\ y \in R
  BY SeqMonotonic DEF IsSeq
<1> HIDE DEF R
<1> QED BY <1>1

(***************************************************************************)
(* The actions, and the columns read.                                      *)
(***************************************************************************)
LEMMA InnerReads ==
  ASSUME NEW C, NEW base, Rendering(base), Reading(C), result = "running"
  PROVE  /\ IsSeq(stack) /\ stack # <<>> /\ CallOK(Inner) /\ IsSeq(Below)
         /\ StackReads(C, stack) /\ CallReads(C, Inner)
         /\ Inner = stack[Len(stack)] /\ Below = SubSeq(stack, 1, Len(stack) - 1)
<1>1. IsSeq(stack) /\ stack # <<>> /\ CallOK(Inner) /\ StackOK(base, Below, Inner.from)
  BY Innermost
<1>2. Len(stack) \in DOMAIN stack
  BY <1>1, IsSeqLen
<1>3. StackReads(C, stack) /\ CallReads(C, Inner)
  BY <1>2 DEF Reading, StackReads, Inner
<1> QED BY <1>1, <1>3 DEF Inner, Below, StackOK

LEMMA OnwardReads ==
  ASSUME NEW C, CallOK(Inner), CallReads(C, Inner), Inner.rest # <<>>
  PROVE  /\ Inner.form # "search" /\ Onward.form = Inner.form /\ Onward.text = Inner.text
         /\ CallReads(C, Onward) /\ Node \in C
<1>1. Onward = [form |-> Inner.form, node |-> Inner.node, rest |-> Tail(Inner.rest), cols |-> Inner.cols,
                text |-> Inner.text, live |-> Inner.live, from |-> Inner.from]
  BY Advance DEF Onward
<1>2. Inner.rest \in Seq(C) /\ Inner.form # "search"
  BY DEF CallReads
<1>3. Tail(Inner.rest) \in Seq(C) /\ Node \in C
  BY <1>2, HeadTailProperties DEF Node
<1> QED BY <1>1, <1>2, <1>3 DEF CallReads

LEMMA SkipReading == ASSUME NEW C, NEW base, Rendering(base), Reading(C), Skip PROVE Reading(C)'
<1>1. /\ Inner.rest # <<>> /\ result = "running" /\ result' = "running"
      /\ stack' = Append(Below, Onward)
  BY DEF Skip, Visiting
<1>2. /\ IsSeq(stack) /\ stack # <<>> /\ CallOK(Inner) /\ CallReads(C, Inner) /\ StackReads(C, stack)
      /\ Inner = stack[Len(stack)] /\ Below = SubSeq(stack, 1, Len(stack) - 1)
  BY <1>1, InnerReads
<1>3. CallReads(C, Onward) /\ Onward.form = stack[Len(stack)].form
  BY <1>1, <1>2, OnwardReads
<1>4. StackReads(C, stack')
  BY <1>1, <1>2, <1>3, ReplaceReads
<1> QED BY <1>1, <1>4 DEF Reading

LEMMA DescendReading == ASSUME NEW C, ChildrenIn(C), NEW base, Rendering(base), Reading(C), Descend PROVE Reading(C)'
<1>1. PICK form \in {"and", "or", "not"} :
        /\ Inner.rest # <<>> /\ result = "running" /\ result' = "running"
        /\ stack' = Below \o <<Onward, Call(form, Node, Node[form], <<>>)>>
  BY DEF Descend, Visiting
<1>2. /\ IsSeq(stack) /\ stack # <<>> /\ CallOK(Inner) /\ CallReads(C, Inner) /\ StackReads(C, stack)
      /\ Inner = stack[Len(stack)] /\ Below = SubSeq(stack, 1, Len(stack) - 1) /\ IsSeq(Below)
  BY <1>1, InnerReads
<1>3. CallReads(C, Onward) /\ Onward.form = stack[Len(stack)].form /\ Onward.form # "search" /\ Node \in C
  BY <1>1, <1>2, OnwardReads
<1> DEFINE call == Call(form, Node, Node[form], <<>>)
<1>4. Node[form] \in Seq(C)
  BY <1>3 DEF ChildrenIn
<1>5. CallReads(C, call)
  BY <1>4, OverNothing DEF CallReads, Call
<1> HIDE DEF call
<1>6. stack' = Append(Append(Below, Onward), call)
  BY <1>1, <1>2, TwoMore DEF call
<1>7. StackReads(C, stack')
  BY <1>2, <1>3, <1>5, <1>6, OpenReads
<1> QED BY <1>1, <1>7 DEF Reading

LEMMA LeafHasKey == ASSUME AtLeaf PROVE Node.key # ""
BY DEF AtLeaf, Forms

\* What a leaf over the one column of its field comes out as.
LEMMA LeafReads ==
  ASSUME NEW C, NEW base, Rendering(base), Reading(C), result = "running", Inner.rest # <<>>,
         AtLeaf, Known, Allows(Field, Node.op), Field.search = <<>>,
         NEW r, r = Resolve(dialect, Field, Column(Node.key), Hooked, Len(args))
  PROVE  /\ Node.key \in FieldsOf(C)
         /\ Over(r.text, ColumnsOf(Node.key))
         /\ AllSaySomething /\ r.text # <<>> => Touches(r.text, ColumnsOf(Node.key))
<1>1. CallOK(Inner) /\ CallReads(C, Inner)
  BY InnerReads
<1>2. Node \in C
  BY <1>1, OnwardReads
<1>3. Node \in Condition /\ IsSeq(Node.values) /\ Node.pairs \in Seq(KeyValue)
  BY <1>1, OnwardOK
<1>4. Hooked.op = Node.op /\ Hooked.pairs = Node.pairs
  BY <1>3, HookedOK
<1>5. ColumnsOf(Node.key) = {Column(Node.key)}
  BY DEF ColumnsOf, Field
<1>6. /\ Over(r.text, {Column(Node.key)})
      /\ SaysSomething(Hooked) => Reads(r, Column(Node.key))
  BY <1>3, <1>4, ResolveReads DEF Rendering
<1>7. AllSaySomething => SaysSomething(Hooked)
  BY <1>3, <1>4 DEF AllSaySomething, SaysSomething
<1>8. Node.key \in FieldsOf(C)
  BY <1>2, LeafHasKey DEF FieldsOf, Known
<1> QED BY <1>5, <1>6, <1>7, <1>8 DEF Reads

LEMMA RenderLeafReading == ASSUME NEW C, NEW base, Rendering(base), Reading(C), RenderLeaf PROVE Reading(C)'
<1> DEFINE r == Resolve(dialect, Field, Column(Node.key), Hooked, Len(args))
<1>1. /\ Inner.rest # <<>> /\ result = "running" /\ AtLeaf /\ Known /\ Allows(Field, Node.op) /\ Field.search = <<>>
      /\ \/ result' = "ErrBadValue"
         \/ result' = "running" /\ stack' = Append(Below, Plus(Onward, r.text))
  BY DEF RenderLeaf, Admitted, AtLeaf, Visiting, Fail
<1>2. /\ IsSeq(stack) /\ stack # <<>> /\ CallOK(Inner) /\ CallReads(C, Inner) /\ StackReads(C, stack)
      /\ Inner = stack[Len(stack)] /\ Below = SubSeq(stack, 1, Len(stack) - 1)
  BY <1>1, InnerReads
<1>3. CallReads(C, Onward) /\ Onward.form = stack[Len(stack)].form /\ Onward.form # "search"
  BY <1>1, <1>2, OnwardReads
<1>4. CallOK(Onward)
  BY <1>1, <1>2, OnwardOK
<1>5. Node.key \in FieldsOf(C) /\ Over(r.text, ColumnsOf(Node.key))
  BY <1>1, LeafReads
<1> HIDE DEF r
<1>6. Over(r.text, ColumnsOfAll(FieldsOf(C)))
  BY <1>5, ColumnsOfOne, OverMore
<1>7. Over(Onward.text, ColumnsOfAll(FieldsOf(C)))
  BY <1>3 DEF CallReads
<1> DEFINE x == Plus(Onward, r.text)
<1>8. /\ x.form = Onward.form /\ x.rest = Onward.rest /\ x.cols = Onward.cols
      /\ Over(x.text, ColumnsOfAll(FieldsOf(C)))
  BY <1>4, <1>6, <1>7, PlusReads
<1> HIDE DEF x
<1>9. CallReads(C, x) /\ x.form = stack[Len(stack)].form
  BY <1>3, <1>8 DEF CallReads
<1>10. ASSUME result' = "running" PROVE StackReads(C, stack')
  BY <1>1, <1>2, <1>9, <1>10, ReplaceReads DEF x
<1> QED BY <1>1, <1>10 DEF Reading

LEMMA OpenSearchReading == ASSUME NEW C, NEW base, Rendering(base), Reading(C), OpenSearch PROVE Reading(C)'
<1>1. /\ Inner.rest # <<>> /\ result = "running" /\ result' = "running"
      /\ AtLeaf /\ Known /\ Field.search # <<>>
      /\ stack' = Below \o <<Onward, Call("search", Hooked, <<>>, Field.search)>>
  BY DEF OpenSearch, Admitted, AtLeaf, Visiting
<1>2. /\ IsSeq(stack) /\ stack # <<>> /\ CallOK(Inner) /\ CallReads(C, Inner) /\ StackReads(C, stack)
      /\ Inner = stack[Len(stack)] /\ Below = SubSeq(stack, 1, Len(stack) - 1) /\ IsSeq(Below)
  BY <1>1, InnerReads
<1>3. CallReads(C, Onward) /\ Onward.form = stack[Len(stack)].form /\ Onward.form # "search" /\ Node \in C
  BY <1>1, <1>2, OnwardReads
<1>4. Node \in Condition /\ IsSeq(Node.values)
  BY <1>1, <1>2, OnwardOK
<1>5. Hooked.key = Node.key /\ Hooked.op = Node.op /\ Hooked.pairs = Node.pairs
  BY <1>4, HookedOK
<1>6. ColumnsOf(Node.key) = ToSet(Field.search)
  BY <1>1 DEF ColumnsOf, Field
<1>7. Node.key \in FieldsOf(C)
  BY <1>1, <1>3, LeafHasKey DEF FieldsOf, Known
<1>8. AllSaySomething => SaysSomething(Hooked)
  BY <1>4, <1>5 DEF AllSaySomething, SaysSomething
<1> DEFINE call == Call("search", Hooked, <<>>, Field.search)
<1>9. CallReads(C, call)
  <2>1. <<>> \in Seq(C)
    BY EmptySeq
  <2>2. /\ call.form = "search" /\ call.rest = <<>> /\ call.node = Hooked /\ call.cols = Field.search
        /\ call.text = <<>> /\ call.live = 0
    BY DEF Call
  <2> HIDE DEF call
  <2> QED BY <1>5, <1>6, <1>7, <1>8, <2>1, <2>2, OverNothing DEF CallReads
<1> HIDE DEF call
<1>10. stack' = Append(Append(Below, Onward), call)
  BY <1>1, <1>2, TwoMore DEF call
<1>11. StackReads(C, stack')
  BY <1>2, <1>3, <1>9, <1>10, OpenReads
<1> QED BY <1>1, <1>11 DEF Reading

LEMMA HeadAndRest ==
  ASSUME NEW s, IsSeq(s), s # <<>>
  PROVE  Head(s) \in ToSet(s) /\ ToSet(Tail(s)) \subseteq ToSet(s)
<1> DEFINE tail == Tail(s)
<1>1. /\ Len(s) \in Nat /\ Len(s) # 0 /\ DOMAIN s = 1 .. Len(s)
      /\ IsSeq(tail) /\ Len(tail) = Len(s) - 1 /\ \A i \in 1 .. Len(s) - 1 : tail[i] = s[i + 1]
      /\ Head(s) = s[1]
  BY IsSeqLen, IsSeqTail
<1>2. DOMAIN tail = 1 .. Len(s) - 1
  BY <1>1, IsSeqLen
<1> HIDE DEF tail
<1>3. 1 \in DOMAIN s /\ \A i \in 1 .. Len(s) - 1 : i + 1 \in DOMAIN s
  BY <1>1
<1> QED BY <1>1, <1>2, <1>3 DEF ToSet, tail

\* The next column of a search, and what the leaf comes out as over it.
LEMMA ColumnReads ==
  ASSUME NEW C, CallOK(Inner), CallReads(C, Inner), Inner.cols # <<>>, dialect \in Dialect,
         NEW r, r = Resolve(dialect, Registry[Inner.node.key], Head(Inner.cols), Inner.node, Len(args))
  PROVE  /\ Inner.form = "search"
         /\ Over(r.text, ColumnsOf(Inner.node.key))
         /\ AllSaySomething /\ r.text # <<>> => Touches(r.text, ColumnsOf(Inner.node.key))
         /\ ToSet(Tail(Inner.cols)) \subseteq ColumnsOf(Inner.node.key)
<1>1. Inner.form = "search" /\ ToSet(Inner.cols) \subseteq ColumnsOf(Inner.node.key)
  BY DEF CallReads
<1>2. /\ IsSeq(Inner.cols) /\ Allows(Registry[Inner.node.key], Inner.node.op)
      /\ Inner.node.pairs \in Seq(KeyValue)
  BY DEF CallOK
<1>3. /\ Over(r.text, {Head(Inner.cols)})
      /\ SaysSomething(Inner.node) => Reads(r, Head(Inner.cols))
  BY <1>2, ResolveReads
<1> DEFINE cols == Inner.cols
           tail == Tail(cols)
<1>7. Head(cols) \in ToSet(cols)
  BY <1>2, HeadAndRest
<1>8. ToSet(tail) \subseteq ToSet(cols)
  BY <1>2, HeadAndRest
<1> HIDE DEF cols, tail
<1>9. {Head(cols)} \subseteq ColumnsOf(Inner.node.key)
  BY <1>1, <1>7 DEF cols
<1>10. Over(r.text, ColumnsOf(Inner.node.key))
  BY <1>3, <1>9, OverMore DEF cols
<1>11. AllSaySomething => SaysSomething(Inner.node)
  BY <1>1 DEF CallReads
<1>12. Touches(r.text, {Head(cols)}) => Touches(r.text, ColumnsOf(Inner.node.key))
  BY <1>9 DEF Touches
<1> QED BY <1>1, <1>3, <1>8, <1>10, <1>11, <1>12 DEF Reads, cols, tail

LEMMA SearchColumnReading == ASSUME NEW C, NEW base, Rendering(base), Reading(C), SearchColumn PROVE Reading(C)'
<1> DEFINE c == Inner.node
           r == Resolve(dialect, Registry[c.key], Head(Inner.cols), c, Len(args))
           call == [Inner EXCEPT !.cols = Tail(@)]
           x == Plus(call, r.text)
<1>1. /\ Inner.cols # <<>> /\ result = "running"
      /\ \/ result' = "ErrBadValue"
         \/ result' = "running" /\ stack' = Append(Below, x)
  BY DEF SearchColumn, Fail
<1>2. /\ IsSeq(stack) /\ stack # <<>> /\ CallOK(Inner) /\ CallReads(C, Inner) /\ StackReads(C, stack)
      /\ Inner = stack[Len(stack)] /\ Below = SubSeq(stack, 1, Len(stack) - 1)
  BY <1>1, InnerReads
<1>3. /\ Inner.form = "search"
      /\ Over(r.text, ColumnsOf(c.key))
      /\ AllSaySomething /\ r.text # <<>> => Touches(r.text, ColumnsOf(c.key))
      /\ ToSet(Tail(Inner.cols)) \subseteq ColumnsOf(c.key)
  BY <1>1, <1>2, ColumnReads DEF Rendering
<1>4. call = [form |-> Inner.form, node |-> c, rest |-> Inner.rest, cols |-> Tail(Inner.cols),
              text |-> Inner.text, live |-> Inner.live, from |-> Inner.from]
  BY <1>2, Advance
<1>5. IsSeq(Tail(Inner.cols))
  BY <1>1, <1>2, IsSeqTail DEF CallOK
<1> HIDE DEF r, call, x
<1>6. CallOK(call)
  BY <1>1, <1>2, <1>4, <1>5 DEF CallOK
<1>7. /\ call.form = "search" /\ call.node = c /\ call.rest = <<>> /\ call.live = Inner.live
      /\ call.text = Inner.text /\ call.cols = Tail(Inner.cols) /\ call.rest \in Seq(C)
      /\ Over(Inner.text, ColumnsOf(c.key)) /\ c.key \in FieldsOf(C)
      /\ AllSaySomething => SaysSomething(c)
                            /\ (Inner.live > 0 => Touches(Inner.text, ColumnsOf(c.key)))
  BY <1>2, <1>3, <1>4 DEF CallReads
<1>8. /\ x.form = "search" /\ x.node = c /\ x.rest = <<>> /\ x.cols = Tail(Inner.cols) /\ x.rest \in Seq(C)
      /\ Over(x.text, ColumnsOf(c.key))
      /\ \A some : Touches(call.text, some) \/ Touches(r.text, some) => Touches(x.text, some)
      /\ x.live > 0 => call.live > 0 \/ r.text # <<>>
  <2> HIDE DEF c
  <2> QED BY <1>3, <1>6, <1>7, PlusReads DEF x
<1>9. AllSaySomething /\ x.live > 0 => Touches(x.text, ColumnsOf(c.key))
  BY <1>3, <1>7, <1>8
<1>10. CallReads(C, x) /\ x.form = stack[Len(stack)].form
  BY <1>2, <1>3, <1>7, <1>8, <1>9 DEF CallReads
<1>11. ASSUME result' = "running" PROVE StackReads(C, stack')
  BY <1>1, <1>2, <1>10, <1>11, ReplaceReads
<1> QED BY <1>1, <1>11 DEF Reading

\* The call that the innermost one returns to, and what it gets.
LEMMA OuterReads ==
  ASSUME NEW C, NEW base, Rendering(base), Reading(C), result = "running", Len(stack) > 1,
         NEW outer, outer = stack[Len(stack) - 1], NEW text, text = Returned(Inner)
  PROVE  /\ outer.form # "search" /\ CallOK(outer) /\ CallReads(C, outer)
         /\ \A some : Touches(Inner.text, some) => Touches(text, some)
         /\ text # <<>> => Inner.live > 0
         /\ \A cols : Over(Inner.text, cols) => Over(text, cols)
         /\ Over(text, ColumnsOfAll(FieldsOf(C)))
         /\ Inner.form = "search" => Inner.node.key \in FieldsOf(C) /\ Over(text, ColumnsOf(Inner.node.key))
<1> DEFINE n == Len(stack)
<1>1. /\ IsSeq(stack) /\ CallOK(Inner) /\ CallReads(C, Inner) /\ StackReads(C, stack)
  BY InnerReads
<1>2. n \in Nat /\ DOMAIN stack = 1 .. n /\ n > 1
  BY <1>1, IsSeqLen
<1> HIDE DEF n
<1>3. n - 1 \in DOMAIN stack /\ n - 1 \in 1 .. n /\ n - 1 # n
  BY <1>2
<1>4. CallReads(C, outer) /\ outer.form # "search"
  BY <1>1, <1>3 DEF StackReads, SearchInside, n
<1>5. CallOK(outer)
  BY <1>3 DEF Rendering, StackOK, n
<1>6. \A cols : Over(Inner.text, cols) =>
        /\ Over(text, cols)
        /\ \A some : Touches(Inner.text, some) => Touches(text, some)
        /\ text # <<>> => Inner.live > 0
  BY <1>1, ReturnedReads
<1>7. CASE Inner.form = "search"
  <2>1. Inner.node.key \in FieldsOf(C) /\ Over(Inner.text, ColumnsOf(Inner.node.key))
    BY <1>1, <1>7 DEF CallReads
  <2>2. Over(Inner.text, ColumnsOfAll(FieldsOf(C)))
    BY <2>1, ColumnsOfOne, OverMore
  <2> QED BY <1>4, <1>5, <1>6, <2>1, <2>2
<1>8. CASE Inner.form # "search"
  <2>1. Over(Inner.text, ColumnsOfAll(FieldsOf(C)))
    BY <1>1, <1>8 DEF CallReads
  <2> QED BY <1>4, <1>5, <1>6, <1>8, <2>1
<1> QED BY <1>7, <1>8

LEMMA CloseReading == ASSUME NEW C, NEW base, Rendering(base), Reading(C), Close PROVE Reading(C)'
<1> DEFINE text == Returned(Inner)
           outer == stack[Len(stack) - 1]
           x == Plus(outer, text)
<1>1. /\ result = "running" /\ result' = "running" /\ Len(stack) > 1
      /\ stack' = Append(SubSeq(stack, 1, Len(stack) - 2), x)
  BY DEF Close, Finished
<1>2. IsSeq(stack) /\ StackReads(C, stack)
  BY <1>1, InnerReads
<1>3. /\ outer.form # "search" /\ CallOK(outer) /\ CallReads(C, outer)
      /\ Over(text, ColumnsOfAll(FieldsOf(C)))
  BY <1>1, OuterReads
<1> HIDE DEF text, outer, x
<1>4. Over(outer.text, ColumnsOfAll(FieldsOf(C)))
  BY <1>3 DEF CallReads
<1>5. /\ x.form = outer.form /\ x.rest = outer.rest /\ x.cols = outer.cols
      /\ Over(x.text, ColumnsOfAll(FieldsOf(C)))
  BY <1>3, <1>4, PlusReads DEF x
<1>6. CallReads(C, x) /\ x.form = stack[Len(stack) - 1].form
  BY <1>3, <1>5 DEF CallReads, outer
<1>7. StackReads(C, stack')
  BY <1>1, <1>2, <1>6, CloseReads
<1> QED BY <1>1, <1>7 DEF Reading

\* The outermost call is not a search.
LEMMA OutermostReads ==
  ASSUME NEW C, NEW base, Rendering(base), Reading(C), result = "running", Len(stack) = 1
  PROVE  stack[1] = Inner /\ Inner.form # "search" /\ DOMAIN stack = {1} /\ CallReads(C, Inner)
<1>1. IsSeq(stack) /\ CallReads(C, Inner) /\ StackReads(C, stack) /\ Inner = stack[Len(stack)]
  BY InnerReads
<1>2. DOMAIN stack = {1}
  BY <1>1, IsSeqLen
<1> QED BY <1>1, <1>2 DEF StackReads, SearchInside

LEMMA ReturnReading == ASSUME NEW C, NEW base, Rendering(base), Reading(C), Return PROVE Reading(C)'
<1>1. /\ result = "running" /\ Len(stack) = 1 /\ sql' = Inner.text /\ result' = "ok"
  BY DEF Return, Finished
<1>2. Inner.form # "search" /\ CallReads(C, Inner)
  BY <1>1, OutermostReads
<1> QED BY <1>1, <1>2 DEF Reading, CallReads

LEMMA FailingReading ==
  ASSUME NEW C, NEW error, error # "ok", error # "running", NEW bound, Fail(error, bound)
  PROVE  Reading(C)'
BY DEF Reading, Fail

LEMMA NextReading ==
  ASSUME NEW C, ChildrenIn(C), NEW base, Rendering(base), Reading(C), [Next]_vars
  PROVE  Reading(C)'
<1>1. CASE Skip
  BY <1>1, SkipReading
<1>2. CASE Malformed
  BY <1>2, FailingReading DEF Malformed
<1>3. CASE Descend
  BY <1>3, DescendReading
<1>4. CASE UnknownField
  BY <1>4, FailingReading DEF UnknownField
<1>5. CASE BadOperator
  BY <1>5, FailingReading DEF BadOperator
<1>6. CASE HooksFail
  BY <1>6, FailingReading DEF HooksFail
<1>7. CASE RenderLeaf
  BY <1>7, RenderLeafReading
<1>8. CASE OpenSearch
  BY <1>8, OpenSearchReading
<1>9. CASE SearchColumn
  BY <1>9, SearchColumnReading
<1>10. CASE Close
  BY <1>10, CloseReading
<1>11. CASE Return
  BY <1>11, ReturnReading
<1>12. CASE UNCHANGED vars
  BY <1>12 DEF vars, Reading
<1> QED
  BY <1>1, <1>2, <1>3, <1>4, <1>5, <1>6, <1>7, <1>8, <1>9, <1>10, <1>11, <1>12 DEF Next

\* A rendering of conditions of C begins with nothing read.
LEMMA BeginReading ==
  ASSUME NEW C, NEW conds \in Seq(C), NEW base, NEW top,
         top = [form |-> "top", node |-> Empty, rest |-> conds, cols |-> <<>>,
                text |-> <<>>, live |-> 0, from |-> base]
  PROVE  StackReads(C, <<top>>) /\ Serves(<<top>>, {})
<1>1. DOMAIN <<top>> = {1} /\ <<top>>[1] = top
  OBVIOUS
<1>2. top.form = "top" /\ top.rest = conds /\ top.cols = <<>> /\ top.text = <<>>
  OBVIOUS
<1> QED BY <1>1, <1>2, OverNothing DEF StackReads, SearchInside, CallReads, Serves

(***************************************************************************)
(* The actions, and the joins recorded.                                    *)
(***************************************************************************)
LEMMA RecordingSame ==
  ASSUME Recording, joinKeys' = joinKeys, result = "running", result' # "ok",
         \A K \in SUBSET DOMAIN Registry : result' = "running" /\ Serves(stack, K) => Serves(stack', K)
  PROVE  Recording'
BY DEF Recording

LEMMA SkipRecording == ASSUME NEW base, Rendering(base), Reading(Condition), Recording, Skip PROVE Recording'
<1>1. /\ Inner.rest # <<>> /\ result = "running" /\ result' = "running" /\ joinKeys' = joinKeys
      /\ stack' = Append(Below, Onward)
  BY DEF Skip, Visiting
<1>2. /\ IsSeq(stack) /\ stack # <<>> /\ CallOK(Inner) /\ CallReads(Condition, Inner)
      /\ Inner = stack[Len(stack)] /\ Below = SubSeq(stack, 1, Len(stack) - 1)
  BY <1>1, InnerReads
<1>3. Onward.form = stack[Len(stack)].form /\ Onward.form # "search" /\ Onward.text = stack[Len(stack)].text
  BY <1>1, <1>2, OnwardReads
<1>4. ASSUME NEW K \in SUBSET DOMAIN Registry, Serves(stack, K) PROVE Serves(stack', K)
  <2>1. Over(Onward.text, ColumnsOfAll(K))
    <3>1. Len(stack) \in DOMAIN stack
      BY <1>2, IsSeqLen
    <3> QED BY <1>3, <1>4, <3>1 DEF Serves
  <2> QED BY <1>1, <1>2, <1>3, <1>4, <2>1, ReplaceServes
<1> QED BY <1>1, <1>4, RecordingSame

LEMMA DescendRecording == ASSUME NEW base, Rendering(base), Reading(Condition), Recording, Descend PROVE Recording'
<1>1. PICK form \in {"and", "or", "not"} :
        /\ Inner.rest # <<>> /\ result = "running" /\ result' = "running" /\ joinKeys' = joinKeys
        /\ stack' = Below \o <<Onward, Call(form, Node, Node[form], <<>>)>>
  BY DEF Descend, Visiting
<1>2. /\ IsSeq(stack) /\ stack # <<>> /\ CallOK(Inner) /\ CallReads(Condition, Inner)
      /\ Inner = stack[Len(stack)] /\ Below = SubSeq(stack, 1, Len(stack) - 1) /\ IsSeq(Below)
  BY <1>1, InnerReads
<1>3. Onward.form = stack[Len(stack)].form /\ Onward.text = stack[Len(stack)].text
  BY <1>1, <1>2, OnwardReads
<1> DEFINE call == Call(form, Node, Node[form], <<>>)
<1>4. call.text = <<>>
  BY DEF Call
<1> HIDE DEF call
<1>5. stack' = Append(Append(Below, Onward), call)
  BY <1>1, <1>2, TwoMore DEF call
<1>6. \A K \in SUBSET DOMAIN Registry : Serves(stack, K) => Serves(stack', K)
  BY <1>2, <1>3, <1>4, <1>5, OpenServes
<1> QED BY <1>1, <1>6, RecordingSame

LEMMA OpenSearchRecording ==
  ASSUME NEW base, Rendering(base), Reading(Condition), Recording, OpenSearch PROVE Recording'
<1>1. /\ Inner.rest # <<>> /\ result = "running" /\ result' = "running" /\ joinKeys' = joinKeys
      /\ stack' = Below \o <<Onward, Call("search", Hooked, <<>>, Field.search)>>
  BY DEF OpenSearch, Admitted, AtLeaf, Visiting
<1>2. /\ IsSeq(stack) /\ stack # <<>> /\ CallOK(Inner) /\ CallReads(Condition, Inner)
      /\ Inner = stack[Len(stack)] /\ Below = SubSeq(stack, 1, Len(stack) - 1) /\ IsSeq(Below)
  BY <1>1, InnerReads
<1>3. Onward.form = stack[Len(stack)].form /\ Onward.text = stack[Len(stack)].text
  BY <1>1, <1>2, OnwardReads
<1> DEFINE call == Call("search", Hooked, <<>>, Field.search)
<1>4. call.text = <<>>
  BY DEF Call
<1> HIDE DEF call
<1>5. stack' = Append(Append(Below, Onward), call)
  BY <1>1, <1>2, TwoMore DEF call
<1>6. \A K \in SUBSET DOMAIN Registry : Serves(stack, K) => Serves(stack', K)
  BY <1>2, <1>3, <1>4, <1>5, OpenServes
<1> QED BY <1>1, <1>6, RecordingSame

\* A column of a search: the text of its call is not counted yet.
LEMMA SearchColumnRecording ==
  ASSUME NEW base, Rendering(base), Reading(Condition), Recording, SearchColumn PROVE Recording'
<1> DEFINE c == Inner.node
           r == Resolve(dialect, Registry[c.key], Head(Inner.cols), c, Len(args))
           call == [Inner EXCEPT !.cols = Tail(@)]
           x == Plus(call, r.text)
<1>1. /\ Inner.cols # <<>> /\ result = "running" /\ joinKeys' = joinKeys /\ result' # "ok"
      /\ result' = "running" => stack' = Append(Below, x)
  BY DEF SearchColumn, Fail
<1>2. /\ IsSeq(stack) /\ stack # <<>> /\ CallOK(Inner) /\ CallReads(Condition, Inner)
      /\ Inner = stack[Len(stack)] /\ Below = SubSeq(stack, 1, Len(stack) - 1)
  BY <1>1, InnerReads
<1>3. Inner.form = "search"
  BY <1>1, <1>2 DEF CallReads
<1>4. call.form = Inner.form
  <2>1. call = [form |-> Inner.form, node |-> c, rest |-> Inner.rest, cols |-> Tail(Inner.cols),
                text |-> Inner.text, live |-> Inner.live, from |-> Inner.from]
    BY <1>2, Advance
  <2> HIDE DEF call, c
  <2> QED BY <2>1
<1>5. x.form = "search"
  <2>1. call = [form |-> Inner.form, node |-> c, rest |-> Inner.rest, cols |-> Tail(Inner.cols),
                text |-> Inner.text, live |-> Inner.live, from |-> Inner.from]
    BY <1>2, Advance
  <2> HIDE DEF call, c, r
  <2> QED BY <1>3, <2>1 DEF Plus
<1> HIDE DEF r, call, x
<1>6. ASSUME NEW K \in SUBSET DOMAIN Registry, result' = "running", Serves(stack, K) PROVE Serves(stack', K)
  BY <1>1, <1>2, <1>3, <1>5, <1>6, ReplaceServes
<1> QED BY <1>1, <1>6, RecordingSame

\* What Record does to the fields whose joins are recorded.
LEMMA RecordJoins ==
  ASSUME NEW K \in SUBSET DOMAIN Registry, joinKeys = JoinsOf(K), NEW key \in DOMAIN Registry,
         NEW text, Record(key, text), NEW L, L = IF text = <<>> THEN K ELSE K \cup {key}
  PROVE  L \in SUBSET DOMAIN Registry /\ joinKeys' = JoinsOf(L) /\ K \subseteq L
BY DEF Record, JoinsOf

LEMMA RenderLeafRecording ==
  ASSUME NEW base, Rendering(base), Reading(Condition), Recording, RenderLeaf PROVE Recording'
<1> DEFINE r == Resolve(dialect, Field, Column(Node.key), Hooked, Len(args))
           x == Plus(Onward, r.text)
<1>1. /\ Inner.rest # <<>> /\ result = "running" /\ AtLeaf /\ Known /\ Allows(Field, Node.op) /\ Field.search = <<>>
      /\ \/ result' = "ErrBadValue" /\ joinKeys' = joinKeys
         \/ result' = "running" /\ stack' = Append(Below, x) /\ Record(Node.key, r.text)
  BY DEF RenderLeaf, Admitted, AtLeaf, Visiting, Fail
<1>2. /\ IsSeq(stack) /\ stack # <<>> /\ CallOK(Inner) /\ CallReads(Condition, Inner)
      /\ Inner = stack[Len(stack)] /\ Below = SubSeq(stack, 1, Len(stack) - 1)
  BY <1>1, InnerReads
<1>3. Onward.form = stack[Len(stack)].form /\ Onward.form # "search" /\ Onward.text = stack[Len(stack)].text
  BY <1>1, <1>2, OnwardReads
<1>4. CallOK(Onward)
  BY <1>1, <1>2, OnwardOK
<1>5. /\ Over(r.text, ColumnsOf(Node.key))
      /\ AllSaySomething /\ r.text # <<>> => Touches(r.text, ColumnsOf(Node.key))
  BY <1>1, LeafReads
<1> HIDE DEF r
<1>6. CASE result' = "ErrBadValue" /\ joinKeys' = joinKeys
  BY <1>1, <1>6, RecordingSame
<1>7. CASE result' = "running" /\ stack' = Append(Below, x) /\ Record(Node.key, r.text)
  <2>1. PICK K \in SUBSET DOMAIN Registry : joinKeys = JoinsOf(K) /\ Serves(stack, K)
    BY <1>1 DEF Recording
  <2> DEFINE L == IF r.text = <<>> THEN K ELSE K \cup {Node.key}
  <2>2. L \in SUBSET DOMAIN Registry /\ joinKeys' = JoinsOf(L) /\ K \subseteq L
    BY <1>1, <1>7, <2>1, RecordJoins DEF Known
  <2>3. ColumnsOfAll(K) \subseteq ColumnsOfAll(L) /\ (r.text # <<>> => ColumnsOf(Node.key) \subseteq ColumnsOfAll(L))
    BY DEF ColumnsOfAll
  <2>4. Over(r.text, ColumnsOfAll(L))
    BY <1>5, <2>3, OverMore, OverNothing
  <2>5. Over(Onward.text, ColumnsOfAll(L))
    <3>1. Len(stack) \in DOMAIN stack
      BY <1>2, IsSeqLen
    <3>2. Over(Onward.text, ColumnsOfAll(K))
      BY <1>3, <2>1, <3>1 DEF Serves
    <3> QED BY <2>3, <3>2, OverMore
  <2>6. \A k \in L : k \in K \/ (k = Node.key /\ r.text # <<>>)
    OBVIOUS
  <2> HIDE DEF L
  <2>7. /\ x.form = Onward.form
        /\ Over(x.text, ColumnsOfAll(L))
        /\ \A some : Touches(Onward.text, some) \/ Touches(r.text, some) => Touches(x.text, some)
    BY <1>4, <2>4, <2>5, PlusReads
  <2> HIDE DEF x
  <2>8. Serves(stack', L)
    BY <1>2, <1>3, <1>5, <1>7, <2>1, <2>2, <2>6, <2>7, ReplaceServes
  <2> QED BY <1>7, <2>2, <2>8 DEF Recording
<1> QED BY <1>1, <1>6, <1>7

LEMMA CloseRecording == ASSUME NEW base, Rendering(base), Reading(Condition), Recording, Close PROVE Recording'
<1> DEFINE text == Returned(Inner)
           outer == stack[Len(stack) - 1]
           x == Plus(outer, text)
<1>1. /\ result = "running" /\ result' = "running" /\ Len(stack) > 1
      /\ stack' = Append(SubSeq(stack, 1, Len(stack) - 2), x)
      /\ IF Inner.form = "search" THEN Record(Inner.node.key, text) ELSE joinKeys' = joinKeys
  BY DEF Close, Finished
<1>2. IsSeq(stack) /\ CallReads(Condition, Inner) /\ Inner = stack[Len(stack)]
  BY <1>1, InnerReads
<1>3. /\ outer.form # "search" /\ CallOK(outer)
      /\ \A some : Touches(Inner.text, some) => Touches(text, some)
      /\ text # <<>> => Inner.live > 0
      /\ \A cols : Over(Inner.text, cols) => Over(text, cols)
      /\ Inner.form = "search" => Inner.node.key \in FieldsOf(Condition) /\ Over(text, ColumnsOf(Inner.node.key))
  BY <1>1, OuterReads
<1>4. Len(stack) \in DOMAIN stack /\ Len(stack) - 1 \in DOMAIN stack
  <2> DEFINE n == Len(stack)
  <2>1. n \in Nat /\ n > 1 /\ DOMAIN stack = 1 .. n
    BY <1>1, <1>2, IsSeqLen
  <2> HIDE DEF n
  <2>2. n \in DOMAIN stack /\ n - 1 \in DOMAIN stack
    BY <2>1
  <2> QED BY <2>2 DEF n
<1> HIDE DEF text
<1>5. PICK K \in SUBSET DOMAIN Registry : joinKeys = JoinsOf(K) /\ Serves(stack, K)
  BY <1>1 DEF Recording
<1> DEFINE L == IF Inner.form = "search" /\ text # <<>> THEN K \cup {Inner.node.key} ELSE K
<1>6. L \in SUBSET DOMAIN Registry /\ joinKeys' = JoinsOf(L) /\ K \subseteq L
  <2>1. CASE Inner.form = "search"
    <3>1. Inner.node.key \in DOMAIN Registry /\ Record(Inner.node.key, text)
      BY <1>1, <1>3, <2>1 DEF FieldsOf
    <3>2. L = IF text = <<>> THEN K ELSE K \cup {Inner.node.key}
      BY <2>1
    <3> HIDE DEF L
    <3> QED BY <1>5, <3>1, <3>2, RecordJoins
  <2>2. CASE Inner.form # "search"
    BY <1>1, <1>5, <2>2
  <2> QED BY <2>1, <2>2
<1>7. /\ ColumnsOfAll(K) \subseteq ColumnsOfAll(L)
      /\ Inner.form = "search" /\ text # <<>> => ColumnsOf(Inner.node.key) \subseteq ColumnsOfAll(L)
  BY DEF ColumnsOfAll
<1>8. \A k \in L : k \in K \/ (k = Inner.node.key /\ Inner.form = "search" /\ text # <<>>)
  OBVIOUS
<1> HIDE DEF L
<1>9. Over(text, ColumnsOfAll(L))
  <2>1. CASE Inner.form = "search"
    BY <1>3, <1>7, <2>1, OverMore, OverNothing
  <2>2. CASE Inner.form # "search"
    BY <1>2, <1>3, <1>4, <1>5, <1>7, <2>2, OverMore DEF Serves
  <2> QED BY <2>1, <2>2
<1>10. Over(outer.text, ColumnsOfAll(L))
  <2>1. Over(outer.text, ColumnsOfAll(K))
    BY <1>3, <1>4, <1>5 DEF Serves
  <2> QED BY <1>7, <2>1, OverMore
<1> HIDE DEF outer
<1>11. /\ x.form = outer.form
       /\ Over(x.text, ColumnsOfAll(L))
       /\ \A some : Touches(outer.text, some) \/ Touches(text, some) => Touches(x.text, some)
  BY <1>3, <1>9, <1>10, PlusReads
<1> HIDE DEF x
<1>12. AllSaySomething /\ Inner.form = "search" /\ text # <<>> => Touches(Inner.text, ColumnsOf(Inner.node.key))
  BY <1>2, <1>3 DEF CallReads
<1>13. AllSaySomething => \A k \in L : k \in K \/ Touches(x.text, ColumnsOf(k))
  BY <1>3, <1>8, <1>11, <1>12
<1>14. /\ \A some : Touches(stack[Len(stack) - 1].text, some) => Touches(x.text, some)
       /\ \A some : Touches(stack[Len(stack)].text, some) => Touches(x.text, some)
  BY <1>2, <1>3, <1>11 DEF outer
<1>15. x.form # "search"
  BY <1>3, <1>11
<1>16. Serves(stack', L)
  BY <1>1, <1>2, <1>5, <1>6, <1>11, <1>13, <1>14, <1>15, CloseServes
<1> QED BY <1>1, <1>6, <1>16 DEF Recording

LEMMA ReturnRecording == ASSUME NEW base, Rendering(base), Reading(Condition), Recording, Return PROVE Recording'
<1>1. /\ result = "running" /\ Len(stack) = 1 /\ sql' = Inner.text /\ result' = "ok" /\ joinKeys' = joinKeys
  BY DEF Return, Finished
<1>2. stack[1] = Inner /\ Inner.form # "search" /\ DOMAIN stack = {1}
  BY <1>1, OutermostReads
<1>3. PICK K \in SUBSET DOMAIN Registry : joinKeys = JoinsOf(K) /\ Serves(stack, K)
  BY <1>1 DEF Recording
<1>4. Over(Inner.text, ColumnsOfAll(K))
  BY <1>2, <1>3 DEF Serves
<1>5. AllSaySomething => \A k \in K : Touches(Inner.text, ColumnsOf(k))
  BY <1>2, <1>3 DEF Serves
<1> QED BY <1>1, <1>3, <1>4, <1>5 DEF Recording

LEMMA FailingRecording ==
  ASSUME Recording, result = "running", NEW error, error # "ok", error # "running", NEW bound, Fail(error, bound)
  PROVE  Recording'
BY RecordingSame DEF Fail

LEMMA NextRecording ==
  ASSUME NEW base, Rendering(base), Reading(Condition), Recording, [Next]_vars
  PROVE  Recording'
<1>1. CASE Skip
  BY <1>1, SkipRecording
<1>2. CASE Malformed
  BY <1>2, FailingRecording DEF Malformed, Visiting
<1>3. CASE Descend
  BY <1>3, DescendRecording
<1>4. CASE UnknownField
  BY <1>4, FailingRecording DEF UnknownField, AtLeaf, Visiting
<1>5. CASE BadOperator
  BY <1>5, FailingRecording DEF BadOperator, AtLeaf, Visiting
<1>6. CASE HooksFail
  BY <1>6, FailingRecording DEF HooksFail, AtLeaf, Visiting
<1>7. CASE RenderLeaf
  BY <1>7, RenderLeafRecording
<1>8. CASE OpenSearch
  BY <1>8, OpenSearchRecording
<1>9. CASE SearchColumn
  BY <1>9, SearchColumnRecording
<1>10. CASE Close
  BY <1>10, CloseRecording
<1>11. CASE Return
  BY <1>11, ReturnRecording
<1>12. CASE UNCHANGED vars
  BY <1>12 DEF vars, Recording
<1> QED
  BY <1>1, <1>2, <1>3, <1>4, <1>5, <1>6, <1>7, <1>8, <1>9, <1>10, <1>11, <1>12 DEF Next

(***************************************************************************)
(* What the caller may rely on when it adds the joins reported.            *)
(***************************************************************************)
\* Every column read is one of a known field whose joins are all reported.
NoJoinMissing ==
  result = "ok" =>
    \A i \in DOMAIN sql :
      sql[i].col # "" =>
        \E k \in DOMAIN Registry : sql[i].col \in ColumnsOf(k) /\ Registry[k].joins \subseteq joinKeys

LEMMA InitReading == Init => Reading(Condition) /\ Recording
<1> SUFFICES ASSUME Init PROVE Reading(Condition) /\ Recording
  OBVIOUS
<1> DEFINE top == [form |-> "top", node |-> Empty, rest |-> filter, cols |-> <<>>,
                   text |-> <<>>, live |-> 0, from |-> 0]
<1>1. result = "running" /\ stack = <<top>> /\ joinKeys = {}
  BY DEF Init
<1>2. filter \in Seq(Condition)
  BY FilterAssumption DEF Init
<1> HIDE DEF top
<1>3. StackReads(Condition, stack) /\ Serves(stack, {})
  BY <1>1, <1>2, BeginReading DEF top
<1>4. joinKeys = JoinsOf({})
  BY <1>1 DEF JoinsOf
<1>5. {} \in SUBSET DOMAIN Registry
  OBVIOUS
<1>6. Reading(Condition)
  BY <1>1, <1>3 DEF Reading
<1>7. Recording
  BY <1>1, <1>3, <1>4, <1>5 DEF Recording
<1> QED BY <1>6, <1>7

LEMMA AllChildren == ChildrenIn(Condition)
BY ConditionAssumption DEF ChildrenIn

LEMMA RecordingSuffices == Recording => NoJoinMissing
<1> SUFFICES ASSUME Recording, result = "ok", NEW i \in DOMAIN sql, sql[i].col # ""
             PROVE  \E k \in DOMAIN Registry : sql[i].col \in ColumnsOf(k) /\ Registry[k].joins \subseteq joinKeys
  BY DEF NoJoinMissing
<1>1. PICK K \in SUBSET DOMAIN Registry : joinKeys = JoinsOf(K) /\ Over(sql, ColumnsOfAll(K))
  BY DEF Recording
<1>2. PICK k \in K : sql[i].col \in ColumnsOf(k)
  BY <1>1 DEF Over, ColumnsOfAll
<1> QED BY <1>1, <1>2 DEF JoinsOf

LEMMA RecordingExact ==
  ASSUME ColumnsTellJoins, AllSaySomething, Recording
  PROVE  JoinsOfMentionedColumns
<1> SUFFICES ASSUME result = "ok" PROVE JoinsOfMentionedColumns
  BY DEF JoinsOfMentionedColumns
<1> DEFINE M == {k \in DOMAIN Registry : \E i \in DOMAIN sql : sql[i].col \in ColumnsOf(k)}
<1>1. PICK K \in SUBSET DOMAIN Registry :
        joinKeys = JoinsOf(K) /\ Over(sql, ColumnsOfAll(K)) /\ \A k \in K : Touches(sql, ColumnsOf(k))
  BY DEF Recording
<1>2. K \subseteq M
  BY <1>1 DEF Touches
<1>3. ASSUME NEW k \in M PROVE Registry[k].joins \subseteq JoinsOf(K)
  <2>1. PICK i \in DOMAIN sql : sql[i].col \in ColumnsOf(k)
    BY <1>3
  <2>2. sql[i].col # ""
    BY <2>1 DEF ColumnsTellJoins
  <2>3. PICK l \in K : sql[i].col \in ColumnsOf(l)
    BY <1>1, <2>2 DEF Over, ColumnsOfAll
  <2>4. Registry[k].joins = Registry[l].joins
    BY <1>1, <2>1, <2>3 DEF ColumnsTellJoins
  <2> QED BY <2>4 DEF JoinsOf
<1>4. JoinsOf(K) = UNION {Registry[k].joins : k \in M}
  BY <1>2, <1>3 DEF JoinsOf
<1> QED BY <1>1, <1>4 DEF JoinsOfMentionedColumns

LEMMA RecordingInvariant == Spec => [](Rendering(0) /\ Reading(Condition) /\ Recording)
<1>1. Rendering(0) /\ Reading(Condition) /\ Recording /\ [Next]_vars
        => (Rendering(0) /\ Reading(Condition) /\ Recording)'
  BY NextRendering, NextReading, NextRecording, AllChildren
<1> QED BY InitRendering, InitReading, <1>1, PTL DEF Spec

\* Whatever the registry, the filter and the dialect, the joins reported
\* include those of every column read (compile.go:144-180).
THEOREM JoinsSuffice == Spec => []NoJoinMissing
BY RecordingInvariant, RecordingSuffices, PTL

\* Where a column tells its joins and every condition says something, the
\* joins reported are exactly those of the columns read (registry.go:54-56).
THEOREM JoinsExact ==
  ASSUME ColumnsTellJoins, AllSaySomething
  PROVE  Spec => []JoinsOfMentionedColumns
<1>1. Recording => JoinsOfMentionedColumns
  BY RecordingExact
<1> QED BY RecordingInvariant, <1>1, PTL

(***************************************************************************)
(* The nodes of a tree.                                                    *)
(***************************************************************************)
NodesBelow(c) == ToSet(Subtrees(c))

LEMMA SubtreesOf ==
  ASSUME NEW c \in Condition
  PROVE  /\ Subtrees(c) \in Seq(Condition)
         /\ NodesBelow(c) = ToSet(c.and) \cup ToSet(c.or) \cup ToSet(c.not)
         /\ NodesBelow(c) \subseteq Condition
         /\ \A i \in DOMAIN Subtrees(c) : Subtrees(c)[i] \in NodesBelow(c)
<1>1. c.and \in Seq(Condition) /\ c.or \in Seq(Condition) /\ c.not \in Seq(Condition)
  BY ConditionAssumption
<1>2. c.and \o c.or \in Seq(Condition) /\ c.and \o c.or \o c.not \in Seq(Condition)
  BY <1>1, ConcatProperties
<1>3. ToSet(c.and \o c.or) = ToSet(c.and) \cup ToSet(c.or)
  BY <1>1, ToSetConcat
<1>4. ToSet(c.and \o c.or \o c.not) = ToSet(c.and \o c.or) \cup ToSet(c.not)
  BY <1>1, <1>2, ToSetConcat
<1>5. Subtrees(c) \in Seq(Condition)
  BY <1>2 DEF Subtrees
<1>6. NodesBelow(c) \subseteq Condition
  BY <1>5, ElementOfSeq, LenProperties DEF NodesBelow, ToSet
<1>7. \A i \in DOMAIN Subtrees(c) : Subtrees(c)[i] \in NodesBelow(c)
  BY DEF NodesBelow, ToSet
<1> QED BY <1>3, <1>4, <1>5, <1>6, <1>7 DEF NodesBelow, Subtrees

\* A function on the nodes may be defined from what it has at the nodes below.
LEMMA TreesFall == FallsIn(Condition, [c \in Condition |-> NodesBelow(c)], Nesting)
<1> SUFFICES ASSUME NEW c \in Condition
             PROVE  Nesting[c] \in Nat /\ NodesBelow(c) \subseteq Condition /\ \A k \in NodesBelow(c) : Nesting[k] < Nesting[c]
  BY DEF FallsIn
<1>1. \A i \in DOMAIN Subtrees(c) : Nesting[Subtrees(c)[i]] < Nesting[c]
  BY TreesAreFinite
<1>2. \A k \in NodesBelow(c) : \E i \in DOMAIN Subtrees(c) : k = Subtrees(c)[i]
  BY DEF NodesBelow, ToSet
<1> QED BY <1>1, <1>2, SubtreesOf, TreesAreFinite

\* step makes an element of V of a node and the elements of V for the nodes below.
StepsIn(V, step) == \A c \in Condition : \A r \in [NodesBelow(c) -> V] : step[c][r] \in V

\* g is the function to V with these steps.
Follows(g, V, step) ==
  /\ g \in [Condition -> V]
  /\ \A c \in Condition :
       /\ Restrict(g, NodesBelow(c)) \in [NodesBelow(c) -> V]
       /\ g[c] = step[c][Restrict(g, NodesBelow(c))]

LEMMA TreesRecur == ASSUME NEW V, NEW step, StepsIn(V, step) PROVE \E g : Follows(g, V, step)
<1> DEFINE kids == [c \in Condition |-> NodesBelow(c)]
<1>1. FallsIn(Condition, kids, Nesting)
  BY TreesFall
<1>2. \A c \in Condition : kids[c] = NodesBelow(c)
  OBVIOUS
<1> HIDE DEF kids
<1>3. PICK g : Computes(g, Condition, kids, step)
  BY <1>1, TreeRecursion
<1>4. \A c \in Condition : \A r \in [kids[c] -> V] : step[c][r] \in V
  BY <1>2 DEF StepsIn
<1>5. g \in [Condition -> V]
  BY <1>1, <1>3, <1>4, RecursionType
<1>6. \A c \in Condition : [k \in kids[c] |-> g[k]] \in [kids[c] -> V]
  BY <1>1, <1>5 DEF FallsIn
<1>7. \A c \in Condition : g[c] = step[c][[k \in kids[c] |-> g[k]]]
  BY <1>3 DEF Computes
<1> QED BY <1>2, <1>5, <1>6, <1>7 DEF Follows, Restrict

\* What holds of a node whenever it holds of the nodes below holds of every node.
LEMMA TreeInduction ==
  ASSUME NEW S, \A c \in Condition : NodesBelow(c) \subseteq S => c \in S
  PROVE  Condition \subseteq S
<1> DEFINE Bad == {Nesting[c] : c \in Condition \ S}
<1> SUFFICES ASSUME Bad # {} PROVE FALSE
  OBVIOUS
<1>1. Bad \subseteq Nat
  BY TreesAreFinite
<1>2. PICK n \in Bad : \A m \in Bad : n <= m
  BY <1>1, Least
<1>3. PICK c \in Condition : n = Nesting[c] /\ c \notin S
  BY <1>2
<1>4. ASSUME NEW k \in NodesBelow(c) PROVE k \in S
  <2>1. k \in Condition /\ Nesting[k] < Nesting[c] /\ Nesting[k] \in Nat /\ Nesting[c] \in Nat
    BY <1>3, TreesFall DEF FallsIn
  <2>2. ~(Nesting[c] <= Nesting[k])
    BY <2>1
  <2> QED BY <1>2, <1>3, <2>1, <2>2
<1> QED BY <1>3, <1>4

(***************************************************************************)
(* What is bound is a sequence also when the rendering fails.              *)
(***************************************************************************)
LEMMA FailBinds ==
  ASSUME IsSeq(args), NEW error, NEW bound, IsSeq(bound), Fail(error, bound)
  PROVE  IsSeq(args')
BY IsSeqConcat DEF Fail

LEMMA NextBinds == ASSUME NEW base, Rendering(base), result = "running", Next PROVE IsSeq(args')
<1>1. Rendering(base)' /\ (result' \in {"running", "ok"} => IsSeq(args'))
  <2>1. Rendering(base)'
    BY NextRendering
  <2> QED BY <2>1 DEF Rendering
<1>2. IsSeq(args) /\ CallOK(Inner) /\ IsSeq(<<>>)
  BY Innermost, EmptySeq, IsSeqIntro
<1>3. ASSUME NEW error, Fail(error, <<>>) PROVE IsSeq(args')
  BY <1>2, <1>3, FailBinds
<1>4. CASE RenderLeaf
  <2> DEFINE r == Resolve(dialect, Field, Column(Node.key), Hooked, Len(args))
  <2>1. /\ Inner.rest # <<>> /\ Allows(Field, Node.op)
        /\ \/ ~r.ok /\ Fail("ErrBadValue", r.args)
           \/ result' = result
    BY <1>4 DEF RenderLeaf, Admitted, AtLeaf, Visiting
  <2>2. Node \in Condition /\ IsSeq(Node.values)
    BY <1>2, <2>1, OnwardOK
  <2>3. IsSeq(Hooked.values) /\ Allows(Field, Hooked.op)
    BY <2>1, <2>2, HookedOK
  <2>4. ~r.ok => IsSeq(r.args)
    BY <2>3, FailureBinds
  <2> HIDE DEF r
  <2> QED BY <1>1, <1>2, <2>1, <2>4, FailBinds
<1>5. CASE SearchColumn
  <2> DEFINE c == Inner.node
             r == Resolve(dialect, Registry[c.key], Head(Inner.cols), c, Len(args))
  <2>1. /\ Inner.cols # <<>>
        /\ \/ ~r.ok /\ Fail("ErrBadValue", r.args)
           \/ result' = result
    BY <1>5 DEF SearchColumn
  <2>2. IsSeq(c.values) /\ Allows(Registry[c.key], c.op)
    BY <1>2, <2>1 DEF CallOK
  <2>3. ~r.ok => IsSeq(r.args)
    BY <2>2, FailureBinds
  <2> HIDE DEF r, c
  <2> QED BY <1>1, <1>2, <2>1, <2>3, FailBinds
<1>6. CASE Malformed \/ UnknownField \/ BadOperator \/ HooksFail
  BY <1>3, <1>6 DEF Malformed, UnknownField, BadOperator, HooksFail
<1>7. CASE Skip \/ Descend \/ OpenSearch \/ Close
  BY <1>1, <1>7 DEF Skip, Descend, OpenSearch, Close
<1>8. CASE Return
  BY <1>1, <1>8 DEF Return
<1> QED BY <1>4, <1>5, <1>6, <1>7, <1>8 DEF Next

(***************************************************************************)
(* The values of a leaf are refused exactly if they do not fit.            *)
(***************************************************************************)
\* ValuesFit of the values as the hooks left them.
ValuesOk(f, op, vs) ==
  /\ op \in Membership \cup Containment => \A i \in DOMAIN vs : ReadableAs(f.type, vs[i])
  /\ op \in Equality \cup Ordering \cup Matching => ReadableAs(f.type, First(vs))
  /\ op \in Relative => IsInterval(First(vs))
  /\ op = "_between" => Len(vs) = 2 /\ \A i \in 1 .. 2 : ReadableAs(f.type, vs[i])
  /\ op \in Equality \cup Membership \cup Matching /\ f.type \in {"string", "id", "enum"} =>
       \A i \in DOMAIN vs : (i = 1 \/ op \in Membership) => ValidEnum(f, AsString(vs[i]))

LEMMA FitsIsValuesFit ==
  ASSUME NEW f, NEW c, HooksPass(f, c.values)
  PROVE  ValuesFit(f, c) <=> ValuesOk(f, c.op, AfterHooks(f, c.values))
BY DEF ValuesFit, ValuesOk

LEMMA FirstValue ==
  ASSUME NEW vs, IsSeq(vs)
  PROVE  /\ vs = <<>> => First(vs) = Nil
         /\ vs # <<>> => 1 \in DOMAIN vs /\ First(vs) = vs[1]
<1>1. Len(vs) \in Nat /\ DOMAIN vs = 1 .. Len(vs) /\ (vs = <<>> <=> Len(vs) = 0)
  BY IsSeqLen
<1> QED BY <1>1 DEF First

LEMMA ScalarFits ==
  ASSUME NEW d, NEW f, NEW col, NEW c, IsSeq(c.values), NEW n, f.type \in {"string", "id", "enum"},
         c.op \in Equality \cup Membership \cup Matching
  PROVE  ResolveScalar(d, f, col, c, n).ok <=> ValuesOk(f, c.op, c.values)
<1> DEFINE v == First(c.values)
<1>1. \A x : ReadableAs(f.type, x) = IsString(x)
  BY DEF ReadableAs
<1>2. (\A r : Resolved(r).ok) /\ ~BadValue(<<>>).ok
  BY DEF Resolved, BadValue
<1>3. CASE c.op \in Equality \cup Matching
  <2>1. ResolveScalar(d, f, col, c, n) =
          IF ~ScalarOk(f, v) THEN BadValue(<<>>)
          ELSE IF c.op \in Equality THEN Compare(col, c.op, <<"str", AsString(v)>>, n)
          ELSE Resolved(Like(d, col, AsString(v), Anchor[c.op], n))
    BY <1>3 DEF ResolveScalar, Equality, Matching, Membership
  <2>2. Compare(col, c.op, <<"str", AsString(v)>>, n).ok
    BY <1>2 DEF Compare
  <2>3. ResolveScalar(d, f, col, c, n).ok <=> ScalarOk(f, v)
    BY <1>2, <2>1, <2>2
  <2>4. c.op \notin Membership \cup Containment \cup Relative /\ c.op # "_between"
    BY <1>3 DEF Equality, Matching, Membership, Containment, Relative
  <2>5. IsString(v) => c.values # <<>>
    <3>1. ~IsString(Nil)
      BY DEF IsString, Nil
    <3> QED BY <3>1, FirstValue
  <2>6. ValuesOk(f, c.op, c.values) <=>
          IsString(v) /\ \A i \in DOMAIN c.values : i = 1 => ValidEnum(f, AsString(c.values[i]))
    BY <1>1, <1>3, <2>4 DEF ValuesOk
  <2> QED BY <2>3, <2>5, <2>6, FirstValue DEF ScalarOk
<1>4. CASE c.op \in Membership
  <2>1. ResolveScalar(d, f, col, c, n) =
          IF \E i \in DOMAIN c.values : ~ScalarOk(f, c.values[i]) THEN BadValue(<<>>)
          ELSE IF c.values = <<>> THEN Skipped
          ELSE IF f.type \in {"string", "enum"} /\ HasScalarIn(d)
          THEN Resolved(ScalarIn(d, col, Strings(c.values), c.op = "_nin", n))
          ELSE InList(col, c.op, Strs(Strings(c.values)), n)
    BY <1>4 DEF ResolveScalar, Equality, Matching, Membership
  <2>2. Skipped.ok /\ InList(col, c.op, Strs(Strings(c.values)), n).ok
    BY <1>2 DEF Skipped, InList
  <2>3. ResolveScalar(d, f, col, c, n).ok <=> \A i \in DOMAIN c.values : ScalarOk(f, c.values[i])
    BY <1>2, <2>1, <2>2
  <2>4. c.op \notin Equality \cup Ordering \cup Matching \cup Relative /\ c.op # "_between"
    BY <1>4 DEF Equality, Matching, Membership, Ordering, Relative
  <2>5. ValuesOk(f, c.op, c.values) <=>
          \A i \in DOMAIN c.values : IsString(c.values[i]) /\ ValidEnum(f, AsString(c.values[i]))
    BY <1>1, <1>4, <2>4 DEF ValuesOk
  <2> QED BY <2>3, <2>5 DEF ScalarOk
<1> QED BY <1>3, <1>4

LEMMA NumericFits ==
  ASSUME NEW f, NEW col, NEW c, IsSeq(c.values), NEW n, f.type \in {"int", "float"},
         c.op \in Equality \cup Membership \cup Ordering \cup {"_between"}
  PROVE  ResolveNumeric(col, c, n).ok <=> ValuesOk(f, c.op, c.values)
<1> DEFINE v == First(c.values)
           bad == SelectInSeq(c.values, LAMBDA x : ~IsFloat(x))
           found == {i \in 1 .. Len(c.values) : ~IsFloat(c.values[i])}
<1>1. \A x : ReadableAs(f.type, x) = IsFloat(x)
  BY DEF ReadableAs
<1>2. (\A r : Resolved(r).ok) /\ (\A bound : ~BadValue(bound).ok)
  BY DEF Resolved, BadValue
<1>3. f.type \notin {"string", "id", "enum"}
  OBVIOUS
<1>4. CASE c.op \in Equality \cup Ordering
  <2>1. ResolveNumeric(col, c, n) =
          IF IsFloat(v) THEN Compare(col, c.op, <<"num", AsFloat(v)>>, n) ELSE BadValue(<<>>)
    BY <1>4 DEF ResolveNumeric, Equality, Ordering, Membership
  <2>2. Compare(col, c.op, <<"num", AsFloat(v)>>, n).ok
    BY <1>2 DEF Compare
  <2>3. c.op \notin Membership \cup Containment \cup Relative /\ c.op # "_between"
    BY <1>4 DEF Equality, Ordering, Membership, Containment, Relative
  <2>4. ValuesOk(f, c.op, c.values) <=> IsFloat(v)
    BY <1>1, <1>3, <1>4, <2>3 DEF ValuesOk
  <2> QED BY <1>2, <2>1, <2>2, <2>4
<1>5. CASE c.op \in Membership
  <2>1. ResolveNumeric(col, c, n) =
          IF c.values = <<>> THEN Skipped
          ELSE IF bad # 0 THEN BadValue(Floats(SubSeq(c.values, 1, bad - 1)))
          ELSE InList(col, c.op, Floats(c.values), n)
    BY <1>5 DEF ResolveNumeric, Equality, Ordering, Membership
  <2>2. Skipped.ok /\ InList(col, c.op, Floats(c.values), n).ok
    BY <1>2 DEF Skipped, InList
  <2>3. Len(c.values) \in Nat /\ DOMAIN c.values = 1 .. Len(c.values) /\ (c.values = <<>> <=> Len(c.values) = 0)
    BY IsSeqLen
  <2>4. bad = IF found # {} THEN Min(found) ELSE 0
    BY DEF SelectInSeq
  <2>5. bad # 0 <=> found # {}
    <3>1. found \subseteq Nat
      BY <2>3
    <3>2. ASSUME found # {} PROVE Min(found) \in found
      <4>1. \E x \in found : \A y \in found : x <= y
        BY <3>1, <3>2, Least
      <4> HIDE DEF found
      <4> QED BY <4>1 DEF Min
    <3>3. 0 \notin found
      BY <2>3
    <3> HIDE DEF found, bad
    <3> QED BY <2>4, <3>2, <3>3
  <2>6. c.op \notin Equality \cup Ordering \cup Matching \cup Relative /\ c.op # "_between"
    BY <1>5 DEF Equality, Matching, Membership, Ordering, Relative
  <2>7. ValuesOk(f, c.op, c.values) <=> \A i \in DOMAIN c.values : IsFloat(c.values[i])
    BY <1>1, <1>3, <1>5, <2>6 DEF ValuesOk
  <2>8. found = {} <=> \A i \in DOMAIN c.values : IsFloat(c.values[i])
    BY <2>3
  <2>9. c.values = <<>> => found = {}
    BY <2>3
  <2> HIDE DEF bad, found
  <2> QED BY <1>2, <2>1, <2>2, <2>5, <2>7, <2>8, <2>9
<1>6. CASE c.op = "_between"
  <2>1. ResolveNumeric(col, c, n) =
          IF Len(c.values) = 2 /\ IsFloat(c.values[1]) /\ IsFloat(c.values[2])
          THEN Resolved(One("BETWEEN", col, n, Floats(c.values)))
          ELSE BadValue(<<>>)
    BY <1>6 DEF ResolveNumeric, Equality, Ordering, Membership
  <2>2. c.op \notin Membership \cup Containment \cup Equality \cup Ordering \cup Matching \cup Relative
    BY <1>6 DEF Equality, Ordering, Membership, Containment, Relative, Matching
  <2>3. ValuesOk(f, c.op, c.values) <=> Len(c.values) = 2 /\ \A i \in 1 .. 2 : IsFloat(c.values[i])
    BY <1>1, <1>6, <2>2 DEF ValuesOk
  <2>4. 1 .. 2 = {1, 2}
    OBVIOUS
  <2> QED BY <1>2, <2>1, <2>3, <2>4
<1> QED BY <1>4, <1>5, <1>6

LEMMA TimestampFits ==
  ASSUME NEW d, NEW f, NEW col, NEW c, IsSeq(c.values), NEW n, f.type = "timestamp",
         c.op \in {"_eq", "_between"} \cup Ordering \cup Relative
  PROVE  ResolveTimestamp(d, col, c, n).ok <=> ValuesOk(f, c.op, c.values)
<1> DEFINE v == First(c.values)
<1>1. \A x : ReadableAs(f.type, x) = IsString(x)
  BY DEF ReadableAs
<1>2. (\A r : Resolved(r).ok) /\ ~BadValue(<<>>).ok
  BY DEF Resolved, BadValue
<1>3. CASE c.op = "_between"
  <2>1. ResolveTimestamp(d, col, c, n).ok <=> Len(c.values) = 2 /\ AllStrings(c.values)
    <3>1. ResolveTimestamp(d, col, c, n) =
            IF Len(c.values) = 2 /\ AllStrings(c.values)
            THEN Resolved(One("BETWEEN", col, n, Strs(Strings(c.values))))
            ELSE BadValue(<<>>)
      BY <1>3 DEF ResolveTimestamp, Relative
    <3> QED BY <1>2, <3>1
  <2>2. c.op \notin Membership \cup Containment \cup Equality \cup Ordering \cup Matching \cup Relative
    BY <1>3 DEF Equality, Ordering, Membership, Containment, Relative, Matching
  <2>3. ValuesOk(f, c.op, c.values) <=> Len(c.values) = 2 /\ \A i \in 1 .. 2 : IsString(c.values[i])
    BY <1>1, <1>3, <2>2 DEF ValuesOk
  <2>4. Len(c.values) = 2 => DOMAIN c.values = 1 .. 2
    BY IsSeqLen
  <2> QED BY <2>1, <2>3, <2>4 DEF AllStrings
<1>4. CASE c.op \in Relative
  <2>1. c.op # "_between"
    BY <1>4 DEF Relative
  <2>2. ResolveTimestamp(d, col, c, n).ok <=> IsInterval(v)
    BY <1>2, <1>4, <2>1 DEF ResolveTimestamp, Around
  <2>3. c.op \notin Membership \cup Containment \cup Equality \cup Ordering \cup Matching
    BY <1>4 DEF Equality, Ordering, Membership, Containment, Relative, Matching
  <2>4. ValuesOk(f, c.op, c.values) <=> IsInterval(v)
    BY <1>4, <2>1, <2>3 DEF ValuesOk
  <2> QED BY <2>2, <2>4
<1>5. CASE c.op \in {"_eq"} \cup Ordering
  <2>1. c.op # "_between" /\ c.op \notin Relative
    BY <1>5 DEF Ordering, Relative
  <2>2. ResolveTimestamp(d, col, c, n).ok <=> IsString(v)
    BY <1>2, <2>1 DEF ResolveTimestamp, Compare
  <2>3. c.op \in Equality \cup Ordering /\ c.op \notin Membership \cup Containment
    BY <1>5 DEF Equality, Ordering, Membership, Containment
  <2>4. ValuesOk(f, c.op, c.values) <=> IsString(v)
    BY <1>1, <2>1, <2>3 DEF ValuesOk
  <2> QED BY <2>2, <2>4
<1> QED BY <1>3, <1>4, <1>5

LEMMA AllowedOfType ==
  ASSUME NEW f, NEW op, Allows(f, op), op \notin NullTests
  PROVE  /\ f.type = "bool" => op \in Equality
         /\ f.type = "timestamp" => op \in {"_eq", "_between"} \cup Ordering \cup Relative
         /\ f.type = "array" => op \in Containment
         /\ f.type = "map" => op \in KeyTests \cup KeyValueTests
<1>1. op \in Operators(f.type)
  BY DEF Allows, EffectiveOperators
<1>2. f.type \in DOMAIN TypeOperators /\ op \in TypeOperators[f.type]
  BY <1>1 DEF Operators
<1>3. /\ TypeOperators["bool"] = Equality
      /\ TypeOperators["timestamp"] = {"_eq", "_between"} \cup Ordering \cup Relative
      /\ TypeOperators["array"] = Containment
      /\ TypeOperators["map"] = KeyTests \cup KeyValueTests
  BY DEF TypeOperators
<1> QED BY <1>2, <1>3

LEMMA ResolveFits ==
  ASSUME NEW d, NEW f, NEW col, NEW c, IsSeq(c.values), NEW n, Allows(f, c.op)
  PROVE  Resolve(d, f, col, c, n).ok <=> ValuesOk(f, c.op, c.values)
<1>1. (\A r : Resolved(r).ok) /\ ~BadValue(<<>>).ok
  BY DEF Resolved, BadValue
<1>2. CASE c.op \in NullTests
  <2>1. Resolve(d, f, col, c, n).ok
    BY <1>1, <1>2 DEF Resolve, NullTests
  <2>2. c.op \notin Membership \cup Containment \cup Equality \cup Ordering \cup Matching \cup Relative \cup {"_between"}
    BY <1>2 DEF NullTests, Equality, Ordering, Membership, Containment, Relative, Matching
  <2>3. ValuesOk(f, c.op, c.values)
    BY <2>2 DEF ValuesOk
  <2> QED BY <2>1, <2>3
<1>3. CASE c.op \notin NullTests
  <2>1. c.op # "_is_null" /\ c.op # "_is_not_null"
    BY <1>3 DEF NullTests
  <2>2. f.type \in {"string", "id", "int", "float", "bool", "timestamp", "enum", "array", "map"}
    BY <1>3, AllowedOperator
  <2>3. CASE f.type \in {"string", "id", "enum"}
    <3>1. Resolve(d, f, col, c, n) = ResolveScalar(d, f, col, c, n)
      BY <2>1, <2>3 DEF Resolve
    <3>2. c.op \in Equality \cup Membership \cup Matching
      BY <1>3, <2>3, AllowedOperator
    <3> QED BY <2>3, <3>1, <3>2, ScalarFits
  <2>4. CASE f.type \in {"int", "float"}
    <3>1. Resolve(d, f, col, c, n) = ResolveNumeric(col, c, n)
      BY <2>1, <2>4 DEF Resolve
    <3>2. c.op \in Equality \cup Membership \cup Ordering \cup {"_between"}
      BY <1>3, <2>4, AllowedOperator
    <3> QED BY <2>4, <3>1, <3>2, NumericFits
  <2>5. CASE f.type = "bool"
    <3>1. Resolve(d, f, col, c, n) = ResolveBool(col, c, n)
      BY <2>1, <2>5 DEF Resolve
    <3>2. c.op \in Equality
      BY <1>3, <2>5, AllowedOfType
    <3>3. ResolveBool(col, c, n).ok <=> IsBool(First(c.values))
      BY <1>1 DEF ResolveBool, Compare
    <3>4. c.op \notin Membership \cup Containment \cup Relative \cup {"_between"}
      BY <3>2 DEF Equality, Membership, Containment, Relative
    <3>5. ReadableAs(f.type, First(c.values)) = IsBool(First(c.values))
      BY <2>5 DEF ReadableAs
    <3>6. ValuesOk(f, c.op, c.values) <=> IsBool(First(c.values))
      BY <2>5, <3>2, <3>4, <3>5 DEF ValuesOk
    <3> QED BY <3>1, <3>3, <3>6
  <2>6. CASE f.type = "timestamp"
    <3>1. Resolve(d, f, col, c, n) = ResolveTimestamp(d, col, c, n)
      BY <2>1, <2>6 DEF Resolve
    <3>2. c.op \in {"_eq", "_between"} \cup Ordering \cup Relative
      BY <1>3, <2>6, AllowedOfType
    <3> QED BY <2>6, <3>1, <3>2, TimestampFits
  <2>7. CASE f.type = "array"
    <3>1. Resolve(d, f, col, c, n) = ResolveArray(d, col, c, n)
      BY <2>1, <2>7 DEF Resolve
    <3>2. c.op \in Containment
      BY <1>3, <2>7, AllowedOfType
    <3>3. ResolveArray(d, col, c, n).ok <=> AllStrings(c.values)
      BY <1>1 DEF ResolveArray, Skipped, NegateIf
    <3>4. c.op \notin Equality \cup Ordering \cup Matching \cup Relative \cup {"_between"} \cup Membership
      BY <3>2 DEF Containment, Equality, Ordering, Matching, Relative, Membership
    <3>5. \A x : ReadableAs(f.type, x) = IsString(x)
      BY <2>7 DEF ReadableAs
    <3>6. ValuesOk(f, c.op, c.values) <=> AllStrings(c.values)
      BY <3>2, <3>4, <3>5 DEF ValuesOk, AllStrings
    <3> QED BY <3>1, <3>3, <3>6
  <2>8. CASE f.type = "map"
    <3>1. Resolve(d, f, col, c, n) = ResolveMap(d, col, c, n)
      BY <2>1, <2>8 DEF Resolve
    <3>2. ResolveMap(d, col, c, n).ok
      BY <1>1 DEF ResolveMap, Skipped, NegateIf
    <3>3. c.op \in KeyTests \cup KeyValueTests
      BY <1>3, <2>8, AllowedOfType
    <3>4. c.op \notin Equality \cup Ordering \cup Matching \cup Relative \cup {"_between"} \cup Membership \cup Containment
      BY <3>3 DEF KeyTests, KeyValueTests, Containment, Equality, Ordering, Matching, Relative, Membership
    <3>5. ValuesOk(f, c.op, c.values)
      BY <3>4 DEF ValuesOk
    <3> QED BY <3>1, <3>2, <3>5
  <2> QED BY <2>2, <2>3, <2>4, <2>5, <2>6, <2>7, <2>8
<1> QED BY <1>2, <1>3

(***************************************************************************)
(* The first fault of a sequence, of a node, of conditions.                *)
(***************************************************************************)
LEMMA FirstOfIs ==
  ASSUME NEW faults, NEW n \in Nat, DOMAIN faults = 1 .. n
  PROVE  \/ FirstOf(faults) = "ok" /\ \A i \in 1 .. n : faults[i] = "ok"
         \/ \E i \in 1 .. n : /\ FirstOf(faults) = faults[i] /\ faults[i] # "ok"
                              /\ \A j \in 1 .. n : j < i => faults[j] = "ok"
<1> DEFINE bad == {i \in 1 .. n : faults[i] # "ok"}
<1>1. FirstOf(faults) = IF bad = {} THEN "ok" ELSE faults[Min(bad)]
  BY DEF FirstOf
<1>2. ASSUME bad # {} PROVE Min(bad) \in bad /\ \A j \in bad : Min(bad) <= j
  <2>1. bad \subseteq Nat
    OBVIOUS
  <2>2. \E x \in bad : \A y \in bad : x <= y
    BY <1>2, <2>1, Least
  <2> HIDE DEF bad
  <2> QED BY <2>2 DEF Min
<1>3. CASE bad = {}
  BY <1>1, <1>3
<1>4. CASE bad # {}
  <2>1. PICK i \in bad : i = Min(bad) /\ \A j \in bad : i <= j
    BY <1>2, <1>4
  <2>2. \A j \in 1 .. n : j < i => j \notin bad
    BY <2>1
  <2>3. FirstOf(faults) = faults[i]
    BY <1>1, <1>4, <2>1
  <2> QED BY <2>1, <2>2, <2>3
<1> QED BY <1>3, <1>4

LEMMA FirstOfMore ==
  ASSUME NEW n \in Nat, n # 0, NEW faults, DOMAIN faults = 1 .. n,
         NEW rest, DOMAIN rest = 1 .. n - 1, \A i \in 1 .. n - 1 : rest[i] = faults[i + 1]
  PROVE  FirstOf(faults) = IF faults[1] # "ok" THEN faults[1] ELSE FirstOf(rest)
<1>1. n - 1 \in Nat /\ 1 \in 1 .. n /\ \A i \in 1 .. n : i = 1 \/ (1 < i /\ i - 1 \in 1 .. n - 1 /\ i - 1 + 1 = i)
  OBVIOUS
<1>2. CASE faults[1] # "ok"
  BY <1>1, <1>2, FirstOfIs
<1>3. CASE faults[1] = "ok"
  <2>1. \A i \in 1 .. n : i # 1 => faults[i] = rest[i - 1]
    BY <1>1
  <2>2. CASE FirstOf(faults) = "ok" /\ \A i \in 1 .. n : faults[i] = "ok"
    <3>1. \A i \in 1 .. n - 1 : i + 1 \in 1 .. n
      BY <1>1
    <3>2. \A i \in 1 .. n - 1 : rest[i] = "ok"
      BY <2>2, <3>1
    <3> QED BY <1>1, <1>3, <2>2, <3>2, FirstOfIs
  <2>3. ASSUME NEW i \in 1 .. n, FirstOf(faults) = faults[i], faults[i] # "ok",
               \A j \in 1 .. n : j < i => faults[j] = "ok"
        PROVE  FirstOf(rest) = faults[i]
    <3>1. i - 1 \in 1 .. n - 1 /\ rest[i - 1] = faults[i]
      BY <1>1, <1>3, <2>1, <2>3
    <3>2. ~(\A j \in 1 .. n - 1 : rest[j] = "ok")
      BY <2>3, <3>1
    <3>3. PICK k \in 1 .. n - 1 : /\ FirstOf(rest) = rest[k] /\ rest[k] # "ok"
                                  /\ \A j \in 1 .. n - 1 : j < k => rest[j] = "ok"
      BY <1>1, <3>2, FirstOfIs
    <3>4. k + 1 \in 1 .. n /\ rest[k] = faults[k + 1]
      BY <1>1
    <3>5. ~(k < i - 1)
      <4>1. k < i - 1 => k + 1 < i
        BY <3>1
      <4> QED BY <2>3, <3>3, <3>4, <4>1
    <3>6. ~(i - 1 < k)
      BY <2>3, <3>1, <3>3
    <3>7. k = i - 1
      BY <3>1, <3>5, <3>6
    <3> QED BY <3>1, <3>3, <3>7
  <2> QED BY <1>3, <2>2, <2>3, FirstOfIs
<1> QED BY <1>2, <1>3

Faults == {"ok", "ErrInvalidCondition", "ErrUnknownField", "ErrBadOperator", "ErrBadValue"}

LEMMA FirstOfType ==
  ASSUME NEW faults, NEW n \in Nat, DOMAIN faults = 1 .. n, \A i \in 1 .. n : faults[i] \in Faults
  PROVE  FirstOf(faults) \in Faults
<1>1. "ok" \in Faults
  BY DEF Faults
<1>2. FirstOf(faults) = "ok" \/ \E i \in 1 .. n : FirstOf(faults) = faults[i]
  BY FirstOfIs
<1> QED BY <1>1, <1>2

\* NodeFault, unfolded at a node.
FaultWith(out, c, r) ==
  IF Cardinality(Forms(c)) > 1 THEN "ErrInvalidCondition"
  ELSE IF Forms(c) = {"key"} THEN LeafFault(out, c)
  ELSE FirstOf([i \in DOMAIN Subtrees(c) |-> r[Subtrees(c)[i]]])

LEMMA FaultWithType ==
  ASSUME NEW out, NEW c \in Condition, NEW r, \A k \in NodesBelow(c) : r[k] \in Faults
  PROVE  FaultWith(out, c, r) \in Faults
<1> DEFINE faults == [i \in DOMAIN Subtrees(c) |-> r[Subtrees(c)[i]]]
<1>1. Len(Subtrees(c)) \in Nat /\ DOMAIN Subtrees(c) = 1 .. Len(Subtrees(c))
  BY SubtreesOf, LenProperties
<1>2. DOMAIN faults = 1 .. Len(Subtrees(c)) /\ \A i \in 1 .. Len(Subtrees(c)) : faults[i] \in Faults
  BY <1>1, SubtreesOf
<1> HIDE DEF faults
<1>3. FirstOf(faults) \in Faults
  BY <1>1, <1>2, FirstOfType
<1>4. LeafFault(out, c) \in Faults /\ "ErrInvalidCondition" \in Faults
  BY Zenon DEF LeafFault, Faults
<1> QED BY <1>3, <1>4 DEF FaultWith, faults

LEMMA FaultsRecur ==
  ASSUME NEW out
  PROVE  \A c \in Condition : NodeFault(out)[c] = FaultWith(out, c, NodeFault(out))
<1> DEFINE V == Faults
           step == [c \in Condition |-> [r \in [NodesBelow(c) -> V] |-> FaultWith(out, c, r)]]
<1>1. \A c \in Condition : \A r \in [NodesBelow(c) -> V] : step[c][r] = FaultWith(out, c, r)
  OBVIOUS
<1>2. \A c \in Condition : \A r \in [NodesBelow(c) -> V] : FaultWith(out, c, r) \in V
  BY FaultWithType
<1> HIDE DEF step, V
<1>3. StepsIn(V, step)
  BY <1>1, <1>2 DEF StepsIn
<1>4. PICK g : Follows(g, V, step)
  BY <1>3, TreesRecur
<1>5. ASSUME NEW c \in Condition PROVE g[c] = FaultWith(out, c, g)
  <2>1. PICK r : r = Restrict(g, NodesBelow(c))
    OBVIOUS
  <2>2. g[c] = FaultWith(out, c, r)
    BY <1>1, <1>4, <2>1 DEF Follows
  <2>3. \A i \in DOMAIN Subtrees(c) : r[Subtrees(c)[i]] = g[Subtrees(c)[i]]
    BY <2>1, SubtreesOf DEF Restrict
  <2>4. [i \in DOMAIN Subtrees(c) |-> r[Subtrees(c)[i]]] = [i \in DOMAIN Subtrees(c) |-> g[Subtrees(c)[i]]]
    BY <2>3
  <2> QED BY <2>2, <2>4 DEF FaultWith
<1>6. g = [c \in Condition |-> FaultWith(out, c, g)]
  BY <1>4, <1>5 DEF Follows
<1>7. NodeFault(out) = CHOOSE f : f = [c \in Condition |-> FaultWith(out, c, f)]
  BY DEF NodeFault, FaultWith, AnyNode
<1>8. NodeFault(out) = [c \in Condition |-> FaultWith(out, c, NodeFault(out))]
  BY <1>6, <1>7
<1> QED BY <1>8

LEMMA FirstFaultOfNone == ASSUME NEW out PROVE FirstFault(out, <<>>) = "ok"
<1>1. DOMAIN [i \in DOMAIN <<>> |-> NodeFault(out)[<<>>[i]]] = {}
  OBVIOUS
<1> QED BY <1>1 DEF FirstFault, FirstOf

LEMMA FirstFaultOfMore ==
  ASSUME NEW out, NEW s \in Seq(Condition), s # <<>>
  PROVE  FirstFault(out, s) =
           IF NodeFault(out)[Head(s)] # "ok" THEN NodeFault(out)[Head(s)] ELSE FirstFault(out, Tail(s))
<1> DEFINE n == Len(s)
           faults == [i \in DOMAIN s |-> NodeFault(out)[s[i]]]
           rest == [i \in DOMAIN Tail(s) |-> NodeFault(out)[Tail(s)[i]]]
<1>1. n \in Nat /\ n # 0 /\ DOMAIN s = 1 .. n /\ Head(s) = s[1]
  BY LenProperties, HeadTailProperties, EmptySeq
<1>2. /\ Tail(s) \in Seq(Condition) /\ Len(Tail(s)) = n - 1
      /\ \A i \in 1 .. n - 1 : Tail(s)[i] = s[i + 1]
  BY HeadTailProperties
<1>3. DOMAIN Tail(s) = 1 .. n - 1
  BY <1>2, LenProperties
<1>4. DOMAIN faults = 1 .. n /\ DOMAIN rest = 1 .. n - 1
  BY <1>1, <1>3
<1>5. 1 \in 1 .. n /\ \A i \in 1 .. n - 1 : i + 1 \in 1 .. n
  BY <1>1
<1>6. faults[1] = NodeFault(out)[Head(s)] /\ \A i \in 1 .. n - 1 : rest[i] = faults[i + 1]
  BY <1>1, <1>2, <1>3, <1>5
<1>7. FirstFault(out, s) = FirstOf(faults) /\ FirstFault(out, Tail(s)) = FirstOf(rest)
  BY DEF FirstFault
<1> HIDE DEF n, faults, rest
<1> QED BY <1>1, <1>4, <1>6, <1>7, FirstOfMore

\* The fault of a node with no form, with too many, of a leaf, of a group.
LEMMA FaultOfNode ==
  ASSUME NEW out, NEW c \in Condition
  PROVE  /\ Forms(c) = {} => NodeFault(out)[c] = "ok"
         /\ Cardinality(Forms(c)) > 1 => NodeFault(out)[c] = "ErrInvalidCondition"
         /\ Forms(c) = {"key"} => NodeFault(out)[c] = LeafFault(out, c)
         /\ \A form \in {"and", "or", "not"} : Forms(c) = {form} => NodeFault(out)[c] = FirstFault(out, c[form])
<1>1. NodeFault(out)[c] = FaultWith(out, c, NodeFault(out))
  BY FaultsRecur
<1>2. FirstOf([i \in DOMAIN Subtrees(c) |-> NodeFault(out)[Subtrees(c)[i]]]) = FirstFault(out, Subtrees(c))
  BY DEF FirstFault
<1>3. c.and \in Seq(Condition) /\ c.or \in Seq(Condition) /\ c.not \in Seq(Condition)
  BY ConditionAssumption
<1>4. Forms(c) = {} => ~(Cardinality(Forms(c)) > 1)
  BY FS_EmptySet
<1>5. \A x : Forms(c) = {x} => ~(Cardinality(Forms(c)) > 1)
  BY FS_Singleton
<1>6. /\ "and" \notin Forms(c) <=> c.and = <<>>
      /\ "or" \notin Forms(c) <=> c.or = <<>>
      /\ "not" \notin Forms(c) <=> c.not = <<>>
  BY DEF Forms
<1>7. \A s \in Seq(Condition) : s \o <<>> = s /\ <<>> \o s = s
  OBVIOUS
<1>8. CASE Forms(c) = {}
  <2>1. Subtrees(c) = <<>>
    BY <1>6, <1>8 DEF Subtrees
  <2> QED BY <1>1, <1>2, <1>4, <1>8, <2>1, FirstFaultOfNone DEF FaultWith
<1>9. ASSUME NEW form \in {"and", "or", "not"}, Forms(c) = {form}
      PROVE  NodeFault(out)[c] = FirstFault(out, c[form])
  <2>1. Subtrees(c) = c[form]
    <3>1. CASE form = "and"
      <4>1. c.or = <<>> /\ c.not = <<>>
        BY <1>6, <1>9, <3>1
      <4> QED BY <1>3, <1>7, <3>1, <4>1 DEF Subtrees
    <3>2. CASE form = "or"
      <4>1. c.and = <<>> /\ c.not = <<>>
        BY <1>6, <1>9, <3>2
      <4> QED BY <1>3, <1>7, <3>2, <4>1 DEF Subtrees
    <3>3. CASE form = "not"
      <4>1. c.and = <<>> /\ c.or = <<>> /\ <<>> \in Seq(Condition)
        BY <1>6, <1>9, <3>3
      <4>2. c.and \o c.or = <<>>
        BY <1>7, <4>1
      <4> QED BY <1>3, <1>7, <3>3, <4>2 DEF Subtrees
    <3> QED BY <3>1, <3>2, <3>3
  <2> QED BY <1>1, <1>2, <1>5, <1>9, <2>1 DEF FaultWith
<1>10. Cardinality(Forms(c)) > 1 => NodeFault(out)[c] = "ErrInvalidCondition"
  BY <1>1 DEF FaultWith
<1>11. Forms(c) = {"key"} => NodeFault(out)[c] = LeafFault(out, c)
  BY <1>1, <1>5 DEF FaultWith
<1> QED BY <1>8, <1>9, <1>10, <1>11

(***************************************************************************)
(* The fault a rendering comes upon.                                       *)
(*                                                                         *)
(* Left is the first fault in what a call has still to render: the columns *)
(* of its leaf, if it is a search - whose values fit for all of them or    *)
(* for none - or its conditions.  A call inside another one renders the    *)
(* child before the others left to the outer one.                          *)
(***************************************************************************)
Left(out, call) ==
  IF call.cols # <<>>
  THEN IF ValuesOk(Registry[call.node.key], call.node.op, call.node.values) THEN "ok" ELSE "ErrBadValue"
  ELSE FirstFault(out, call.rest)

LeftIn(out, calls, i) == IF i = Len(calls) THEN Left(out, calls[i]) ELSE FirstFault(out, calls[i].rest)

\* first is the first fault in what these calls have still to render.
ComesUpon(out, calls, first) ==
  \/ first = "ok" /\ \A i \in 1 .. Len(calls) : LeftIn(out, calls, i) = "ok"
  \/ \E i \in 1 .. Len(calls) :
       /\ first = LeftIn(out, calls, i) /\ first # "ok"
       /\ \A j \in 1 .. Len(calls) : i < j => LeftIn(out, calls, j) = "ok"

Reporting ==
  /\ result = "running" => ComesUpon(exclude, stack, FirstFault(exclude, filter))
  /\ result # "running" => result = FirstFault(exclude, filter)

LEMMA ReplaceComesUpon ==
  ASSUME NEW out, NEW first, NEW calls, IsSeq(calls), calls # <<>>, NEW n, n = Len(calls),
         ComesUpon(out, calls, first), NEW x, Left(out, x) = Left(out, calls[n]),
         NEW more, more = Append(SubSeq(calls, 1, n - 1), x)
  PROVE  ComesUpon(out, more, first)
<1>1. /\ n \in Nat /\ n # 0 /\ Len(more) = n
      /\ \A i \in 1 .. n : i # n => more[i] = calls[i]
      /\ more[n] = x
  BY Replaced
<1>2. \A i \in 1 .. n : LeftIn(out, more, i) = LeftIn(out, calls, i)
  BY <1>1 DEF LeftIn
<1> QED BY <1>1, <1>2 DEF ComesUpon

LEMMA OpenComesUpon ==
  ASSUME NEW out, NEW first, NEW calls, IsSeq(calls), calls # <<>>, NEW n, n = Len(calls),
         ComesUpon(out, calls, first), NEW x, NEW y,
         Left(out, calls[n]) = IF Left(out, y) # "ok" THEN Left(out, y) ELSE FirstFault(out, x.rest),
         NEW one, one = Append(SubSeq(calls, 1, n - 1), x), NEW more, more = Append(one, y)
  PROVE  ComesUpon(out, more, first)
<1>1. /\ n \in Nat /\ n # 0 /\ Len(more) = n + 1
      /\ \A i \in 1 .. n : i # n => more[i] = calls[i]
      /\ more[n] = x /\ more[n + 1] = y
  BY Opened
<1>2. /\ n \in 1 .. n /\ n # n + 1 /\ n + 1 \in 1 .. n + 1
      /\ \A i \in 1 .. n + 1 : i = n + 1 \/ i = n \/ (i \in 1 .. n /\ i # n /\ i # n + 1)
      /\ \A i \in 1 .. n : i \in 1 .. n + 1 /\ (i # n => i < n /\ i # n + 1)
      /\ \A i \in 1 .. n + 1 : ~(n + 1 < i) /\ (n < i => i = n + 1)
  BY <1>1
<1>3. LeftIn(out, more, n + 1) = Left(out, y) /\ LeftIn(out, more, n) = FirstFault(out, x.rest)
  BY <1>1, <1>2 DEF LeftIn
<1>4. \A i \in 1 .. n : i # n => LeftIn(out, more, i) = LeftIn(out, calls, i)
  BY <1>1, <1>2 DEF LeftIn
<1>5. LeftIn(out, calls, n) =
        IF LeftIn(out, more, n + 1) # "ok" THEN LeftIn(out, more, n + 1) ELSE LeftIn(out, more, n)
  BY <1>3 DEF LeftIn
<1>6. CASE first = "ok" /\ \A i \in 1 .. n : LeftIn(out, calls, i) = "ok"
  <2>1. LeftIn(out, more, n + 1) = "ok" /\ LeftIn(out, more, n) = "ok"
    BY <1>2, <1>5, <1>6
  <2> QED BY <1>1, <1>2, <1>4, <1>6, <2>1 DEF ComesUpon
<1>7. ASSUME NEW i \in 1 .. n, first = LeftIn(out, calls, i), first # "ok",
             \A j \in 1 .. n : i < j => LeftIn(out, calls, j) = "ok"
      PROVE  ComesUpon(out, more, first)
  <2>1. CASE i # n
    <3>1. LeftIn(out, calls, n) = "ok"
      BY <1>2, <1>7, <2>1
    <3>2. LeftIn(out, more, n + 1) = "ok" /\ LeftIn(out, more, n) = "ok"
      BY <1>5, <3>1
    <3>3. \A j \in 1 .. n + 1 : i < j => LeftIn(out, more, j) = "ok"
      BY <1>2, <1>4, <1>7, <3>2
    <3> QED BY <1>1, <1>2, <1>4, <1>7, <2>1, <3>3 DEF ComesUpon
  <2>2. CASE i = n /\ LeftIn(out, more, n + 1) = "ok"
    <3>1. first = LeftIn(out, more, n)
      BY <1>5, <1>7, <2>2
    <3>2. \A j \in 1 .. n + 1 : n < j => LeftIn(out, more, j) = "ok"
      BY <1>2, <2>2
    <3> QED BY <1>1, <1>2, <1>7, <3>1, <3>2 DEF ComesUpon
  <2>3. CASE i = n /\ LeftIn(out, more, n + 1) # "ok"
    <3>1. first = LeftIn(out, more, n + 1)
      BY <1>5, <1>7, <2>3
    <3> QED BY <1>1, <1>2, <1>7, <3>1 DEF ComesUpon
  <2> QED BY <2>1, <2>2, <2>3
<1> QED BY <1>1, <1>6, <1>7 DEF ComesUpon

LEMMA CloseComesUpon ==
  ASSUME NEW out, NEW first, NEW calls, IsSeq(calls), Len(calls) > 1, NEW n, n = Len(calls),
         ComesUpon(out, calls, first), Left(out, calls[n]) = "ok",
         NEW x, Left(out, x) = FirstFault(out, calls[n - 1].rest),
         NEW more, more = Append(SubSeq(calls, 1, n - 2), x)
  PROVE  ComesUpon(out, more, first)
<1>1. /\ n \in Nat /\ n > 1 /\ Len(more) = n - 1
      /\ \A i \in 1 .. n - 1 : i # n - 1 => more[i] = calls[i]
      /\ more[n - 1] = x
  BY Closed
<1>2. /\ n - 1 # n /\ n \in 1 .. n
      /\ \A i \in 1 .. n - 1 : i \in 1 .. n /\ i # n
      /\ \A i \in 1 .. n : i = n \/ i \in 1 .. n - 1
  BY <1>1
<1>3. \A i \in 1 .. n - 1 : LeftIn(out, more, i) = LeftIn(out, calls, i)
  BY <1>1, <1>2 DEF LeftIn
<1>4. LeftIn(out, calls, n) = "ok"
  BY DEF LeftIn
<1>5. CASE first = "ok" /\ \A i \in 1 .. n : LeftIn(out, calls, i) = "ok"
  BY <1>1, <1>2, <1>3, <1>5 DEF ComesUpon
<1>6. ASSUME NEW i \in 1 .. n, first = LeftIn(out, calls, i), first # "ok",
             \A j \in 1 .. n : i < j => LeftIn(out, calls, j) = "ok"
      PROVE  ComesUpon(out, more, first)
  <2>1. i \in 1 .. n - 1
    BY <1>2, <1>4, <1>6
  <2>2. first = LeftIn(out, more, i) /\ \A j \in 1 .. n - 1 : i < j => LeftIn(out, more, j) = "ok"
    BY <1>2, <1>3, <1>6, <2>1
  <2> QED BY <1>1, <1>6, <2>1, <2>2 DEF ComesUpon
<1> QED BY <1>5, <1>6 DEF ComesUpon

\* What the innermost call comes upon is the fault; at the end there is none.
LEMMA FaultComesUpon ==
  ASSUME NEW out, NEW first, NEW calls, IsSeq(calls), calls # <<>>, ComesUpon(out, calls, first)
  PROVE  /\ Left(out, calls[Len(calls)]) # "ok" => first = Left(out, calls[Len(calls)])
         /\ Len(calls) = 1 /\ Left(out, calls[1]) = "ok" => first = "ok"
<1> DEFINE n == Len(calls)
<1>1. n \in Nat /\ n # 0
  BY IsSeqLen
<1>2. LeftIn(out, calls, n) = Left(out, calls[n])
  BY DEF LeftIn
<1> HIDE DEF n
<1>3. n \in 1 .. n /\ (\A i \in 1 .. n : i = n \/ i < n) /\ (n = 1 => 1 .. n = {1})
  BY <1>1
<1> QED BY <1>2, <1>3 DEF ComesUpon, n

LEMMA PlusKeeps ==
  ASSUME NEW call, CallOK(call), NEW part
  PROVE  LET p == Plus(call, part) IN
         p.form = call.form /\ p.node = call.node /\ p.rest = call.rest /\ p.cols = call.cols
<1> SUFFICES ASSUME part # <<>>
             PROVE  LET p == Plus(call, part) IN
                    p.form = call.form /\ p.node = call.node /\ p.rest = call.rest /\ p.cols = call.cols
  BY DEF Plus
<1> DEFINE text == IF call.live = 0 THEN part ELSE call.text \o <<Separator(call.form)>> \o part
<1>1. Plus(call, part) = [call EXCEPT !.text = text, !.live = @ + 1]
  BY DEF Plus
<1>2. call \in [form : {call.form}, node : {call.node}, rest : {call.rest}, cols : {call.cols},
               text : {call.text}, live : {call.live}, from : {call.from}]
  BY DEF CallOK
<1> HIDE DEF text
<1> QED BY <1>1, <1>2

(***************************************************************************)
(* The actions.                                                            *)
(***************************************************************************)
LEMMA InnerLeft ==
  ASSUME NEW base, Rendering(base), Reading(Condition), result = "running", Inner.rest # <<>>
  PROVE  /\ Inner.form # "search" /\ Inner.cols = <<>> /\ Node \in Condition
         /\ Onward.cols = <<>> /\ Onward.rest = Tail(Inner.rest) /\ CallOK(Onward)
         /\ Left(exclude, Onward) = FirstFault(exclude, Onward.rest)
         /\ Left(exclude, Inner) =
              IF NodeFault(exclude)[Node] # "ok" THEN NodeFault(exclude)[Node]
              ELSE FirstFault(exclude, Onward.rest)
<1>1. CallOK(Inner) /\ CallReads(Condition, Inner)
  BY InnerReads
<1>2. Inner.form # "search" /\ Node \in Condition /\ CallOK(Onward)
  BY <1>1, OnwardReads, OnwardOK
<1>3. Inner.cols = <<>> /\ Inner.rest \in Seq(Condition)
  BY <1>1, <1>2 DEF CallReads
<1>4. Onward.cols = Inner.cols /\ Onward.rest = Tail(Inner.rest)
  BY <1>1, Advance DEF Onward
<1>5. FirstFault(exclude, Inner.rest) =
        IF NodeFault(exclude)[Node] # "ok" THEN NodeFault(exclude)[Node]
        ELSE FirstFault(exclude, Tail(Inner.rest))
  BY <1>3, FirstFaultOfMore DEF Node
<1> QED BY <1>2, <1>3, <1>4, <1>5 DEF Left

LEMMA SilentFault == ASSUME Node \in Condition, Silent PROVE NodeFault(exclude)[Node] = "ok"
BY FaultOfNode DEF Silent, LeafFault, Mute

LEMMA AtLeafFault ==
  ASSUME Node \in Condition, AtLeaf
  PROVE  NodeFault(exclude)[Node] =
           IF ~Known THEN "ErrUnknownField"
           ELSE IF ~Allows(Field, Node.op) THEN "ErrBadOperator"
           ELSE IF HooksPass(Field, Node.values) /\ ValuesOk(Field, Node.op, AfterHooks(Field, Node.values)) THEN "ok"
           ELSE "ErrBadValue"
<1>1. Forms(Node) = {"key"} /\ ~Mute(exclude, Node)
  BY DEF AtLeaf, Silent, Mute
<1>2. ValuesFit(Field, Node) <=>
        HooksPass(Field, Node.values) /\ ValuesOk(Field, Node.op, AfterHooks(Field, Node.values))
  BY FitsIsValuesFit DEF ValuesFit
<1> QED BY <1>1, <1>2, FaultOfNode DEF LeafFault, Known, Field

\* A step that fails, fails with the fault that the innermost call comes upon.
LEMMA FailReporting ==
  ASSUME NEW base, Rendering(base), Reading(Condition), Reporting, result = "running",
         NEW error, NEW bound, Fail(error, bound), error \notin {"ok", "running"}, Left(exclude, Inner) = error
  PROVE  Reporting'
<1>1. /\ IsSeq(stack) /\ stack # <<>> /\ Inner = stack[Len(stack)]
  BY InnerReads
<1>2. FirstFault(exclude, filter) = error
  BY <1>1, FaultComesUpon DEF Reporting
<1>3. result' = error /\ exclude' = exclude /\ filter' = filter
  BY DEF Fail
<1> QED BY <1>2, <1>3 DEF Reporting

LEMMA SkipReporting ==
  ASSUME NEW base, Rendering(base), Reading(Condition), Reporting, Skip PROVE Reporting'
<1>1. /\ Inner.rest # <<>> /\ Silent /\ result = "running" /\ result' = "running"
      /\ stack' = Append(Below, Onward) /\ exclude' = exclude /\ filter' = filter
  BY DEF Skip, Visiting
<1>2. /\ IsSeq(stack) /\ stack # <<>>
      /\ Inner = stack[Len(stack)] /\ Below = SubSeq(stack, 1, Len(stack) - 1)
  BY <1>1, InnerReads
<1>3. Left(exclude, Onward) = Left(exclude, Inner)
  BY <1>1, InnerLeft, SilentFault
<1>4. ComesUpon(exclude, stack', FirstFault(exclude, filter))
  BY <1>1, <1>2, <1>3, ReplaceComesUpon DEF Reporting
<1> QED BY <1>1, <1>4 DEF Reporting

LEMMA DescendReporting ==
  ASSUME NEW base, Rendering(base), Reading(Condition), Reporting, Descend PROVE Reporting'
<1>1. PICK form \in {"and", "or", "not"} :
        /\ Inner.rest # <<>> /\ result = "running" /\ result' = "running"
        /\ Forms(Node) = {form}
        /\ stack' = Below \o <<Onward, Call(form, Node, Node[form], <<>>)>>
        /\ exclude' = exclude /\ filter' = filter
  BY DEF Descend, Visiting
<1>2. /\ IsSeq(stack) /\ stack # <<>> /\ IsSeq(Below)
      /\ Inner = stack[Len(stack)] /\ Below = SubSeq(stack, 1, Len(stack) - 1)
  BY <1>1, InnerReads
<1> DEFINE call == Call(form, Node, Node[form], <<>>)
<1>3. Left(exclude, call) = FirstFault(exclude, Node[form])
  BY DEF Left, Call
<1> HIDE DEF call
<1>4. NodeFault(exclude)[Node] = Left(exclude, call)
  BY <1>1, <1>3, InnerLeft, FaultOfNode
<1>5. Left(exclude, Inner) =
        IF Left(exclude, call) # "ok" THEN Left(exclude, call) ELSE FirstFault(exclude, Onward.rest)
  BY <1>1, <1>4, InnerLeft
<1>6. stack' = Append(Append(Below, Onward), call)
  BY <1>1, <1>2, TwoMore DEF call
<1>7. ComesUpon(exclude, stack', FirstFault(exclude, filter))
  BY <1>1, <1>2, <1>5, <1>6, OpenComesUpon DEF Reporting
<1> QED BY <1>1, <1>7 DEF Reporting

LEMMA OpenSearchReporting ==
  ASSUME NEW base, Rendering(base), Reading(Condition), Reporting, OpenSearch PROVE Reporting'
<1>1. /\ Inner.rest # <<>> /\ result = "running" /\ result' = "running"
      /\ AtLeaf /\ Known /\ Allows(Field, Node.op) /\ HooksPass(Field, Node.values) /\ Field.search # <<>>
      /\ stack' = Below \o <<Onward, Call("search", Hooked, <<>>, Field.search)>>
      /\ exclude' = exclude /\ filter' = filter
  BY DEF OpenSearch, Admitted, AtLeaf, Visiting
<1>2. /\ IsSeq(stack) /\ stack # <<>> /\ IsSeq(Below)
      /\ Inner = stack[Len(stack)] /\ Below = SubSeq(stack, 1, Len(stack) - 1)
  BY <1>1, InnerReads
<1>3. Hooked.key = Node.key /\ Hooked.op = Node.op /\ Hooked.values = AfterHooks(Field, Node.values)
  BY <1>1, InnerLeft, ConditionAssumption DEF Hooked
<1> DEFINE call == Call("search", Hooked, <<>>, Field.search)
<1>4. call.cols = Field.search /\ call.node = Hooked
  BY DEF Call
<1> HIDE DEF call
<1>5. NodeFault(exclude)[Node] = Left(exclude, call)
  <2>1. NodeFault(exclude)[Node] =
          IF ValuesOk(Field, Node.op, AfterHooks(Field, Node.values)) THEN "ok" ELSE "ErrBadValue"
    BY <1>1, InnerLeft, AtLeafFault
  <2>2. Registry[Hooked.key] = Field
    BY <1>3 DEF Field
  <2> QED BY <1>1, <1>3, <1>4, <2>1, <2>2 DEF Left
<1>6. Left(exclude, Inner) =
        IF Left(exclude, call) # "ok" THEN Left(exclude, call) ELSE FirstFault(exclude, Onward.rest)
  BY <1>1, <1>5, InnerLeft
<1>7. stack' = Append(Append(Below, Onward), call)
  BY <1>1, <1>2, TwoMore DEF call
<1>8. ComesUpon(exclude, stack', FirstFault(exclude, filter))
  BY <1>1, <1>2, <1>6, <1>7, OpenComesUpon DEF Reporting
<1> QED BY <1>1, <1>8 DEF Reporting

LEMMA RenderLeafReporting ==
  ASSUME NEW base, Rendering(base), Reading(Condition), Reporting, RenderLeaf PROVE Reporting'
<1> DEFINE r == Resolve(dialect, Field, Column(Node.key), Hooked, Len(args))
<1>1. /\ Inner.rest # <<>> /\ result = "running"
      /\ AtLeaf /\ Known /\ Allows(Field, Node.op) /\ HooksPass(Field, Node.values)
      /\ \/ ~r.ok /\ Fail("ErrBadValue", r.args)
         \/ /\ r.ok /\ result' = "running" /\ stack' = Append(Below, Plus(Onward, r.text))
            /\ exclude' = exclude /\ filter' = filter
  BY DEF RenderLeaf, Admitted, AtLeaf, Visiting
<1>2. /\ IsSeq(stack) /\ stack # <<>> /\ CallOK(Inner)
      /\ Inner = stack[Len(stack)] /\ Below = SubSeq(stack, 1, Len(stack) - 1)
  BY <1>1, InnerReads
<1>3. Node \in Condition /\ IsSeq(Node.values)
  BY <1>1, <1>2, OnwardOK
<1>4. Hooked.op = Node.op /\ Hooked.values = AfterHooks(Field, Node.values) /\ IsSeq(Hooked.values)
  BY <1>3, HookedOK, ConditionAssumption DEF Hooked
<1>5. r.ok <=> ValuesOk(Field, Node.op, AfterHooks(Field, Node.values))
  BY <1>1, <1>4, ResolveFits
<1> HIDE DEF r
<1>6. NodeFault(exclude)[Node] = IF r.ok THEN "ok" ELSE "ErrBadValue"
  BY <1>1, <1>3, <1>5, AtLeafFault
<1>7. CASE ~r.ok /\ Fail("ErrBadValue", r.args)
  <2>1. Left(exclude, Inner) = "ErrBadValue"
    BY <1>1, <1>6, <1>7, InnerLeft
  <2> QED BY <1>1, <1>7, <2>1, FailReporting
<1>8. CASE /\ r.ok /\ result' = "running" /\ stack' = Append(Below, Plus(Onward, r.text))
           /\ exclude' = exclude /\ filter' = filter
  <2>1. CallOK(Onward) /\ Onward.cols = <<>>
    BY <1>1, InnerLeft
  <2> DEFINE x == Plus(Onward, r.text)
  <2>2. x.rest = Onward.rest /\ x.cols = Onward.cols
    BY <2>1, PlusKeeps
  <2>3. stack' = Append(Below, x)
    BY <1>8
  <2> HIDE DEF x
  <2>4. Left(exclude, x) = Left(exclude, Inner)
    BY <1>1, <1>6, <1>8, <2>1, <2>2, InnerLeft DEF Left
  <2>5. ComesUpon(exclude, stack', FirstFault(exclude, filter))
    BY <1>1, <1>2, <2>3, <2>4, ReplaceComesUpon DEF Reporting
  <2> QED BY <1>8, <2>5 DEF Reporting
<1> QED BY <1>1, <1>7, <1>8

LEMMA SearchColumnReporting ==
  ASSUME NEW base, Rendering(base), Reading(Condition), Reporting, SearchColumn PROVE Reporting'
<1> DEFINE c == Inner.node
           r == Resolve(dialect, Registry[c.key], Head(Inner.cols), c, Len(args))
           call == [Inner EXCEPT !.cols = Tail(@)]
<1>1. /\ Inner.cols # <<>> /\ result = "running"
      /\ \/ ~r.ok /\ Fail("ErrBadValue", r.args)
         \/ /\ r.ok /\ result' = "running" /\ stack' = Append(Below, Plus(call, r.text))
            /\ exclude' = exclude /\ filter' = filter
  BY DEF SearchColumn
<1>2. /\ IsSeq(stack) /\ stack # <<>> /\ CallOK(Inner) /\ CallReads(Condition, Inner)
      /\ Inner = stack[Len(stack)] /\ Below = SubSeq(stack, 1, Len(stack) - 1)
  BY <1>1, InnerReads
<1>3. Allows(Registry[c.key], c.op) /\ IsSeq(c.values) /\ IsSeq(Inner.cols)
  BY <1>1, <1>2 DEF CallOK
<1>4. r.ok <=> ValuesOk(Registry[c.key], c.op, c.values)
  BY <1>3, ResolveFits
<1>5. call = [form |-> Inner.form, node |-> Inner.node, rest |-> Inner.rest, cols |-> Tail(Inner.cols),
              text |-> Inner.text, live |-> Inner.live, from |-> Inner.from]
  BY <1>2, Advance
<1>6. Inner.rest = <<>>
  BY <1>1, <1>2 DEF CallReads
<1> HIDE DEF r
<1>7. Left(exclude, Inner) = IF r.ok THEN "ok" ELSE "ErrBadValue"
  BY <1>1, <1>4 DEF Left
<1>8. CASE ~r.ok /\ Fail("ErrBadValue", r.args)
  <2>1. Left(exclude, Inner) = "ErrBadValue"
    BY <1>7, <1>8
  <2> QED BY <1>1, <1>8, <2>1, FailReporting
<1>9. CASE /\ r.ok /\ result' = "running" /\ stack' = Append(Below, Plus(call, r.text))
           /\ exclude' = exclude /\ filter' = filter
  <2>1. IsSeq(Tail(Inner.cols))
    BY <1>1, <1>3, IsSeqTail
  <2>2. /\ call.form = Inner.form /\ call.node = Inner.node /\ call.rest = <<>> /\ call.cols = Tail(Inner.cols)
    BY <1>5, <1>6
  <2>3. CallOK(call)
    BY <1>1, <1>2, <1>5, <2>1 DEF CallOK
  <2> HIDE DEF call
  <2> DEFINE x == Plus(call, r.text)
  <2>4. x.node = Inner.node /\ x.rest = <<>>
    BY <2>2, <2>3, PlusKeeps
  <2>5. stack' = Append(Below, x)
    BY <1>9
  <2> HIDE DEF x
  <2>6. ValuesOk(Registry[c.key], c.op, c.values) /\ Left(exclude, Inner) = "ok"
    BY <1>4, <1>7, <1>9
  <2>7. Left(exclude, x) = Left(exclude, Inner)
    BY <2>4, <2>6, FirstFaultOfNone DEF Left
  <2>8. ComesUpon(exclude, stack', FirstFault(exclude, filter))
    BY <1>1, <1>2, <2>5, <2>7, ReplaceComesUpon DEF Reporting
  <2> QED BY <1>9, <2>8 DEF Reporting
<1> QED BY <1>1, <1>8, <1>9

LEMMA CloseReporting ==
  ASSUME NEW base, Rendering(base), Reading(Condition), Reporting, Close PROVE Reporting'
<1> DEFINE text == Returned(Inner)
           outer == stack[Len(stack) - 1]
           x == Plus(outer, text)
<1>1. /\ result = "running" /\ result' = "running" /\ Len(stack) > 1
      /\ Inner.rest = <<>> /\ Inner.cols = <<>>
      /\ stack' = Append(SubSeq(stack, 1, Len(stack) - 2), x)
      /\ exclude' = exclude /\ filter' = filter
  BY DEF Close, Finished
<1>2. IsSeq(stack) /\ Inner = stack[Len(stack)]
  BY <1>1, InnerReads
<1>3. outer.form # "search" /\ CallOK(outer) /\ CallReads(Condition, outer)
  BY <1>1, OuterReads
<1>4. outer.cols = <<>>
  BY <1>3 DEF CallReads
<1>5. x.rest = outer.rest /\ x.cols = <<>>
  BY <1>3, <1>4, PlusKeeps
<1> HIDE DEF text, x
<1>6. Left(exclude, x) = FirstFault(exclude, stack[Len(stack) - 1].rest)
  BY <1>5 DEF Left
<1>7. Left(exclude, stack[Len(stack)]) = "ok"
  BY <1>1, <1>2, FirstFaultOfNone DEF Left
<1>8. ComesUpon(exclude, stack', FirstFault(exclude, filter))
  BY <1>1, <1>2, <1>6, <1>7, CloseComesUpon DEF Reporting
<1> QED BY <1>1, <1>8 DEF Reporting

LEMMA ReturnReporting ==
  ASSUME NEW base, Rendering(base), Reading(Condition), Reporting, Return PROVE Reporting'
<1>1. /\ result = "running" /\ Len(stack) = 1 /\ result' = "ok" /\ exclude' = exclude /\ filter' = filter
      /\ Inner.rest = <<>> /\ Inner.cols = <<>>
  BY DEF Return, Finished
<1>2. IsSeq(stack) /\ stack # <<>> /\ stack[1] = Inner
  BY <1>1, InnerReads, OutermostReads
<1>3. Left(exclude, stack[1]) = "ok"
  BY <1>1, <1>2, FirstFaultOfNone DEF Left
<1>4. FirstFault(exclude, filter) = "ok"
  BY <1>1, <1>2, <1>3, FaultComesUpon DEF Reporting
<1> QED BY <1>1, <1>4 DEF Reporting

LEMMA RefusingReporting ==
  ASSUME NEW base, Rendering(base), Reading(Condition), Reporting,
         Malformed \/ UnknownField \/ BadOperator \/ HooksFail
  PROVE  Reporting'
<1>1. result = "running" /\ Inner.rest # <<>>
  BY DEF Malformed, UnknownField, BadOperator, HooksFail, AtLeaf, Visiting
<1>2. /\ Node \in Condition
      /\ NodeFault(exclude)[Node] # "ok" => Left(exclude, Inner) = NodeFault(exclude)[Node]
  BY <1>1, InnerLeft
<1>3. CASE Malformed
  <2>1. Cardinality(Forms(Node)) > 1 /\ Fail("ErrInvalidCondition", <<>>)
    BY <1>3 DEF Malformed
  <2>2. Left(exclude, Inner) = "ErrInvalidCondition"
    BY <1>2, <2>1, FaultOfNode
  <2> QED BY <1>1, <2>1, <2>2, FailReporting
<1>4. CASE UnknownField
  <2>1. AtLeaf /\ ~Known /\ Fail("ErrUnknownField", <<>>)
    BY <1>4 DEF UnknownField
  <2>2. Left(exclude, Inner) = "ErrUnknownField"
    BY <1>2, <2>1, AtLeafFault
  <2> QED BY <1>1, <2>1, <2>2, FailReporting
<1>5. CASE BadOperator
  <2>1. AtLeaf /\ Known /\ ~Allows(Field, Node.op) /\ Fail("ErrBadOperator", <<>>)
    BY <1>5 DEF BadOperator
  <2>2. Left(exclude, Inner) = "ErrBadOperator"
    BY <1>2, <2>1, AtLeafFault
  <2> QED BY <1>1, <2>1, <2>2, FailReporting
<1>6. CASE HooksFail
  <2>1. AtLeaf /\ Known /\ Allows(Field, Node.op) /\ ~HooksPass(Field, Node.values) /\ Fail("ErrBadValue", <<>>)
    BY <1>6 DEF HooksFail
  <2>2. Left(exclude, Inner) = "ErrBadValue"
    BY <1>2, <2>1, AtLeafFault
  <2> QED BY <1>1, <2>1, <2>2, FailReporting
<1> QED BY <1>3, <1>4, <1>5, <1>6

LEMMA NextReporting ==
  ASSUME NEW base, Rendering(base), Reading(Condition), Reporting, [Next]_vars PROVE Reporting'
<1>1. CASE Malformed \/ UnknownField \/ BadOperator \/ HooksFail
  BY <1>1, RefusingReporting
<1>2. CASE UNCHANGED vars
  BY <1>2 DEF vars, Reporting
<1>3. CASE Skip \/ Descend \/ RenderLeaf \/ OpenSearch \/ SearchColumn \/ Close \/ Return
  BY <1>3, SkipReporting, DescendReporting, RenderLeafReporting, OpenSearchReporting,
     SearchColumnReporting, CloseReporting, ReturnReporting
<1> QED BY <1>1, <1>2, <1>3 DEF Next

LEMMA InitReporting == Init => Reporting
<1> SUFFICES ASSUME Init PROVE Reporting
  OBVIOUS
<1> DEFINE top == [form |-> "top", node |-> Empty, rest |-> filter, cols |-> <<>>,
                   text |-> <<>>, live |-> 0, from |-> 0]
<1>1. result = "running" /\ stack = <<top>>
  BY DEF Init
<1>2. top.cols = <<>> /\ top.rest = filter
  OBVIOUS
<1> HIDE DEF top
<1>3. Len(stack) = 1 /\ stack[1] = top
  BY <1>1
<1>4. LeftIn(exclude, stack, 1) = FirstFault(exclude, filter)
  BY <1>2, <1>3 DEF LeftIn, Left
<1>5. 1 .. 1 = {1}
  OBVIOUS
<1>6. ComesUpon(exclude, stack, FirstFault(exclude, filter))
  BY <1>3, <1>4, <1>5 DEF ComesUpon
<1> QED BY <1>1, <1>6 DEF Reporting

\* Whatever the registry, the hooks, the filter and the dialect: a filter
\* compiles exactly when nothing in it that takes part has a fault, and the
\* error returned is that of the first fault in reading order (errors.go:9-32).
THEOREM FaultsReported == Spec => []ReportsFirstFault
<1>1. Init => Rendering(0) /\ Reading(Condition) /\ Reporting
  BY InitRendering, InitReading, InitReporting
<1>2. Rendering(0) /\ Reading(Condition) /\ Reporting /\ [Next]_vars
        => (Rendering(0) /\ Reading(Condition) /\ Reporting)'
  BY NextRendering, NextReading, NextReporting, AllChildren
<1>3. Reporting => ReportsFirstFault
  BY DEF Reporting, ReportsFirstFault
<1> QED BY <1>1, <1>2, <1>3, PTL DEF Spec

(***************************************************************************)
(* Types.                                                                  *)
(***************************************************************************)
Framed(call, n) ==
  /\ call.form \in {"top", "and", "or", "not", "search"}
  /\ IsSeq(Children(call))
  /\ IsSuffix(call.rest, Children(call))
  /\ call.text \in Seq(Token(dialect))
  /\ call.live \in Nat
  /\ call.from \in 0 .. n
  /\ ToSet(call.cols) \subseteq ColumnNames

\* Whatever the filter and what it excludes.
Formed ==
  /\ IsSeq(args)
  /\ IsSeq(stack) /\ stack # <<>>
  /\ \A i \in DOMAIN stack : Framed(stack[i], Len(args))
  /\ sql \in Seq(Token(dialect))
  /\ result \in {"running", "ok", "ErrInvalidCondition", "ErrUnknownField", "ErrBadOperator", "ErrBadValue"}

Typed == dialect \in Target /\ exclude \in Excludable /\ filter \in Filter /\ Formed

LEMMA InitTyped == Init => Typed
<1> SUFFICES ASSUME Init PROVE Typed
  OBVIOUS
<1> DEFINE top == [form |-> "top", node |-> Empty, rest |-> filter, cols |-> <<>>,
                   text |-> <<>>, live |-> 0, from |-> 0]
<1>1. /\ dialect \in Target /\ exclude \in Excludable /\ filter \in Filter
      /\ args = <<>> /\ stack = <<top>> /\ sql = <<>> /\ result = "running"
  BY DEF Init
<1>2. IsSeq(args) /\ Len(args) = 0
  BY <1>1, EmptySeq, IsSeqIntro
<1>3. IsSeq(filter)
  BY <1>1, FilterAssumption, IsSeqIntro
<1>4. /\ top.form = "top" /\ top.rest = filter /\ top.text = <<>> /\ top.live = 0 /\ top.from = 0
      /\ top.cols = <<>>
  OBVIOUS
<1> HIDE DEF top
<1>5. Children(top) = filter
  BY <1>4 DEF Children
<1>6. ToSet(<<>>) = {}
  BY DEF ToSet
<1>7. Framed(top, 0)
  BY <1>3, <1>4, <1>5, <1>6, SuffixItself DEF Framed
<1>8. IsSeq(stack) /\ stack # <<>> /\ DOMAIN stack = {1} /\ stack[1] = top
  BY <1>1, IsSeqOne
<1> QED BY <1>1, <1>2, <1>7, <1>8 DEF Typed, Formed

LEMMA FramedLater ==
  ASSUME NEW call, NEW n \in Nat, NEW m \in Nat, n <= m, Framed(call, n)
  PROVE  Framed(call, m)
BY DEF Framed

LEMMA FailFormed ==
  ASSUME Formed, NEW error \in {"ErrInvalidCondition", "ErrUnknownField", "ErrBadOperator", "ErrBadValue"},
         NEW bound, IsSeq(bound), Fail(error, bound)
  PROVE  Formed'
<1>1. result' = error /\ args' = args \o bound /\ UNCHANGED <<dialect, filter, exclude, stack, sql>>
  BY DEF Fail
<1>2. IsSeq(args') /\ Len(args) \in Nat /\ Len(args') \in Nat /\ Len(args) <= Len(args')
  BY <1>1, IsSeqConcat, IsSeqLen DEF Formed
<1>3. \A i \in DOMAIN stack : Framed(stack[i], Len(args'))
  BY <1>2, FramedLater DEF Formed
<1> QED BY <1>1, <1>2, <1>3 DEF Formed, Framed, Children

LEMMA StillFormed ==
  ASSUME Formed, UNCHANGED <<dialect, filter, exclude, sql, result>>, IsSeq(args'),
         NEW calls, stack' = calls, IsSeq(calls), calls # <<>>,
         \A i \in DOMAIN calls : Framed(calls[i], Len(args'))
  PROVE  Formed'
BY DEF Formed, Framed, Children

LEMMA PlusFramed ==
  ASSUME NEW call, CallOK(call), NEW n, Framed(call, n), NEW part \in Seq(Token(dialect))
  PROVE  Framed(Plus(call, part), n)
<1>1. CASE part = <<>>
  BY <1>1 DEF Plus
<1>2. CASE part # <<>>
  <2> DEFINE text == IF call.live = 0 THEN part ELSE call.text \o <<Separator(call.form)>> \o part
  <2>1. Plus(call, part) = [form |-> call.form, node |-> call.node, rest |-> call.rest, cols |-> call.cols,
                            text |-> text, live |-> call.live + 1, from |-> call.from]
    BY <1>2 DEF CallOK, Plus
  <2>2. <<Separator(call.form)>> \in Seq(Token(dialect))
    BY WordType DEF Separator
  <2>3. text \in Seq(Token(dialect))
    BY <2>2, ConcatType DEF Framed
  <2>4. call.live + 1 \in Nat
    BY DEF Framed
  <2> HIDE DEF text
  <2>5. Children(Plus(call, part)) = Children(call)
    BY <2>1 DEF Children
  <2> QED BY <2>1, <2>3, <2>4, <2>5 DEF Framed
<1> QED BY <1>1, <1>2

LEMMA OnwardFramed ==
  ASSUME CallOK(Inner), NEW n, Framed(Inner, n), Inner.rest # <<>>
  PROVE  Framed(Onward, n)
<1>1. Onward = [form |-> Inner.form, node |-> Inner.node, rest |-> Tail(Inner.rest), cols |-> Inner.cols,
                text |-> Inner.text, live |-> Inner.live, from |-> Inner.from]
  BY Advance DEF Onward
<1>2. Children(Onward) = Children(Inner)
  BY <1>1 DEF Children
<1>3. IsSeq(Inner.rest)
  BY IsSeqIntro DEF CallOK
<1>4. IsSuffix(Tail(Inner.rest), Children(Inner))
  BY <1>3, SuffixTail DEF Framed
<1> QED BY <1>1, <1>2, <1>4 DEF Framed

LEMMA ReturnedType ==
  ASSUME NEW call, call.text \in Seq(Token(dialect))
  PROVE  Returned(call) \in Seq(Token(dialect))
<1>1. <<>> \in Seq(Token(dialect))
  OBVIOUS
<1>2. Negated(call.text) \in Seq(Token(dialect))
  BY NegatedType
<1>3. <<Word("(")>> \o call.text \o <<Word(")")>> \in Seq(Token(dialect))
  BY WordType, ConcatType
<1> QED BY <1>1, <1>2, <1>3 DEF Returned

\* A call inside the innermost one begins.
LEMMA BeginsFramed ==
  ASSUME Len(args) \in Nat, NEW form \in {"and", "or", "not", "search"}, NEW node, NEW rest, IsSeq(rest),
         IF form = "search" THEN rest = <<>> ELSE rest = node[form],
         NEW cols, ToSet(cols) \subseteq ColumnNames
  PROVE  Framed(Call(form, node, rest, cols), Len(args))
<1> DEFINE call == Call(form, node, rest, cols)
<1>1. /\ call.form = form /\ call.node = node /\ call.rest = rest /\ call.cols = cols
      /\ call.text = <<>> /\ call.live = 0 /\ call.from = Len(args)
  BY DEF Call
<1> HIDE DEF call
<1>2. Children(call) = rest
  BY <1>1 DEF Children
<1>3. IsSuffix(rest, rest)
  BY SuffixItself
<1>4. Len(args) \in 0 .. Len(args)
  OBVIOUS
<1>5. <<>> \in Seq(Token(dialect))
  OBVIOUS
<1>6. Framed(call, Len(args))
  BY <1>1, <1>2, <1>3, <1>4, <1>5 DEF Framed
<1> QED BY <1>6 DEF call

\* The columns that the leaves of a field are about.
LEMMA ColumnsNamed ==
  ASSUME NEW k \in DOMAIN Registry
  PROVE  /\ Registry[k].search = <<>> => Column(k) \in ColumnNames
         /\ Registry[k].search # <<>> => ToSet(Registry[k].search) \subseteq ColumnNames
BY DEF ColumnNames, ColumnsOf

LEMMA InnerFormed ==
  ASSUME NEW base, Rendering(base), Formed, result = "running"
  PROVE  /\ IsSeq(args) /\ Len(args) \in Nat /\ IsSeq(stack) /\ stack # <<>>
         /\ CallOK(Inner) /\ Framed(Inner, Len(args))
         /\ Inner = stack[Len(stack)] /\ Below = SubSeq(stack, 1, Len(stack) - 1) /\ IsSeq(Below)
         /\ dialect \in Dialect
<1>1. IsSeq(args) /\ Len(args) \in Nat /\ IsSeq(stack) /\ stack # <<>> /\ CallOK(Inner)
  BY Innermost
<1>2. Len(stack) \in DOMAIN stack
  BY <1>1, IsSeqLen
<1>3. IsSeq(Below)
  BY Innermost DEF StackOK
<1> QED BY <1>1, <1>2, <1>3 DEF Formed, Inner, Below, Rendering

\* Frames stay frames when the innermost call is replaced, when another begins inside it, and when it
\* returns to the one below.
LEMMA ReplaceFramed ==
  ASSUME NEW m, NEW calls, IsSeq(calls), calls # <<>>, \A i \in DOMAIN calls : Framed(calls[i], m),
         NEW x, Framed(x, m), NEW n, n = Len(calls), NEW more, more = Append(SubSeq(calls, 1, n - 1), x)
  PROVE  IsSeq(more) /\ more # <<>> /\ \A i \in DOMAIN more : Framed(more[i], m)
<1>1. IsSeq(more)
  BY Replaced
<1>2. /\ n \in Nat /\ n # 0 /\ DOMAIN calls = 1 .. n
      /\ DOMAIN more = 1 .. n
      /\ \A i \in 1 .. n : i # n => more[i] = calls[i]
      /\ more[n] = x
  BY Replaced
<1>3. \A i \in 1 .. n : Framed(more[i], m)
  BY <1>2
<1>4. n \in DOMAIN more
  BY <1>2
<1> QED BY <1>1, <1>2, <1>3, <1>4

LEMMA OpenFramed ==
  ASSUME NEW m, NEW calls, IsSeq(calls), calls # <<>>, \A i \in DOMAIN calls : Framed(calls[i], m),
         NEW x, Framed(x, m), NEW y, Framed(y, m), NEW n, n = Len(calls),
         NEW one, one = Append(SubSeq(calls, 1, n - 1), x), NEW more, more = Append(one, y)
  PROVE  IsSeq(more) /\ more # <<>> /\ \A i \in DOMAIN more : Framed(more[i], m)
<1>1. IsSeq(more)
  <2>1. IsSeq(one)
    BY Replaced
  <2> QED BY <2>1, IsSeqAppend
<1>2. /\ n \in Nat /\ n # 0 /\ DOMAIN calls = 1 .. n
      /\ DOMAIN more = 1 .. n + 1
      /\ \A i \in 1 .. n : i # n => more[i] = calls[i]
      /\ more[n] = x /\ more[n + 1] = y
  BY Opened
<1>3. \A i \in 1 .. n + 1 : i = n + 1 \/ i \in 1 .. n
  BY <1>2
<1>4. \A i \in 1 .. n + 1 : Framed(more[i], m)
  BY <1>2, <1>3
<1>5. n + 1 \in DOMAIN more
  BY <1>2
<1> QED BY <1>1, <1>2, <1>4, <1>5

LEMMA CloseFramed ==
  ASSUME NEW m, NEW calls, IsSeq(calls), Len(calls) > 1, \A i \in DOMAIN calls : Framed(calls[i], m),
         NEW x, Framed(x, m), NEW n, n = Len(calls), NEW more, more = Append(SubSeq(calls, 1, n - 2), x)
  PROVE  IsSeq(more) /\ more # <<>> /\ \A i \in DOMAIN more : Framed(more[i], m)
<1>1. IsSeq(more)
  BY Closed
<1>2. /\ n \in Nat /\ n > 1 /\ DOMAIN calls = 1 .. n
      /\ DOMAIN more = 1 .. n - 1
      /\ \A i \in 1 .. n - 1 : i # n - 1 => more[i] = calls[i]
      /\ more[n - 1] = x
  BY Closed
<1>3. \A i \in 1 .. n - 1 : i \in 1 .. n
  BY <1>2
<1>4. \A i \in 1 .. n - 1 : Framed(more[i], m)
  BY <1>2, <1>3
<1>5. n - 1 \in DOMAIN more
  BY <1>2
<1> QED BY <1>1, <1>2, <1>4, <1>5

LEMMA ReplaceFormed ==
  ASSUME Formed, UNCHANGED <<dialect, filter, exclude, sql, result>>,
         IsSeq(args'), Len(args) \in Nat, Len(args') \in Nat, Len(args) <= Len(args'),
         NEW x, Framed(x, Len(args')), stack' = Append(SubSeq(stack, 1, Len(stack) - 1), x)
  PROVE  Formed'
<1>1. IsSeq(stack) /\ stack # <<>>
  BY DEF Formed
<1>2. \A i \in DOMAIN stack : Framed(stack[i], Len(args'))
  BY FramedLater DEF Formed
<1>3. PICK m : m = Len(args')
  OBVIOUS
<1>4. PICK calls : calls = stack
  OBVIOUS
<1>5. PICK n : n = Len(calls)
  OBVIOUS
<1>6. PICK more : more = Append(SubSeq(calls, 1, n - 1), x)
  OBVIOUS
<1>7. /\ IsSeq(calls) /\ calls # <<>> /\ Framed(x, m)
      /\ \A i \in DOMAIN calls : Framed(calls[i], m)
  BY <1>1, <1>2, <1>3, <1>4
<1>8. IsSeq(more) /\ more # <<>> /\ \A i \in DOMAIN more : Framed(more[i], m)
  BY <1>5, <1>6, <1>7, ReplaceFramed
<1>9. stack' = more
  BY <1>4, <1>5, <1>6
<1> QED BY <1>3, <1>8, <1>9, StillFormed

LEMMA OpenFormed ==
  ASSUME Formed, UNCHANGED <<dialect, filter, exclude, sql, result, args>>,
         NEW x, Framed(x, Len(args)), NEW y, Framed(y, Len(args)),
         stack' = Append(Append(SubSeq(stack, 1, Len(stack) - 1), x), y)
  PROVE  Formed'
<1>1. IsSeq(stack) /\ stack # <<>> /\ IsSeq(args)
  BY DEF Formed
<1>2. PICK m : m = Len(args)
  OBVIOUS
<1>3. PICK calls : calls = stack
  OBVIOUS
<1>4. PICK n : n = Len(calls)
  OBVIOUS
<1>5. PICK one : one = Append(SubSeq(calls, 1, n - 1), x)
  OBVIOUS
<1>6. PICK more : more = Append(one, y)
  OBVIOUS
<1>7. /\ IsSeq(calls) /\ calls # <<>> /\ Framed(x, m) /\ Framed(y, m)
      /\ \A i \in DOMAIN calls : Framed(calls[i], m)
  BY <1>1, <1>2, <1>3 DEF Formed
<1>8. IsSeq(more) /\ more # <<>> /\ \A i \in DOMAIN more : Framed(more[i], m)
  BY <1>4, <1>5, <1>6, <1>7, OpenFramed
<1>9. stack' = more
  BY <1>3, <1>4, <1>5, <1>6
<1>10. m = Len(args') /\ IsSeq(args')
  BY <1>1, <1>2
<1> QED BY <1>8, <1>9, <1>10, StillFormed

LEMMA SkipFormed == ASSUME NEW base, Rendering(base), Formed, Skip PROVE Formed'
<1>1. /\ Inner.rest # <<>> /\ result = "running" /\ stack' = Append(Below, Onward)
      /\ UNCHANGED <<dialect, filter, exclude, args, sql, result>>
  BY DEF Skip, Visiting
<1>2. /\ CallOK(Inner) /\ Framed(Inner, Len(args)) /\ Below = SubSeq(stack, 1, Len(stack) - 1)
      /\ IsSeq(args) /\ Len(args) \in Nat
  BY <1>1, InnerFormed
<1>3. Framed(Onward, Len(args))
  BY <1>1, <1>2, OnwardFramed
<1> QED BY <1>1, <1>2, <1>3, ReplaceFormed

LEMMA DescendFormed == ASSUME NEW base, Rendering(base), Formed, Descend PROVE Formed'
<1>1. PICK form \in {"and", "or", "not"} :
        /\ Inner.rest # <<>> /\ result = "running"
        /\ stack' = Below \o <<Onward, Call(form, Node, Node[form], <<>>)>>
        /\ UNCHANGED <<dialect, filter, exclude, args, sql, result>>
  BY DEF Descend, Visiting
<1>2. /\ CallOK(Inner) /\ Framed(Inner, Len(args)) /\ Below = SubSeq(stack, 1, Len(stack) - 1)
      /\ Len(args) \in Nat /\ IsSeq(Below)
  BY <1>1, InnerFormed
<1>3. Framed(Onward, Len(args))
  BY <1>1, <1>2, OnwardFramed
<1>4. Node.and \in Seq(Condition) /\ Node.or \in Seq(Condition) /\ Node.not \in Seq(Condition)
  BY <1>1, <1>2, OnwardOK
<1>5. Node[form] \in Seq(Condition)
  BY <1>4
<1>6. IsSeq(Node[form])
  BY <1>5, IsSeqIntro
<1>7. ToSet(<<>>) \subseteq ColumnNames
  BY DEF ToSet
<1>8. PICK call : call = Call(form, Node, Node[form], <<>>)
  OBVIOUS
<1>9. Framed(call, Len(args))
  BY <1>2, <1>6, <1>7, <1>8, BeginsFramed
<1>10. stack' = Append(Append(Below, Onward), call)
  BY <1>1, <1>2, <1>8, TwoMore
<1> QED BY <1>1, <1>2, <1>3, <1>9, <1>10, OpenFormed

LEMMA OpenSearchFormed == ASSUME NEW base, Rendering(base), Formed, OpenSearch PROVE Formed'
<1>1. /\ Inner.rest # <<>> /\ result = "running"
      /\ Node.key \in DOMAIN Registry /\ Field.search # <<>>
      /\ stack' = Below \o <<Onward, Call("search", Hooked, <<>>, Field.search)>>
      /\ UNCHANGED <<dialect, filter, exclude, args, sql, result>>
  BY DEF OpenSearch, Admitted, AtLeaf, Visiting, Known
<1>2. /\ CallOK(Inner) /\ Framed(Inner, Len(args)) /\ Below = SubSeq(stack, 1, Len(stack) - 1)
      /\ Len(args) \in Nat /\ IsSeq(Below)
  BY <1>1, InnerFormed
<1>3. Framed(Onward, Len(args))
  BY <1>1, <1>2, OnwardFramed
<1>4. ToSet(Field.search) \subseteq ColumnNames
  BY <1>1, ColumnsNamed DEF Field
<1>5. IsSeq(<<>>)
  BY EmptySeq, IsSeqIntro
<1>6. PICK call : call = Call("search", Hooked, <<>>, Field.search)
  OBVIOUS
<1>7. Framed(call, Len(args))
  BY <1>2, <1>4, <1>5, <1>6, BeginsFramed
<1>8. stack' = Append(Append(Below, Onward), call)
  BY <1>1, <1>2, <1>6, TwoMore
<1> QED BY <1>1, <1>2, <1>3, <1>7, <1>8, OpenFormed

LEMMA RenderLeafFormed == ASSUME NEW base, Rendering(base), Formed, RenderLeaf PROVE Formed'
<1>1. PICK r : r = Resolve(dialect, Field, Column(Node.key), Hooked, Len(args))
  OBVIOUS
<1>2. /\ Inner.rest # <<>> /\ result = "running" /\ Node.key \in DOMAIN Registry /\ Allows(Field, Node.op)
      /\ Field.search = <<>>
      /\ \/ ~r.ok /\ Fail("ErrBadValue", r.args)
         \/ /\ r.ok
            /\ args' = args \o r.args
            /\ stack' = Append(Below, Plus(Onward, r.text))
            /\ UNCHANGED <<dialect, filter, exclude, sql, result>>
  BY <1>1 DEF RenderLeaf, Admitted, AtLeaf, Visiting, Known
<1>3. /\ CallOK(Inner) /\ Framed(Inner, Len(args)) /\ Below = SubSeq(stack, 1, Len(stack) - 1)
      /\ IsSeq(args) /\ Len(args) \in Nat /\ dialect \in Dialect
  BY <1>2, InnerFormed
<1>4. CallOK(Onward) /\ Node \in Condition /\ IsSeq(Node.values) /\ Node.pairs \in Seq(KeyValue)
  BY <1>2, <1>3, OnwardOK
<1>5. IsSeq(Hooked.values) /\ Hooked.pairs \in Seq(KeyValue) /\ Allows(Field, Hooked.op)
  BY <1>2, <1>4, HookedOK
<1>6. CASE ~r.ok /\ Fail("ErrBadValue", r.args)
  <2>1. IsSeq(r.args)
    BY <1>1, <1>5, <1>6, FailureBinds
  <2> QED BY <1>6, <2>1, FailFormed
<1>7. CASE /\ r.ok
           /\ args' = args \o r.args
           /\ stack' = Append(Below, Plus(Onward, r.text))
           /\ UNCHANGED <<dialect, filter, exclude, sql, result>>
  <2>1. IsSeq(r.args)
    BY <1>1, <1>3, <1>5, <1>7, ResolveRenders DEF Renders
  <2>2. IsSeq(args') /\ Len(args') \in Nat /\ Len(args) <= Len(args')
    BY <1>3, <1>7, <2>1, IsSeqConcat, IsSeqLen
  <2>3. Column(Node.key) \in ColumnNames
    BY <1>2, ColumnsNamed DEF Field
  <2>4. r.text \in Seq(Token(dialect))
    BY <1>1, <1>3, <1>5, <2>3, ResolveType DEF Tokens
  <2>5. Framed(Onward, Len(args))
    BY <1>2, <1>3, OnwardFramed
  <2>6. Framed(Plus(Onward, r.text), Len(args'))
    BY <1>3, <1>4, <2>2, <2>4, <2>5, PlusFramed, FramedLater
  <2> QED BY <1>3, <1>7, <2>2, <2>6, ReplaceFormed
<1> QED BY <1>2, <1>6, <1>7

LEMMA SearchColumnFormed == ASSUME NEW base, Rendering(base), Formed, SearchColumn PROVE Formed'
<1>1. PICK c : c = Inner.node
  OBVIOUS
<1>2. PICK r : r = Resolve(dialect, Registry[c.key], Head(Inner.cols), c, Len(args))
  OBVIOUS
<1>3. PICK call : call = [Inner EXCEPT !.cols = Tail(@)]
  OBVIOUS
<1>4. /\ Inner.cols # <<>> /\ result = "running"
      /\ \/ ~r.ok /\ Fail("ErrBadValue", r.args)
         \/ /\ r.ok
            /\ args' = args \o r.args
            /\ stack' = Append(Below, Plus(call, r.text))
            /\ UNCHANGED <<dialect, filter, exclude, sql, result>>
  BY <1>1, <1>2, <1>3 DEF SearchColumn
<1>5. /\ CallOK(Inner) /\ Framed(Inner, Len(args)) /\ Below = SubSeq(stack, 1, Len(stack) - 1)
      /\ IsSeq(args) /\ Len(args) \in Nat /\ dialect \in Dialect
  BY <1>4, InnerFormed
<1>6. IsSeq(c.values) /\ c.pairs \in Seq(KeyValue) /\ Allows(Registry[c.key], c.op)
  BY <1>1, <1>4, <1>5 DEF CallOK
<1>7. CASE ~r.ok /\ Fail("ErrBadValue", r.args)
  <2>1. IsSeq(r.args)
    BY <1>2, <1>6, <1>7, FailureBinds
  <2> QED BY <1>7, <2>1, FailFormed
<1>8. CASE /\ r.ok
           /\ args' = args \o r.args
           /\ stack' = Append(Below, Plus(call, r.text))
           /\ UNCHANGED <<dialect, filter, exclude, sql, result>>
  <2>1. IsSeq(r.args)
    BY <1>2, <1>5, <1>6, <1>8, ResolveRenders DEF Renders
  <2>2. IsSeq(args') /\ Len(args') \in Nat /\ Len(args) <= Len(args')
    BY <1>5, <1>8, <2>1, IsSeqConcat, IsSeqLen
  <2>3. IsSeq(Inner.cols) /\ ToSet(Inner.cols) \subseteq ColumnNames
    BY <1>5 DEF CallOK, Framed
  <2>4. Head(Inner.cols) \in ColumnNames /\ ToSet(Tail(Inner.cols)) \subseteq ColumnNames
        /\ IsSeq(Tail(Inner.cols))
    BY <1>4, <2>3, HeadAndRest, IsSeqTail
  <2>5. r.text \in Seq(Token(dialect))
    BY <1>2, <1>5, <1>6, <2>4, ResolveType DEF Tokens
  <2>6. call = [form |-> Inner.form, node |-> Inner.node, rest |-> Inner.rest, cols |-> Tail(Inner.cols),
                text |-> Inner.text, live |-> Inner.live, from |-> Inner.from]
    BY <1>3, <1>5, Advance
  <2>7. CallOK(call)
    BY <1>4, <1>5, <2>4, <2>6 DEF CallOK
  <2>8. Children(call) = Children(Inner)
    BY <2>6 DEF Children
  <2>9. Framed(call, Len(args))
    BY <1>5, <2>4, <2>6, <2>8 DEF Framed
  <2>10. Framed(Plus(call, r.text), Len(args'))
    BY <1>5, <2>2, <2>5, <2>7, <2>9, PlusFramed, FramedLater
  <2> QED BY <1>5, <1>8, <2>2, <2>10, ReplaceFormed
<1> QED BY <1>4, <1>7, <1>8

LEMMA CloseFormed == ASSUME NEW base, Rendering(base), Formed, Close PROVE Formed'
<1>1. PICK outer : outer = stack[Len(stack) - 1]
  OBVIOUS
<1>2. PICK x : x = Plus(outer, Returned(Inner))
  OBVIOUS
<1>3. /\ result = "running" /\ Len(stack) > 1
      /\ stack' = Append(SubSeq(stack, 1, Len(stack) - 2), x)
      /\ UNCHANGED <<dialect, filter, exclude, args, sql, result>>
  BY <1>1, <1>2 DEF Close, Finished
<1>4. IsSeq(stack) /\ Framed(Inner, Len(args)) /\ IsSeq(args)
  BY <1>3, InnerFormed
<1>5. PICK m : m = Len(args)
  OBVIOUS
<1>6. PICK calls : calls = stack
  OBVIOUS
<1>7. PICK n : n = Len(calls)
  OBVIOUS
<1>8. PICK more : more = Append(SubSeq(calls, 1, n - 2), x)
  OBVIOUS
<1>9. n \in Nat /\ n > 1 /\ DOMAIN calls = 1 .. n
  BY <1>3, <1>4, <1>6, <1>7, IsSeqLen
<1>10. n - 1 \in 1 .. n
  BY <1>9
<1>11. \A i \in 1 .. n : CallOK(stack[i])
  BY <1>3, <1>6, <1>7 DEF Rendering, StackOK
<1>12. CallOK(outer) /\ Framed(outer, m)
  BY <1>1, <1>5, <1>6, <1>7, <1>9, <1>10, <1>11 DEF Formed
<1>13. Returned(Inner) \in Seq(Token(dialect))
  BY <1>4, ReturnedType DEF Framed
<1>14. Framed(x, m)
  BY <1>2, <1>12, <1>13, PlusFramed
<1>15. IsSeq(calls) /\ Len(calls) > 1 /\ \A i \in DOMAIN calls : Framed(calls[i], m)
  BY <1>3, <1>4, <1>5, <1>6 DEF Formed
<1>16. IsSeq(more) /\ more # <<>> /\ \A i \in DOMAIN more : Framed(more[i], m)
  BY <1>7, <1>8, <1>14, <1>15, CloseFramed
<1>17. stack' = more /\ m = Len(args') /\ IsSeq(args')
  BY <1>3, <1>4, <1>5, <1>6, <1>7, <1>8
<1> QED BY <1>3, <1>16, <1>17, StillFormed

LEMMA ReturnFormed == ASSUME NEW base, Rendering(base), Formed, Return PROVE Formed'
<1>1. result = "running" /\ sql' = Inner.text /\ result' = "ok"
      /\ UNCHANGED <<dialect, filter, exclude, stack, args>>
  BY DEF Return, Finished
<1>2. Inner.text \in Seq(Token(dialect))
  BY <1>1, InnerFormed DEF Framed
<1> QED BY <1>1, <1>2 DEF Formed, Framed, Children

LEMMA NextFormed == ASSUME NEW base, Rendering(base), Formed, [Next]_vars PROVE Formed'
<1>1. IsSeq(<<>>)
  BY EmptySeq, IsSeqIntro
<1>2. CASE Malformed \/ UnknownField \/ BadOperator \/ HooksFail
  BY <1>1, <1>2, FailFormed DEF Malformed, UnknownField, BadOperator, HooksFail
<1>3. CASE UNCHANGED vars
  BY <1>3 DEF vars, Formed, Framed, Children
<1>4. CASE Skip \/ Descend \/ RenderLeaf \/ OpenSearch \/ SearchColumn \/ Close \/ Return
  BY <1>4, SkipFormed, DescendFormed, RenderLeafFormed, OpenSearchFormed, SearchColumnFormed, CloseFormed, ReturnFormed
<1> QED BY <1>2, <1>3, <1>4 DEF Next

LEMMA NextTyped == ASSUME Typed, Rendering(0), [Next]_vars PROVE Typed'
<1>1. Formed'
  BY NextFormed DEF Typed
<1>2. UNCHANGED <<dialect, filter, exclude>>
  BY DEF Next, vars, Skip, Malformed, Descend, UnknownField, BadOperator, HooksFail, RenderLeaf, OpenSearch,
         SearchColumn, Close, Return, Fail
<1> QED BY <1>1, <1>2 DEF Typed

\* Every call goes on with the end of its own conditions, and its text, like the
\* one returned, is written with what its dialect knows over columns of the
\* registry: no operator of another database gets into a statement
\* (dialect.go:22-60, compile.go:63-135).
THEOREM CompilerIsTyped == Spec => []TypeOK
<1>1. Init => Typed /\ Rendering(0)
  BY InitTyped, InitRendering
<1>2. Typed /\ Rendering(0) /\ [Next]_vars => (Typed /\ Rendering(0))'
  BY NextTyped, NextRendering
<1>3. Typed => TypeOK
  BY DEF Typed, Formed, TypeOK, Framed
<1> QED BY <1>1, <1>2, <1>3, PTL DEF Spec
=============================================================================
