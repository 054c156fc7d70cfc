---------------------------- MODULE StructProofs ----------------------------
(***************************************************************************)
(* Theorems about StructTags: what the tags say of a type is what comes of *)
(* the two walks over it.                                                  *)
(***************************************************************************)
EXTENDS StructMeaning, SequenceLemmas

(***************************************************************************)
(* Paths.  types are those along the path p from root, which ends in t.    *)
(***************************************************************************)
Along(types, root, p, t) ==
  /\ types = [j \in 1 .. Len(p) + 1 |-> IF j = 1 THEN root ELSE Struct[types[j - 1]][p[j - 1]].type]
  /\ types[Len(p) + 1] = t

Leads(root, p, t) == IsSeq(p) /\ \E types : Along(types, root, p, t)

LEMMA LeadsNowhere == ASSUME NEW root PROVE Leads(root, <<>>, root)
<1>1. PICK p : p = <<>>
  OBVIOUS
<1>2. IsSeq(p) /\ Len(p) = 0
  BY <1>1, EmptySeq, IsSeqIntro
<1> DEFINE types == [j \in 1 .. 1 |-> root]
<1>3. types = [j \in 1 .. Len(p) + 1 |-> IF j = 1 THEN root ELSE Struct[types[j - 1]][p[j - 1]].type]
  BY <1>2
<1>4. types[Len(p) + 1] = root
  BY <1>2
<1> HIDE DEF types
<1> QED BY <1>1, <1>2, <1>3, <1>4 DEF Leads, Along

\* A path goes on to the type of a field.
LEMMA LeadsOn ==
  ASSUME NEW root, NEW p, NEW t, Leads(root, p, t), NEW i
  PROVE  Leads(root, Append(p, i), Struct[t][i].type)
<1>1. PICK types : Along(types, root, p, t)
  BY DEF Leads
<1>2. PICK n : n = Len(p)
  OBVIOUS
<1>3. n \in Nat /\ IsSeq(p)
  BY <1>2, IsSeqLen DEF Leads
<1>4. PICK q : q = Append(p, i)
  OBVIOUS
<1>5. IsSeq(q) /\ Len(q) = n + 1 /\ (\A j \in 1 .. n : q[j] = p[j]) /\ q[n + 1] = i
  BY <1>2, <1>3, <1>4, IsSeqAppend
<1> DEFINE more == [j \in 1 .. n + 2 |-> IF j = n + 2 THEN Struct[t][i].type ELSE types[j]]
<1>6. \A j \in 1 .. n + 1 : types[j] = IF j = 1 THEN root ELSE Struct[types[j - 1]][p[j - 1]].type
  BY <1>1, <1>2, <1>3 DEF Along
<1>7. types[n + 1] = t
  BY <1>1, <1>2 DEF Along
<1>8. ASSUME NEW j \in 1 .. n + 2
      PROVE  more[j] = IF j = 1 THEN root ELSE Struct[more[j - 1]][q[j - 1]].type
  <2>1. CASE j = n + 2
    <3>1. j # 1 /\ j - 1 = n + 1 /\ j - 1 \in 1 .. n + 2 /\ j - 1 # n + 2
      BY <1>3, <2>1
    <3>2. more[j - 1] = t /\ q[j - 1] = i /\ more[j] = Struct[t][i].type
      BY <1>5, <1>7, <2>1, <3>1
    <3> QED BY <3>1, <3>2
  <2>2. CASE j # n + 2
    <3>1. j \in 1 .. n + 1 /\ more[j] = types[j]
      BY <1>3, <2>2
    <3>2. CASE j = 1
      BY <1>6, <3>1, <3>2
    <3>3. CASE j # 1
      <4>1. j - 1 \in 1 .. n /\ j - 1 \in 1 .. n + 2 /\ j - 1 # n + 2
        BY <1>3, <3>1, <3>3
      <4>2. more[j - 1] = types[j - 1] /\ q[j - 1] = p[j - 1]
        BY <1>5, <4>1
      <4> HIDE DEF more
      <4> QED BY <1>6, <3>1, <3>3, <4>2
    <3> QED BY <3>2, <3>3
  <2> QED BY <2>1, <2>2
<1>9. more = [j \in 1 .. Len(q) + 1 |-> IF j = 1 THEN root ELSE Struct[more[j - 1]][q[j - 1]].type]
  <2>1. Len(q) + 1 = n + 2
    BY <1>3, <1>5
  <2>2. more = [j \in 1 .. n + 2 |-> more[j]]
    OBVIOUS
  <2> HIDE DEF more
  <2> QED BY <1>8, <2>1, <2>2
<1>10. more[Len(q) + 1] = Struct[t][i].type
  BY <1>3, <1>5
<1> HIDE DEF more
<1> QED BY <1>4, <1>5, <1>9, <1>10 DEF Leads, Along

\* The field at the end of a path.
LEMMA AtThePath ==
  ASSUME NEW root, NEW p, NEW t, Leads(root, p, t), NEW i
  PROVE  IsSeq(Append(p, i)) /\ Len(Append(p, i)) # 0 /\ At(root, Append(p, i)) = Struct[t][i]
<1>1. PICK w : Along(w, root, p, t)
  BY DEF Leads
<1>2. PICK n : n = Len(p)
  OBVIOUS
<1>3. n \in Nat /\ IsSeq(p)
  BY <1>2, IsSeqLen DEF Leads
<1>4. PICK q : q = Append(p, i)
  OBVIOUS
<1>5. IsSeq(q) /\ Len(q) = n + 1 /\ (\A j \in 1 .. n : q[j] = p[j]) /\ q[n + 1] = i
  BY <1>2, <1>3, <1>4, IsSeqAppend
<1> DEFINE G(f) == [j \in 1 .. n + 1 |-> IF j = 1 THEN root ELSE Struct[f[j - 1]][q[j - 1]].type]
           types[j \in 1 .. Len(q)] == IF j = 1 THEN root ELSE Struct[types[j - 1]][q[j - 1]].type
<1>6. At(root, q) = Struct[types[Len(q)]][q[Len(q)]]
  BY DEF At
<1>7. types = CHOOSE f : f = G(f)
  BY <1>5
<1>8. w = G(w)
  <2>1. \A j \in 1 .. n + 1 : j # 1 => p[j - 1] = q[j - 1]
    BY <1>3, <1>5
  <2>2. w = [j \in 1 .. n + 1 |-> IF j = 1 THEN root ELSE Struct[w[j - 1]][p[j - 1]].type]
    BY <1>1, <1>2 DEF Along
  <2> QED BY <2>1, <2>2
<1>9. types = G(types)
  BY <1>7, <1>8
<1> HIDE DEF types
<1>10. \A j \in 1 .. n + 1 : types[j] = w[j]
  <2> DEFINE Bad == {j \in 1 .. n + 1 : types[j] # w[j]}
  <2> SUFFICES ASSUME Bad # {} PROVE FALSE
    OBVIOUS
  <2>1. Bad \subseteq Nat
    BY <1>3
  <2>2. PICK j \in Bad : \A k \in Bad : j <= k
    BY <2>1, Least
  <2>3. \A k \in 1 .. n + 1 : /\ types[k] = IF k = 1 THEN root ELSE Struct[types[k - 1]][q[k - 1]].type
                              /\ w[k] = IF k = 1 THEN root ELSE Struct[w[k - 1]][q[k - 1]].type
    BY <1>8, <1>9
  <2>4. j \in 1 .. n + 1 /\ j # 1
    BY <2>2, <2>3
  <2>5. j - 1 \in 1 .. n + 1 /\ ~(j <= j - 1)
    BY <1>3, <2>4
  <2>6. types[j - 1] = w[j - 1]
    BY <2>2, <2>5
  <2> QED BY <2>2, <2>3, <2>4, <2>6
<1>11. types[n + 1] = t
  BY <1>1, <1>2, <1>3, <1>10 DEF Along
<1>12. Len(q) # 0
  BY <1>3, <1>5
<1> QED BY <1>4, <1>5, <1>6, <1>11, <1>12

(***************************************************************************)
(* The calls of a walk.                                                    *)
(***************************************************************************)
Frame(c) == c = [type |-> c.type, next |-> c.next, at |-> c.at]

Frames(calls) == IsSeq(calls) /\ calls # <<>> /\ \A i \in 1 .. Len(calls) : Frame(calls[i])

LEMMA FramesLen == ASSUME NEW calls, Frames(calls) PROVE Len(calls) \in Nat \ {0} /\ DOMAIN calls = 1 .. Len(calls)
BY IsSeqLen DEF Frames

LEMMA CallIsFrame ==
  ASSUME NEW t, NEW at
  PROVE  /\ Frames(<<Call(t, at)>>) /\ Len(<<Call(t, at)>>) = 1 /\ <<Call(t, at)>>[1] = Call(t, at)
         /\ Frame(Call(t, at)) /\ Call(t, at).type = t /\ Call(t, at).next = 1 /\ Call(t, at).at = at
<1>1. Frame(Call(t, at)) /\ Call(t, at).type = t /\ Call(t, at).next = 1 /\ Call(t, at).at = at
  BY DEF Frame, Call
<1>2. PICK c : c = Call(t, at)
  OBVIOUS
<1>3. IsSeq(<<c>>) /\ Len(<<c>>) = 1 /\ <<c>>[1] = c
  BY IsSeqOne
<1>4. <<c>> # <<>>
  OBVIOUS
<1> QED BY <1>1, <1>2, <1>3, <1>4 DEF Frames

\* The innermost call of calls goes on to its next field.
Advanced(calls, more) ==
  LET n == Len(calls) IN
  /\ Frames(more) /\ Len(more) = n
  /\ \A i \in 1 .. n : i # n => more[i] = calls[i]
  /\ more[n] = [type |-> calls[n].type, next |-> calls[n].next + 1, at |-> calls[n].at]

LEMMA OnwardAdvances == ASSUME Frames(stack) PROVE Advanced(stack, Onward)
<1>1. PICK n : n = Len(stack)
  OBVIOUS
<1>2. n \in Nat \ {0} /\ DOMAIN stack = 1 .. n /\ IsSeq(stack) /\ \A i \in 1 .. n : Frame(stack[i])
  BY <1>1, FramesLen DEF Frames
<1>3. PICK c : c = [type |-> stack[n].type, next |-> stack[n].next + 1, at |-> stack[n].at]
  OBVIOUS
<1>4. [stack[n] EXCEPT !.next = stack[n].next + 1] = c
  BY <1>2, <1>3 DEF Frame
<1>5. Onward = [i \in 1 .. n |-> IF i = n THEN c ELSE stack[i]]
  BY <1>1, <1>2, <1>4 DEF Onward
<1>6. PICK more : more = Onward
  OBVIOUS
<1>7. more = [i \in 1 .. n |-> more[i]] /\ more[n] = c /\ \A i \in 1 .. n : i # n => more[i] = stack[i]
  BY <1>2, <1>5, <1>6
<1>8. IsSeq(more) /\ Len(more) = n
  BY <1>2, <1>7, IsSeqFunction
<1>9. more # <<>>
  BY <1>2, <1>8, IsSeqLen
<1>10. Frame(c)
  BY <1>3 DEF Frame
<1>11. Frames(more)
  BY <1>2, <1>7, <1>8, <1>9, <1>10 DEF Frames
<1> QED BY <1>1, <1>3, <1>6, <1>7, <1>8, <1>11 DEF Advanced

\* A call of the walk for an embedded type.
Entered(calls, more) ==
  LET n == Len(calls) IN
  /\ Frames(more) /\ Len(more) = n + 1
  /\ \A i \in 1 .. n : i # n => more[i] = calls[i]
  /\ more[n] = [type |-> calls[n].type, next |-> calls[n].next + 1, at |-> calls[n].at]
  /\ more[n + 1] = Call(Struct[calls[n].type][calls[n].next].type, Append(calls[n].at, calls[n].next))

LEMMA WithinEnters == ASSUME Frames(stack) PROVE Entered(stack, Within)
<1>1. PICK n : n = Len(stack)
  OBVIOUS
<1>2. PICK mid : mid = Onward
  OBVIOUS
<1>3. Advanced(stack, mid)
  BY <1>2, OnwardAdvances
<1>4. IsSeq(mid) /\ Len(mid) = n /\ n \in Nat \ {0}
  BY <1>1, <1>3, FramesLen DEF Advanced, Frames
<1>5. PICK c : c = Call(Field.type, Here)
  OBVIOUS
<1>6. c = Call(Struct[stack[n].type][stack[n].next].type, Append(stack[n].at, stack[n].next))
  BY <1>1, <1>5 DEF Field, Here, Current, Last
<1>7. PICK more : more = Append(mid, c)
  OBVIOUS
<1>8. IsSeq(more) /\ Len(more) = n + 1 /\ (\A i \in 1 .. n : more[i] = mid[i]) /\ more[n + 1] = c
  BY <1>4, <1>7, IsSeqAppend
<1>9. more # <<>>
  BY <1>4, <1>8, IsSeqLen
<1>10. Frame(c)
  BY <1>6, CallIsFrame
<1>11. \A i \in 1 .. n + 1 : Frame(more[i])
  <2>1. \A i \in 1 .. n : Frame(mid[i])
    BY <1>3, <1>4 DEF Advanced, Frames
  <2> QED BY <1>4, <1>8, <1>10, <2>1
<1>12. Frames(more)
  BY <1>8, <1>9, <1>11 DEF Frames
<1>13. Within = more
  BY <1>2, <1>5, <1>7 DEF Within
<1> QED BY <1>1, <1>3, <1>4, <1>6, <1>8, <1>12, <1>13 DEF Entered, Advanced

LEMMA FrontReturns ==
  ASSUME NEW calls, Frames(calls), Len(calls) > 1
  PROVE  /\ Frames(Front(calls)) /\ Len(Front(calls)) = Len(calls) - 1
         /\ \A i \in 1 .. Len(calls) - 1 : Front(calls)[i] = calls[i]
<1>1. PICK n : n = Len(calls)
  OBVIOUS
<1>2. n \in Nat /\ n - 1 \in Nat /\ n - 1 # 0 /\ n - 1 <= n /\ IsSeq(calls)
  BY <1>1, FramesLen DEF Frames
<1>3. PICK fewer : fewer = SubSeq(calls, 1, n - 1)
  OBVIOUS
<1>4. IsSeq(fewer) /\ Len(fewer) = n - 1 /\ \A i \in 1 .. n - 1 : fewer[i] = calls[i]
  BY <1>1, <1>2, <1>3, IsSeqPrefix
<1>5. fewer # <<>>
  BY <1>2, <1>4, IsSeqLen
<1>6. \A i \in 1 .. n - 1 : Frame(fewer[i])
  BY <1>1, <1>2, <1>4 DEF Frames
<1> QED BY <1>1, <1>3, <1>4, <1>5, <1>6 DEF Frames, Front

(***************************************************************************)
(* They are of types that are declared, each at one of its fields or at    *)
(* its end; and a call inside another is for the field that the outer one  *)
(* has just left.                                                          *)
(***************************************************************************)
Typed(calls) ==
  \A i \in 1 .. Len(calls) :
    calls[i].type \in DOMAIN Struct /\ calls[i].next \in 1 .. Len(Struct[calls[i].type]) + 1

\* The field that the call has just left embeds the type.
IsFor(call, t) ==
  LET f == Struct[call.type][call.next - 1] IN
  call.next # 1 /\ f.anonymous /\ f.go = "struct" /\ f.type = t

Nested(calls) == \A i \in 1 .. Len(calls) : i # Len(calls) => IsFor(calls[i], calls[i + 1].type)

WalkOf(root, calls) == Frames(calls) /\ Typed(calls) /\ Nested(calls) /\ calls[1].type = root

Walking ==
  /\ given.filters \in DOMAIN Struct /\ given.rows \in DOMAIN Struct
  /\ phase = "tags" => WalkOf(given.filters, stack)
  /\ phase = "columns" => WalkOf(given.rows, stack)

LEMMA StructSeqs ==
  ASSUME NEW t \in DOMAIN Struct
  PROVE  /\ Struct[t] \in Seq(AnyField) /\ Len(Struct[t]) \in Nat /\ DOMAIN Struct[t] = 1 .. Len(Struct[t])
         /\ \A k \in 1 .. Len(Struct[t]) :
              /\ Struct[t][k] \in AnyField
              /\ Struct[t][k].anonymous /\ Struct[t][k].go = "struct" =>
                   Struct[t][k].type \in DOMAIN Struct /\ Struct[t][k].type < t
<1>1. Struct[t] \in Seq(AnyField) /\ DOMAIN Struct = 1 .. Len(Struct) /\ Len(Struct) \in Nat
  BY StructAssumption, ElementOfSeq, LenProperties
<1>2. Len(Struct[t]) \in Nat /\ DOMAIN Struct[t] = 1 .. Len(Struct[t]) /\ \A k \in 1 .. Len(Struct[t]) : Struct[t][k] \in AnyField
  BY <1>1, LenProperties, ElementOfSeq
<1>3. \A k \in 1 .. Len(Struct[t]) :
        Struct[t][k].anonymous /\ Struct[t][k].go = "struct" => Struct[t][k].type \in 1 .. t - 1
  BY <1>2, DeclaredBefore
<1> QED BY <1>1, <1>2, <1>3

LEMMA OneCall == ASSUME NEW t \in DOMAIN Struct PROVE WalkOf(t, <<Call(t, <<>>)>>)
<1>1. PICK calls : calls = <<Call(t, <<>>)>>
  OBVIOUS
<1>2. Frames(calls) /\ Len(calls) = 1 /\ calls[1].type = t /\ calls[1].next = 1
  BY <1>1, CallIsFrame
<1>3. Typed(calls)
  BY <1>2, StructSeqs DEF Typed
<1>4. Nested(calls)
  BY <1>2 DEF Nested
<1> QED BY <1>1, <1>2, <1>3, <1>4 DEF WalkOf

LEMMA OnwardWalks ==
  ASSUME NEW root, NEW calls, NEW more, WalkOf(root, calls), Advanced(calls, more),
         calls[Len(calls)].next <= Len(Struct[calls[Len(calls)].type])
  PROVE  WalkOf(root, more)
<1>1. PICK n : n = Len(calls)
  OBVIOUS
<1>2. n \in Nat \ {0} /\ Len(more) = n
  BY <1>1, FramesLen DEF WalkOf, Advanced
<1>3. more[n].type = calls[n].type /\ more[n].next = calls[n].next + 1 /\ \A i \in 1 .. n : i # n => more[i] = calls[i]
  BY <1>1 DEF Advanced
<1>4. \A i \in 1 .. n : more[i].type = calls[i].type
  BY <1>3
<1>5. Typed(more)
  <2>1. calls[n].type \in DOMAIN Struct /\ calls[n].next \in 1 .. Len(Struct[calls[n].type]) + 1
    BY <1>1, <1>2 DEF WalkOf, Typed
  <2>2. Len(Struct[calls[n].type]) \in Nat
    BY <2>1, StructSeqs
  <2>3. more[n].type \in DOMAIN Struct /\ more[n].next \in 1 .. Len(Struct[more[n].type]) + 1
    BY <1>1, <1>3, <2>1, <2>2
  <2>4. \A i \in 1 .. n : calls[i].type \in DOMAIN Struct /\ calls[i].next \in 1 .. Len(Struct[calls[i].type]) + 1
    BY <1>1 DEF WalkOf, Typed
  <2> QED BY <1>2, <1>3, <2>3, <2>4 DEF Typed
<1>6. Nested(more)
  <2> SUFFICES ASSUME NEW i \in 1 .. n, i # n PROVE IsFor(more[i], more[i + 1].type)
    BY <1>2 DEF Nested
  <2>1. IsFor(calls[i], calls[i + 1].type)
    BY <1>1 DEF WalkOf, Nested
  <2>2. i + 1 \in 1 .. n
    BY <1>2
  <2> QED BY <1>3, <1>4, <2>1, <2>2
<1> QED BY <1>2, <1>4, <1>5, <1>6 DEF WalkOf, Advanced

LEMMA WithinWalks ==
  ASSUME NEW root, NEW calls, NEW more, WalkOf(root, calls), Entered(calls, more),
         NEW n, n = Len(calls), NEW t, t = calls[n].type, NEW k, k = calls[n].next, k <= Len(Struct[t]),
         Struct[t][k].anonymous, Struct[t][k].go = "struct"
  PROVE  WalkOf(root, more)
<1>1. n \in Nat \ {0} /\ Len(more) = n + 1
  BY FramesLen DEF WalkOf, Entered
<1>2. t \in DOMAIN Struct /\ k \in 1 .. Len(Struct[t])
  <2>1. t \in DOMAIN Struct /\ k \in 1 .. Len(Struct[t]) + 1
    BY <1>1 DEF WalkOf, Typed
  <2> QED BY <2>1, StructSeqs
<1>3. PICK u : u = Struct[t][k].type
  OBVIOUS
<1>4. u \in DOMAIN Struct
  BY <1>2, <1>3, StructSeqs
<1>5. more[n].type = t /\ more[n].next = k + 1 /\ \A i \in 1 .. n : i # n => more[i] = calls[i]
  BY DEF Entered
<1>6. more[n + 1].type = u /\ more[n + 1].next = 1
  <2>1. PICK q : q = Append(calls[n].at, k)
    OBVIOUS
  <2>2. more[n + 1] = Call(u, q)
    BY <1>3, <2>1 DEF Entered
  <2>3. Call(u, q).type = u /\ Call(u, q).next = 1
    BY DEF Call
  <2> QED BY <2>2, <2>3
<1>7. \A i \in 1 .. n : more[i].type = calls[i].type
  BY <1>5
<1>8. Typed(more)
  <2>1. more[n].type \in DOMAIN Struct /\ more[n].next \in 1 .. Len(Struct[more[n].type]) + 1
    BY <1>2, <1>5, StructSeqs
  <2>2. more[n + 1].type \in DOMAIN Struct /\ more[n + 1].next \in 1 .. Len(Struct[more[n + 1].type]) + 1
    BY <1>4, <1>6, StructSeqs
  <2>3. \A i \in 1 .. n : calls[i].type \in DOMAIN Struct /\ calls[i].next \in 1 .. Len(Struct[calls[i].type]) + 1
    BY DEF WalkOf, Typed
  <2>4. \A i \in 1 .. n + 1 : i = n + 1 \/ i = n \/ (i \in 1 .. n /\ i # n)
    BY <1>1
  <2> QED BY <1>1, <1>5, <2>1, <2>2, <2>3, <2>4 DEF Typed
<1>9. Nested(more)
  <2> SUFFICES ASSUME NEW i \in 1 .. n PROVE IsFor(more[i], more[i + 1].type)
    BY <1>1 DEF Nested
  <2>1. CASE i = n
    <3>1. (k + 1) - 1 = k /\ k + 1 # 1
      BY <1>2, StructSeqs
    <3> QED BY <1>3, <1>5, <1>6, <2>1, <3>1 DEF IsFor
  <2>2. CASE i # n
    <3>1. IsFor(calls[i], calls[i + 1].type) /\ i + 1 \in 1 .. n
      BY <1>1, <2>2 DEF WalkOf, Nested
    <3> QED BY <1>5, <1>7, <2>2, <3>1
  <2> QED BY <2>1, <2>2
<1> QED BY <1>1, <1>7, <1>8, <1>9 DEF WalkOf, Entered

LEMMA FrontWalks ==
  ASSUME NEW root, NEW calls, WalkOf(root, calls), Len(calls) > 1
  PROVE  WalkOf(root, Front(calls))
<1>1. PICK n : n = Len(calls)
  OBVIOUS
<1>2. n \in Nat /\ n > 1
  BY <1>1, FramesLen DEF WalkOf
<1>3. PICK fewer : fewer = Front(calls)
  OBVIOUS
<1>4. Frames(fewer) /\ Len(fewer) = n - 1 /\ \A i \in 1 .. n - 1 : fewer[i] = calls[i]
  BY <1>1, <1>3, FrontReturns DEF WalkOf
<1>5. Typed(fewer)
  BY <1>1, <1>2, <1>4 DEF WalkOf, Typed
<1>6. Nested(fewer)
  <2> SUFFICES ASSUME NEW i \in 1 .. n - 1, i # n - 1 PROVE IsFor(fewer[i], fewer[i + 1].type)
    BY <1>4 DEF Nested
  <2>1. i \in 1 .. n /\ i # n /\ i + 1 \in 1 .. n - 1
    BY <1>2
  <2>2. IsFor(calls[i], calls[i + 1].type)
    BY <1>1, <2>1 DEF WalkOf, Nested
  <2> QED BY <1>4, <2>1, <2>2
<1> QED BY <1>1, <1>2, <1>3, <1>4, <1>5, <1>6 DEF WalkOf

LEMMA NextWalking == Walking /\ [Next]_vars => Walking'
<1> SUFFICES ASSUME Walking, [Next]_vars PROVE Walking'
  OBVIOUS
<1>1. ASSUME NEW p, NEW root, WalkOf(root, stack), AtField(p), EmbedsStruct, stack' = Within PROVE WalkOf(root, stack')
  <2>1. Entered(stack, Within)
    BY <1>1, WithinEnters DEF WalkOf
  <2> QED BY <1>1, <2>1, WithinWalks DEF AtField, EmbedsStruct, Field, Current, Last
<1>2. ASSUME NEW p, NEW root, WalkOf(root, stack), AtField(p), stack' = Onward PROVE WalkOf(root, stack')
  <2>1. Advanced(stack, Onward)
    BY <1>2, OnwardAdvances DEF WalkOf
  <2> QED BY <1>2, <2>1, OnwardWalks DEF AtField, Current, Last
<1>3. ASSUME NEW p, NEW root, WalkOf(root, stack), Leave(p) PROVE WalkOf(root, stack')
  BY <1>3, FrontWalks DEF Leave
<1>4. CASE Flatten \/ SkipField \/ Collect
  <2>1. phase = "tags" /\ phase' = phase /\ given' = given /\ AtField("tags")
    BY <1>4 DEF Flatten, SkipField, Collect, Tagged, Collecting, AtField
  <2>2. stack' = Onward \/ (stack' = Within /\ EmbedsStruct)
    BY <1>4 DEF Flatten, SkipField, Collect, IsFlattened
  <2> QED BY <1>1, <1>2, <2>1, <2>2 DEF Walking
<1>5. CASE BadTag \/ Duplicate \/ For \/ ScanRow
  BY <1>5 DEF BadTag, Duplicate, Tagged, Collecting, Fails, For, ScanRow, AtEnd, Walking
<1>6. CASE Collected
  BY <1>3, <1>6 DEF Collected, Leave, AtEnd, Walking
<1>7. CASE FromStruct
  BY <1>7, OneCall DEF FromStruct, Walking
<1>8. CASE Walk \/ NoColumn \/ AddColumn
  <2>1. phase = "columns" /\ phase' = phase /\ given' = given /\ AtField("columns")
    BY <1>8 DEF Walk, NoColumn, AddColumn, Indexing, AtField
  <2>2. stack' = Onward \/ (stack' = Within /\ EmbedsStruct)
    BY <1>8 DEF Walk, NoColumn, AddColumn
  <2> QED BY <1>1, <1>2, <2>1, <2>2 DEF Walking
<1>9. CASE Walked
  BY <1>3, <1>9 DEF Walked, Leave, AtEnd, Walking
<1>10. CASE UNCHANGED vars
  BY <1>10 DEF vars, Walking
<1> QED
  BY <1>4, <1>5, <1>6, <1>7, <1>8, <1>9, <1>10 DEF Next

LEMMA InitWalking == Init => Walking
BY OneCall, StructAssumption DEF Init, Walking

(***************************************************************************)
(* The columns: each has the path of a field that carries its name.        *)
(***************************************************************************)
Paths(root, calls) == \A i \in 1 .. Len(calls) : Leads(root, calls[i].at, calls[i].type)

Indexed ==
  /\ columns \in Seq(STRING)
  /\ ToSet(columns) = DOMAIN colIndex
  /\ \A c \in DOMAIN colIndex : At(given.rows, colIndex[c]).db = c

Fitting ==
  /\ phase = "columns" => Paths(given.rows, stack)
  /\ Indexed
  /\ RowFitsTags

LEMMA OnwardPaths ==
  ASSUME NEW root, NEW calls, NEW more, Frames(calls), Paths(root, calls), Advanced(calls, more)
  PROVE  Paths(root, more)
<1>1. Len(calls) \in Nat \ {0}
  BY FramesLen
<1> QED BY <1>1 DEF Paths, Advanced

LEMMA WithinPaths ==
  ASSUME NEW root, NEW calls, NEW more, Frames(calls), Paths(root, calls), Entered(calls, more)
  PROVE  Paths(root, more)
<1>1. PICK n : n = Len(calls)
  OBVIOUS
<1>2. n \in Nat \ {0}
  BY <1>1, FramesLen
<1>3. Leads(root, calls[n].at, calls[n].type)
  BY <1>1, <1>2 DEF Paths
<1>4. Leads(root, more[n + 1].at, more[n + 1].type)
  <2>1. PICK p : p = calls[n].at
    OBVIOUS
  <2>2. PICK t : t = calls[n].type
    OBVIOUS
  <2>3. PICK k : k = calls[n].next
    OBVIOUS
  <2>4. more[n + 1] = Call(Struct[t][k].type, Append(p, k))
    BY <1>1, <2>1, <2>2, <2>3 DEF Entered
  <2>5. Leads(root, Append(p, k), Struct[t][k].type)
    BY <1>3, <2>1, <2>2, LeadsOn
  <2>6. PICK u : u = Struct[t][k].type
    OBVIOUS
  <2>7. PICK q : q = Append(p, k)
    OBVIOUS
  <2>8. more[n + 1] = Call(u, q) /\ Leads(root, q, u)
    BY <2>4, <2>5, <2>6, <2>7
  <2>9. Call(u, q).at = q /\ Call(u, q).type = u
    BY CallIsFrame
  <2> QED BY <2>8, <2>9
<1>5. \A i \in 1 .. n : Leads(root, more[i].at, more[i].type)
  BY <1>1, <1>2, <1>3 DEF Entered, Paths
<1> QED BY <1>1, <1>2, <1>4, <1>5 DEF Paths, Entered

LEMMA AppendToSet ==
  ASSUME NEW T, NEW s \in Seq(T), NEW x \in T
  PROVE  Append(s, x) \in Seq(T) /\ ToSet(Append(s, x)) = ToSet(s) \cup {x}
<1>1. PICK n : n = Len(s)
  OBVIOUS
<1>2. n \in Nat /\ DOMAIN s = 1 .. n
  BY <1>1, LenProperties
<1>3. PICK more : more = Append(s, x)
  OBVIOUS
<1>4. more \in Seq(T) /\ Len(more) = n + 1 /\ (\A i \in 1 .. n : more[i] = s[i]) /\ more[n + 1] = x
  BY <1>1, <1>3, AppendProperties
<1>5. DOMAIN more = 1 .. n + 1
  BY <1>4, LenProperties
<1>6. ToSet(more) = ToSet(s) \cup {x}
  <2>1. \A i \in 1 .. n + 1 : i \in 1 .. n \/ i = n + 1
    BY <1>2
  <2>2. \A i \in 1 .. n : i \in 1 .. n + 1
    BY <1>2
  <2>3. n + 1 \in 1 .. n + 1
    BY <1>2
  <2> QED BY <1>2, <1>4, <1>5, <2>1, <2>2, <2>3 DEF ToSet
<1> QED BY <1>3, <1>4, <1>6

LEMMA SameIndex == ASSUME Indexed, UNCHANGED <<given, columns, colIndex>> PROVE Indexed'
BY DEF Indexed, ToSet

LEMMA AddColumnIndexes ==
  ASSUME Walking, Fitting, AddColumn
  PROVE  Indexed'
<1>1. PICK n : n = Len(stack)
  OBVIOUS
<1>2. phase = "columns" /\ Frames(stack) /\ n \in Nat \ {0} /\ given' = given
  BY <1>1, FramesLen DEF AddColumn, Indexing, AtField, Walking, WalkOf
<1>3. PICK t : t = stack[n].type
  OBVIOUS
<1>4. PICK k : k = stack[n].next
  OBVIOUS
<1>5. PICK c : c = Struct[t][k].db
  OBVIOUS
<1>6. PICK path : path = Append(stack[n].at, k)
  OBVIOUS
<1>7. Field.db = c /\ Here = path
  BY <1>1, <1>3, <1>4, <1>5, <1>6 DEF Field, Here, Current, Last
<1>8. At(given.rows, path).db = c
  <2>1. Leads(given.rows, stack[n].at, t)
    BY <1>1, <1>2, <1>3 DEF Fitting, Paths
  <2> QED BY <2>1, <1>5, <1>6, AtThePath
<1>9. columns' = Append(columns, c) /\ colIndex' = Put(colIndex, c, path)
  BY <1>7 DEF AddColumn
<1>10. DOMAIN colIndex' = DOMAIN colIndex \cup {c}
  BY <1>9 DEF Put
<1>11. \A d \in DOMAIN colIndex' : colIndex'[d] = IF d = c THEN path ELSE colIndex[d]
  BY <1>9 DEF Put
<1>12. \A d \in DOMAIN colIndex' : At(given.rows, colIndex'[d]).db = d
  BY <1>8, <1>10, <1>11 DEF Fitting, Indexed
<1>13. c \in STRING
  <2>1. k <= Len(Struct[t])
    BY <1>1, <1>3, <1>4 DEF AddColumn, Indexing, AtField, Current, Last
  <2>2. t \in DOMAIN Struct /\ k \in 1 .. Len(Struct[t]) + 1
    BY <1>1, <1>2, <1>3, <1>4 DEF Walking, WalkOf, Typed
  <2>3. Struct[t][k] \in AnyField
    BY <2>1, <2>2, StructSeqs
  <2> QED BY <1>5, <2>3, StructAssumption
<1>14. columns' \in Seq(STRING) /\ ToSet(columns') = ToSet(columns) \cup {c}
  BY <1>9, <1>13, AppendToSet DEF Fitting, Indexed
<1>15. ToSet(columns)' = ToSet(columns')
  BY DEF ToSet
<1> QED BY <1>2, <1>10, <1>12, <1>14, <1>15 DEF Fitting, Indexed

\* The last of some places of a sequence.
LEMMA LastPlace ==
  ASSUME NEW n \in Nat, NEW S, S \subseteq 1 .. n, S # {}
  PROVE  Max(S) \in S
<1> DEFINE x == [i \in 1 .. n |-> IF i \in S THEN i ELSE 0]
           All == {0} \cup {x[i] : i \in 1 .. n}
<1>1. \A i \in 1 .. n : x[i] \in Nat
  OBVIOUS
<1> HIDE DEF x
<1>2. PICK a \in All : \A b \in All : a >= b
  BY <1>1, Largest
<1>3. \A i \in 1 .. n : x[i] = IF i \in S THEN i ELSE 0
  BY DEF x
<1>4. \A i \in S : i \in All
  BY <1>3
<1>5. a # 0
  <2>1. PICK i \in S : i \in 1 .. n
    OBVIOUS
  <2>2. a >= i /\ i >= 1 /\ i \in Nat
    BY <1>2, <1>4, <2>1
  <2> QED BY <2>2
<1>6. a \in S
  BY <1>2, <1>3, <1>5
<1> QED BY <1>2, <1>4, <1>6 DEF Max

\* Every field scanned into carries the tag of the column it holds.
LEMMA ScanRowFits == ASSUME Fitting, ScanRow, Extra \subseteq Seq(STRING) PROVE RowFitsTags'
<1> SUFFICES ASSUME phase' = "scanned"
             PROVE  /\ \A p \in DOMAIN row' : At(given'.rows, p).db = row'[p]
                    /\ {row'[p] : p \in DOMAIN row'} = ToSet(columns')
  BY DEF RowFitsTags
<1>1. PICK more \in Extra :
        LET cols == columns \o more
            found == {i \in DOMAIN cols : cols[i] \in DOMAIN colIndex}
        IN row' = [p \in {colIndex[cols[i]] : i \in found} |->
                     cols[Max({i \in found : colIndex[cols[i]] = p})]]
  BY DEF ScanRow
<1>2. PICK cols : cols = columns \o more
  OBVIOUS
<1>3. PICK found : found = {i \in DOMAIN cols : cols[i] \in DOMAIN colIndex}
  OBVIOUS
<1>4. row' = [p \in {colIndex[cols[i]] : i \in found} |-> cols[Max({i \in found : colIndex[cols[i]] = p})]]
  BY <1>1, <1>2, <1>3
<1>5. columns \in Seq(STRING) /\ more \in Seq(STRING) /\ ToSet(columns) = DOMAIN colIndex
  BY <1>1 DEF Fitting, Indexed
<1>6. PICK n : n = Len(columns)
  OBVIOUS
<1>7. n \in Nat /\ DOMAIN columns = 1 .. n /\ Len(more) \in Nat
  BY <1>5, <1>6, LenProperties
<1>8. DOMAIN cols = 1 .. n + Len(more) /\ \A i \in 1 .. n : cols[i] = columns[i]
  BY <1>2, <1>5, <1>6, <1>7, ConcatProperties, LenProperties
<1>9. given' = given /\ columns' = columns /\ colIndex' = colIndex
  BY DEF ScanRow
<1>10. ASSUME NEW p \in DOMAIN row'
       PROVE  /\ row'[p] \in DOMAIN colIndex
              /\ p = colIndex[row'[p]]
  <2>1. PICK S : S = {i \in found : colIndex[cols[i]] = p}
    OBVIOUS
  <2>2. S \subseteq 1 .. n + Len(more) /\ S # {}
    BY <1>3, <1>4, <1>8, <2>1
  <2>3. PICK m : m = Max(S)
    OBVIOUS
  <2>4. m \in S
    <3>1. n + Len(more) \in Nat
      BY <1>7
    <3> QED BY <2>2, <2>3, <3>1, LastPlace
  <2>5. row'[p] = cols[m]
    BY <1>4, <2>1, <2>3
  <2> QED BY <1>3, <2>1, <2>4, <2>5
<1>11. ASSUME NEW c \in DOMAIN colIndex
       PROVE  colIndex[c] \in DOMAIN row' /\ row'[colIndex[c]] = c
  <2>1. PICK i \in 1 .. n : columns[i] = c
    BY <1>5, <1>7 DEF ToSet
  <2>2. i \in found /\ cols[i] = c
    BY <1>3, <1>7, <1>8, <2>1
  <2>3. colIndex[c] \in DOMAIN row'
    BY <1>4, <2>2
  <2>4. PICK d : d = row'[colIndex[c]]
    OBVIOUS
  <2>5. d \in DOMAIN colIndex /\ colIndex[d] = colIndex[c]
    BY <1>10, <2>3, <2>4
  <2>6. At(given.rows, colIndex[c]).db = c /\ At(given.rows, colIndex[d]).db = d
    BY <2>5 DEF Fitting, Indexed
  <2> QED BY <2>3, <2>4, <2>5, <2>6
<1>12. \A p \in DOMAIN row' : At(given.rows, p).db = row'[p]
  BY <1>10 DEF Fitting, Indexed
<1>13. {row'[p] : p \in DOMAIN row'} = ToSet(columns)
  BY <1>5, <1>10, <1>11
<1> QED BY <1>9, <1>12, <1>13

LEMMA NextFitting == Walking /\ Fitting /\ [Next]_vars => Fitting'
<1> SUFFICES ASSUME Walking, Fitting, [Next]_vars PROVE Fitting'
  OBVIOUS
<1>1. CASE Flatten \/ SkipField \/ BadTag \/ Duplicate \/ Collect \/ Collected
  <2>1. UNCHANGED <<given, columns, colIndex, row>>
    BY <1>1 DEF Flatten, SkipField, BadTag, Duplicate, Collect, Collected, Tagged, Collecting
  <2>2. phase = "tags" /\ phase' \in {"tags", "failed"}
    BY <1>1 DEF Flatten, SkipField, BadTag, Duplicate, Collect, Collected, Tagged, Collecting, Fails, AtField,
      Leave, AtEnd
  <2> QED BY <2>1, <2>2, SameIndex DEF Fitting, RowFitsTags
<1>2. CASE FromStruct
  <2>1. UNCHANGED <<given, columns, colIndex, row>> /\ phase' = "columns" /\ stack' = <<Call(given.rows, <<>>)>>
    BY <1>2 DEF FromStruct
  <2>2. Paths(given.rows, <<Call(given.rows, <<>>)>>)
    BY CallIsFrame, LeadsNowhere DEF Paths
  <2> QED BY <2>1, <2>2, SameIndex DEF Fitting, RowFitsTags
<1>3. CASE Walk \/ NoColumn \/ AddColumn
  <2>1. phase = "columns" /\ phase' = phase /\ given' = given /\ Frames(stack) /\ Paths(given.rows, stack)
    BY <1>3 DEF Walk, NoColumn, AddColumn, Indexing, AtField, Walking, WalkOf, Fitting
  <2>2. stack' = Onward \/ stack' = Within
    BY <1>3 DEF Walk, NoColumn, AddColumn
  <2>3. Paths(given.rows, stack')
    BY <2>1, <2>2, OnwardAdvances, WithinEnters, OnwardPaths, WithinPaths
  <2>4. Indexed'
    <3>1. CASE AddColumn
      BY <3>1, AddColumnIndexes
    <3>2. CASE Walk \/ NoColumn
      BY <2>1, <3>2, SameIndex DEF Walk, NoColumn, Fitting
    <3> QED BY <1>3, <3>1, <3>2
  <2> QED BY <2>1, <2>3, <2>4 DEF Fitting, RowFitsTags
<1>4. CASE Walked
  <2>1. UNCHANGED <<given, phase, columns, colIndex, row>> /\ phase = "columns" /\ Len(stack) > 1 /\ stack' = Front(stack)
    BY <1>4 DEF Walked, Leave, AtEnd
  <2>2. Frames(stack) /\ Paths(given.rows, stack)
    BY <2>1 DEF Walking, WalkOf, Fitting
  <2>3. Paths(given.rows, Front(stack))
    <3>1. Len(stack) \in Nat
      BY <2>2, FramesLen
    <3> QED BY <2>1, <2>2, <3>1, FrontReturns DEF Paths
  <2> QED BY <2>1, <2>3, SameIndex DEF Fitting, RowFitsTags
<1>5. CASE For
  BY <1>5, SameIndex DEF For, Fitting, RowFitsTags
<1>6. CASE ScanRow
  <2>1. UNCHANGED <<given, columns, colIndex>> /\ phase' # "columns"
    BY <1>6 DEF ScanRow
  <2> QED BY <1>6, <2>1, SameIndex, ScanRowFits, StructAssumption DEF Fitting
<1>7. CASE UNCHANGED vars
  BY <1>7, SameIndex DEF vars, Fitting, RowFitsTags
<1> QED
  BY <1>1, <1>2, <1>3, <1>4, <1>5, <1>6, <1>7 DEF Next

LEMMA InitFitting == Init => Fitting
<1> SUFFICES ASSUME Init PROVE Fitting
  OBVIOUS
<1>1. phase = "tags" /\ columns = <<>> /\ DOMAIN colIndex = {}
  BY DEF Init
<1>2. columns \in Seq(STRING) /\ ToSet(columns) = {}
  BY <1>1, EmptySeq DEF ToSet
<1> QED BY <1>1, <1>2 DEF Fitting, Indexed, RowFitsTags

\* A row is scanned into fields that carry the tag of their column, at any depth
\* of embedding, and every column of the type into one (typed.go:43-60, 91-119).
THEOREM RowFits == Spec => []RowFitsTags
<1>1. (Walking /\ Fitting) /\ [Next]_vars => (Walking /\ Fitting)'
  BY NextWalking, NextFitting
<1>2. Fitting => RowFitsTags
  BY DEF Fitting
<1> QED BY InitWalking, InitFitting, <1>1, <1>2, PTL DEF Spec
(***************************************************************************)
(* What a type holds, field by field.                                      *)
(***************************************************************************)
Part(t, i) ==
  LET f == Struct[t][i] IN
  IF Inlined(f) THEN Filters[f.type] ELSE IF Untagged(f) THEN <<>> ELSE <<f>>

Parts(t) == [i \in DOMAIN Struct[t] |-> Part(t, i)]

\* The parts of t where r has what the embedded types hold.
PartsWith(r, t) ==
  [i \in DOMAIN Struct[t] |->
    LET f == Struct[t][i] IN
    IF Inlined(f) THEN r[f.type] ELSE IF Untagged(f) THEN <<>> ELSE <<f>>]

EmbeddedIn(t) == {Struct[t][i].type : i \in {j \in DOMAIN Struct[t] : Inlined(Struct[t][j])}}

LEMMA OneOf == ASSUME NEW T, NEW x \in T PROVE <<x>> \in Seq(T) /\ <<>> \in Seq(T)
<1>1. IsSeq(<<x>>) /\ Len(<<x>>) = 1 /\ <<x>>[1] = x
  BY IsSeqOne
<1>2. <<>> \in Seq(T)
  BY EmptySeq
<1>3. Append(<<>>, x) \in Seq(T)
  BY <1>2, AppendProperties
<1>4. Append(<<>>, x) = <<x>>
  OBVIOUS
<1> QED BY <1>2, <1>3, <1>4

LEMMA PartsTyped ==
  ASSUME NEW t \in DOMAIN Struct, NEW r, \A u \in EmbeddedIn(t) : r[u] \in Seq(AnyField)
  PROVE  PartsWith(r, t) \in Seq(Seq(AnyField))
<1>1. PICK n : n = Len(Struct[t])
  OBVIOUS
<1>2. n \in Nat /\ DOMAIN Struct[t] = 1 .. n /\ \A i \in 1 .. n : Struct[t][i] \in AnyField
  BY <1>1, StructSeqs
<1>3. PICK s : s = PartsWith(r, t)
  OBVIOUS
<1>4. s = [i \in 1 .. n |-> s[i]]
  BY <1>2, <1>3 DEF PartsWith
<1>5. ASSUME NEW i \in 1 .. n PROVE s[i] \in Seq(AnyField)
  <2>1. PICK f : f = Struct[t][i]
    OBVIOUS
  <2>2. s[i] = IF Inlined(f) THEN r[f.type] ELSE IF Untagged(f) THEN <<>> ELSE <<f>>
    BY <1>2, <1>3, <2>1 DEF PartsWith
  <2>3. Inlined(f) => f.type \in EmbeddedIn(t)
    BY <1>2, <2>1 DEF EmbeddedIn
  <2>4. <<f>> \in Seq(AnyField) /\ <<>> \in Seq(AnyField)
    BY <1>2, <2>1, OneOf
  <2> QED BY <2>2, <2>3, <2>4
<1>6. s \in [1 .. n -> Seq(AnyField)]
  BY <1>4, <1>5
<1> QED BY <1>2, <1>3, <1>6, SeqDef

LEMMA StructsFall ==
  FallsIn(DOMAIN Struct, [t \in DOMAIN Struct |-> EmbeddedIn(t)], [t \in DOMAIN Struct |-> t])
<1>1. DOMAIN Struct \subseteq Nat
  BY StructAssumption, LenProperties
<1>2. ASSUME NEW t \in DOMAIN Struct, NEW u \in EmbeddedIn(t) PROVE u \in DOMAIN Struct /\ u < t
  BY StructSeqs DEF EmbeddedIn, Inlined
<1> QED BY <1>1, <1>2 DEF FallsIn

LEMMA FiltersAre ==
  ASSUME NEW t \in DOMAIN Struct
  PROVE  Filters[t] \in Seq(AnyField) /\ Parts(t) \in Seq(Seq(AnyField)) /\ Filters[t] = FlattenSeq(Parts(t))
<1> DEFINE D == DOMAIN Struct
           kids == [u \in D |-> EmbeddedIn(u)]
           height == [u \in D |-> u]
           step == [u \in D |-> [r \in [EmbeddedIn(u) -> Seq(AnyField)] |-> FlattenSeq(PartsWith(r, u))]]
<1>1. FallsIn(D, kids, height)
  BY StructsFall
<1>2. \A u \in D : kids[u] = EmbeddedIn(u)
  OBVIOUS
<1>3. \A u \in D : \A r \in [EmbeddedIn(u) -> Seq(AnyField)] :
        /\ step[u][r] = FlattenSeq(PartsWith(r, u))
        /\ PartsWith(r, u) \in Seq(Seq(AnyField)) /\ step[u][r] \in Seq(AnyField)
  BY PartsTyped, FlattenSeqType
<1> HIDE DEF kids, height, step
<1>4. PICK g : Computes(g, D, kids, step)
  BY <1>1, TreeRecursion
<1>5. \A u \in D : \A r \in [kids[u] -> Seq(AnyField)] : step[u][r] \in Seq(AnyField)
  BY <1>2, <1>3
<1>6. /\ g \in [D -> Seq(AnyField)]
      /\ \A u \in D : [k \in kids[u] |-> g[k]] \in [kids[u] -> Seq(AnyField)] /\ g[u] = step[u][[k \in kids[u] |-> g[k]]]
  <2>1. PICK V : V = Seq(AnyField)
    OBVIOUS
  <2>2. \A u \in D : \A r \in [kids[u] -> V] : step[u][r] \in V
    BY <1>5, <2>1
  <2> HIDE DEF D
  <2>3. g \in [D -> V]
    BY <1>1, <1>4, <2>2, RecursionType
  <2>4. \A u \in D : [k \in kids[u] |-> g[k]] \in [kids[u] -> V]
    BY <1>1, <2>3 DEF FallsIn
  <2>5. \A u \in D : g[u] = step[u][[k \in kids[u] |-> g[k]]]
    BY <1>4 DEF Computes
  <2> QED BY <2>1, <2>3, <2>4, <2>5
<1>7. ASSUME NEW u \in D PROVE g[u] = FlattenSeq(PartsWith(g, u))
  <2>1. PICK r : r = [k \in EmbeddedIn(u) |-> g[k]]
    OBVIOUS
  <2>2. g[u] = FlattenSeq(PartsWith(r, u))
    BY <1>2, <1>3, <1>6, <2>1
  <2>3. PartsWith(r, u) = PartsWith(g, u)
    BY <2>1 DEF PartsWith, EmbeddedIn
  <2> QED BY <2>2, <2>3
<1>8. g = [u \in D |-> FlattenSeq(PartsWith(g, u))]
  <2>1. g = [u \in D |-> g[u]]
    BY <1>6
  <2> QED BY <1>7, <2>1
<1>9. Filters = CHOOSE h : h = [u \in D |-> FlattenSeq(PartsWith(h, u))]
  BY DEF Filters, PartsWith
<1>10. Filters = [u \in D |-> FlattenSeq(PartsWith(Filters, u))]
  BY <1>8, <1>9
<1>11. \A u \in D : Filters[u] = FlattenSeq(PartsWith(Filters, u))
  BY <1>10
<1> DEFINE Bad == {u \in D : Filters[u] \notin Seq(AnyField)}
<1>12. Bad = {}
  <2> SUFFICES ASSUME Bad # {} PROVE FALSE
    OBVIOUS
  <2>1. D \subseteq Nat
    BY StructAssumption, LenProperties
  <2>2. PICK u \in Bad : \A v \in Bad : u <= v
    BY <2>1, Least
  <2>3. ASSUME NEW v \in EmbeddedIn(u) PROVE Filters[v] \in Seq(AnyField)
    <3>1. v \in D /\ v < u
      BY <2>2, StructsFall DEF FallsIn
    <3>2. ~(u <= v)
      BY <2>1, <2>2, <3>1
    <3> QED BY <2>2, <3>1, <3>2
  <2>4. PartsWith(Filters, u) \in Seq(Seq(AnyField))
    BY <2>2, <2>3, PartsTyped
  <2>5. Filters[u] \in Seq(AnyField)
    BY <1>11, <2>2, <2>4, FlattenSeqType
  <2> QED BY <2>2, <2>5
<1>13. \A u \in D : Filters[u] \in Seq(AnyField)
  BY <1>12
<1>14. \A v \in EmbeddedIn(t) : v \in D
  BY StructsFall DEF FallsIn
<1>15. PartsWith(Filters, t) \in Seq(Seq(AnyField))
  BY <1>13, <1>14, PartsTyped
<1>16. PartsWith(Filters, t) = Parts(t)
  BY DEF PartsWith, Parts, Part
<1> QED BY <1>11, <1>13, <1>15, <1>16
(***************************************************************************)
(* Where the parts of a FlattenSeq stand in it.                            *)
(***************************************************************************)
\* s stands in all, after the first n.
Occurs(s, all, n) ==
  /\ n \in Nat /\ Len(s) \in Nat /\ Len(all) \in Nat /\ n + Len(s) <= Len(all)
  /\ \A i \in 1 .. Len(s) : all[n + i] = s[i]

LEMMA OccursInMore ==
  ASSUME NEW T, NEW a \in Seq(T), NEW b \in Seq(T), NEW s, NEW n, Occurs(s, a, n)
  PROVE  Occurs(s, a \o b, n)
<1>1. PICK m : m = Len(s)
  OBVIOUS
<1>2. PICK k : k = Len(a)
  OBVIOUS
<1>3. PICK l : l = Len(b)
  OBVIOUS
<1>4. PICK u : u = a \o b
  OBVIOUS
<1>5. k \in Nat /\ l \in Nat /\ m \in Nat /\ n \in Nat /\ n + m <= k /\ \A i \in 1 .. m : a[n + i] = s[i]
  BY <1>1, <1>2, <1>3, LenProperties DEF Occurs
<1>6. Len(u) = k + l /\ \A i \in 1 .. k + l : u[i] = IF i <= k THEN a[i] ELSE b[i - k]
  BY <1>2, <1>3, <1>4, ConcatProperties
<1>7. \A i \in 1 .. m : n + i \in 1 .. k + l /\ n + i <= k
  BY <1>5
<1>8. \A i \in 1 .. m : u[n + i] = s[i]
  BY <1>5, <1>6, <1>7
<1>9. k + l \in Nat /\ n + m <= k + l
  BY <1>5
<1> QED BY <1>1, <1>4, <1>5, <1>6, <1>8, <1>9 DEF Occurs

LEMMA OccursAtEnd ==
  ASSUME NEW T, NEW a \in Seq(T), NEW b \in Seq(T)
  PROVE  Occurs(b, a \o b, Len(a))
<1>1. PICK k : k = Len(a)
  OBVIOUS
<1>2. PICK l : l = Len(b)
  OBVIOUS
<1>3. PICK u : u = a \o b
  OBVIOUS
<1>4. k \in Nat /\ l \in Nat
  BY <1>1, <1>2, LenProperties
<1>5. Len(u) = k + l /\ \A i \in 1 .. k + l : u[i] = IF i <= k THEN a[i] ELSE b[i - k]
  BY <1>1, <1>2, <1>3, ConcatProperties
<1>6. \A i \in 1 .. l : k + i \in 1 .. k + l /\ ~(k + i <= k) /\ (k + i) - k = i
  BY <1>4
<1>7. \A i \in 1 .. l : u[k + i] = b[i]
  BY <1>5, <1>6
<1>8. k + l \in Nat /\ k + l <= k + l
  BY <1>4
<1> QED BY <1>1, <1>2, <1>3, <1>4, <1>5, <1>7, <1>8 DEF Occurs

LEMMA OccursThere ==
  ASSUME NEW s, NEW t, NEW all, NEW m, NEW n, Occurs(s, t, m), Occurs(t, all, n)
  PROVE  Occurs(s, all, n + m)
<1>1. PICK k : k = Len(s)
  OBVIOUS
<1>2. PICK l : l = Len(t)
  OBVIOUS
<1>3. PICK j : j = Len(all)
  OBVIOUS
<1>4. /\ k \in Nat /\ l \in Nat /\ j \in Nat /\ m \in Nat /\ n \in Nat /\ m + k <= l /\ n + l <= j
      /\ \A i \in 1 .. k : t[m + i] = s[i]
      /\ \A i \in 1 .. l : all[n + i] = t[i]
  BY <1>1, <1>2, <1>3 DEF Occurs
<1>5. \A i \in 1 .. k : m + i \in 1 .. l /\ n + (m + i) = (n + m) + i
  BY <1>4
<1>6. \A i \in 1 .. k : all[(n + m) + i] = s[i]
  BY <1>4, <1>5
<1>7. n + m \in Nat /\ (n + m) + k <= j
  BY <1>4
<1> QED BY <1>1, <1>3, <1>4, <1>6, <1>7 DEF Occurs

\* Each of the n sequences s stands in their FlattenSeq after those before it: s[k]
\* after the first g[k - 1].
Cuts(g, s, n) ==
  /\ g[0] = 0
  /\ \A k \in 0 .. n : g[k] \in Nat
  /\ \A k \in 1 .. n : g[k] = g[k - 1] + Len(s[k]) /\ Occurs(s[k], FlattenSeq(s), g[k - 1])
  /\ Len(FlattenSeq(s)) = g[n]

LEMMA CutsExist ==
  ASSUME NEW T, NEW s \in Seq(Seq(T)), NEW n, n = Len(s)
  PROVE  \E g : Cuts(g, s, n)
<1>1. n \in Nat /\ \A i \in 1 .. n : s[i] \in Seq(T)
  BY ElementOfSeq, LenProperties
<1>2. CASE n = 0
  <2>1. s = <<>>
    BY <1>2, EmptySeq
  <2>2. FlattenSeq(s) = <<>>
    BY <1>2, <2>1 DEF FlattenSeq
  <2>3. Len(FlattenSeq(s)) = 0
    BY <2>2
  <2> DEFINE g == [k \in 0 .. 0 |-> 0]
  <2>4. g[0] = 0
    OBVIOUS
  <2> HIDE DEF g
  <2>5. Cuts(g, s, 0)
    BY <2>3, <2>4 DEF Cuts
  <2> QED BY <1>2, <2>5
<1>3. CASE n # 0
  <2>1. PICK f : Flattens(f, s, n) /\ FlattenSeq(s) = f[n]
    BY <1>1, <1>3, FlattenSteps
  <2>2. \A i \in 1 .. n : f[i] \in Seq(T)
    BY <2>1, FlattensType
  <2>3. \A i \in 1 .. n : f[i] = IF i = 1 THEN s[i] ELSE f[i - 1] \o s[i]
    BY <2>1 DEF Flattens
  <2> DEFINE g == [k \in 0 .. n |-> IF k = 0 THEN 0 ELSE Len(f[k])]
  <2>4. \A k \in 0 .. n : g[k] = IF k = 0 THEN 0 ELSE Len(f[k])
    OBVIOUS
  <2> HIDE DEF g
  <2>5. g[0] = 0 /\ \A k \in 1 .. n : g[k] = Len(f[k]) /\ k \in 0 .. n
    BY <1>1, <2>4
  <2>6. \A k \in 0 .. n : g[k] \in Nat
    <3>1. \A k \in 0 .. n : k = 0 \/ k \in 1 .. n
      BY <1>1
    <3> QED BY <2>2, <2>5, <3>1, LenProperties
  <2>7. ASSUME NEW k \in 1 .. n PROVE g[k] = g[k - 1] + Len(s[k])
    <3>1. CASE k = 1
      <4>1. k - 1 = 0 /\ Len(s[k]) \in Nat
        BY <1>1, <3>1, LenProperties
      <4> QED BY <2>3, <2>5, <3>1, <4>1
    <3>2. CASE k # 1
      <4>1. k - 1 \in 1 .. n
        BY <1>1, <3>2
      <4>2. f[k] = f[k - 1] \o s[k]
        BY <2>3, <3>2
      <4>3. f[k - 1] \in Seq(T) /\ s[k] \in Seq(T)
        BY <1>1, <2>2, <4>1
      <4>4. Len(f[k - 1] \o s[k]) = Len(f[k - 1]) + Len(s[k])
        BY <4>3, ConcatProperties
      <4> QED BY <2>5, <4>1, <4>2, <4>4
    <3> QED BY <3>1, <3>2
  <2> DEFINE Bad == {m \in 1 .. n : ~\A k \in 1 .. m : Occurs(s[k], f[m], g[k - 1])}
  <2>8. Bad = {}
    <3> SUFFICES ASSUME Bad # {} PROVE FALSE
      OBVIOUS
    <3>1. Bad \subseteq Nat
      BY <1>1
    <3>2. PICK m \in Bad : \A k \in Bad : m <= k
      BY <3>1, Least
    <3>3. PICK k \in 1 .. m : ~Occurs(s[k], f[m], g[k - 1])
      BY <3>2
    <3>4. CASE m = 1
      <4>1. k = 1 /\ k - 1 = 0 /\ f[1] = s[1] /\ g[0] = 0 /\ s[1] \in Seq(T)
        BY <1>1, <1>3, <2>3, <2>5, <3>3, <3>4
      <4>2. Len(s[1]) \in Nat
        BY <4>1, LenProperties
      <4>3. Occurs(s[1], s[1], 0)
        BY <4>2 DEF Occurs
      <4> QED BY <3>3, <3>4, <4>1, <4>3
    <3>5. CASE m # 1
      <4>1. m - 1 \in 1 .. n /\ ~(m <= m - 1) /\ m \in 1 .. n
        BY <1>1, <3>2, <3>5
      <4>2. \A l \in 1 .. m - 1 : Occurs(s[l], f[m - 1], g[l - 1])
        BY <3>2, <4>1
      <4>3. f[m] = f[m - 1] \o s[m] /\ f[m - 1] \in Seq(T) /\ s[m] \in Seq(T)
        BY <1>1, <2>2, <2>3, <3>5, <4>1
      <4>4. CASE k = m
        <5>1. g[k - 1] = Len(f[m - 1])
          BY <2>5, <4>1, <4>4
        <5> QED BY <3>3, <4>3, <4>4, <5>1, OccursAtEnd
      <4>5. CASE k # m
        <5>1. k \in 1 .. m - 1
          BY <1>1, <3>2, <3>3, <4>5
        <5> QED BY <3>3, <4>2, <4>3, <5>1, OccursInMore
      <4> QED BY <4>4, <4>5
    <3> QED BY <3>4, <3>5
  <2>9. n \in 1 .. n
    BY <1>1, <1>3
  <2>10. \A k \in 1 .. n : Occurs(s[k], f[n], g[k - 1])
    BY <2>8, <2>9
  <2> QED BY <2>1, <2>5, <2>6, <2>7, <2>9, <2>10 DEF Cuts
<1> QED BY <1>2, <1>3

\* The fields before the k-th of t, and those that come of it.
Cut(t) == CHOOSE g : Cuts(g, Parts(t), Len(Struct[t]))

LEMMA CutAt ==
  ASSUME NEW t \in DOMAIN Struct, NEW n, n = Len(Struct[t]), NEW g, g = Cut(t)
  PROVE  /\ n \in Nat /\ g[0] = 0 /\ Len(Filters[t]) = g[n]
         /\ \A k \in 0 .. n : g[k] \in Nat
         /\ \A k \in 1 .. n : g[k] = g[k - 1] + Len(Part(t, k)) /\ Occurs(Part(t, k), Filters[t], g[k - 1])
<1>1. PICK s : s = Parts(t)
  OBVIOUS
<1>2. s \in Seq(Seq(AnyField)) /\ Filters[t] = FlattenSeq(s)
  BY <1>1, FiltersAre
<1>3. n \in Nat /\ DOMAIN Struct[t] = 1 .. n
  BY StructSeqs
<1>4. s = [i \in 1 .. n |-> Part(t, i)]
  BY <1>1, <1>3 DEF Parts
<1>5. Len(s) = n
  BY <1>2, <1>3, <1>4, LenProperties
<1>6. \E h : Cuts(h, s, n)
  BY <1>2, <1>5, CutsExist
<1>7. Cuts(g, s, n)
  BY <1>1, <1>6 DEF Cut
<1>8. \A k \in 1 .. n : s[k] = Part(t, k)
  BY <1>4
<1> QED BY <1>2, <1>3, <1>7, <1>8 DEF Cuts
(***************************************************************************)
(* The options of a tag.                                                   *)
(***************************************************************************)
\* p is what was parsed, from none to n options of f.
Parses(p, f, n) ==
  p = [i \in 0 .. n |-> IF i = 0 THEN Untouched(f) ELSE Take(p[i - 1], f.filter.options[i])]

LEMMA ParsesExists == ASSUME NEW f, NEW n \in Nat PROVE \E p : Parses(p, f, n)
<1> DEFINE Bad == {m \in Nat : ~\E p : Parses(p, f, m)}
<1> SUFFICES ASSUME Bad # {} PROVE FALSE
  OBVIOUS
<1>1. PICK m \in Bad : \A k \in Bad : m <= k
  BY Least
<1>2. CASE m = 0
  <2> DEFINE p == [i \in 0 .. 0 |-> Untouched(f)]
  <2>1. p = [i \in 0 .. 0 |-> IF i = 0 THEN Untouched(f) ELSE Take(p[i - 1], f.filter.options[i])]
    OBVIOUS
  <2> HIDE DEF p
  <2>2. Parses(p, f, 0)
    BY <2>1 DEF Parses
  <2> QED BY <1>1, <1>2, <2>2
<1>3. CASE m # 0
  <2>1. m - 1 \in Nat /\ m - 1 \notin Bad
    BY <1>1, <1>3
  <2>2. PICK q : Parses(q, f, m - 1)
    BY <2>1
  <2> DEFINE p == [i \in 0 .. m |-> IF i = m THEN Take(q[m - 1], f.filter.options[m]) ELSE q[i]]
  <2>3. \A i \in 0 .. m - 1 : q[i] = IF i = 0 THEN Untouched(f) ELSE Take(q[i - 1], f.filter.options[i])
    BY <2>2 DEF Parses
  <2>4. p = [i \in 0 .. m |-> p[i]] /\ \A i \in 0 .. m : p[i] = IF i = m THEN Take(q[m - 1], f.filter.options[m]) ELSE q[i]
    OBVIOUS
  <2> HIDE DEF p
  <2>5. ASSUME NEW i \in 0 .. m
        PROVE  p[i] = IF i = 0 THEN Untouched(f) ELSE Take(p[i - 1], f.filter.options[i])
    <3>1. i # m => i \in 0 .. m - 1
      BY <2>1
    <3>2. i # 0 => i - 1 \in 0 .. m /\ i - 1 # m
      BY <2>1
    <3>3. i # 0 => p[i - 1] = q[i - 1]
      BY <2>4, <3>2
    <3> QED BY <1>3, <2>3, <2>4, <3>1, <3>3
  <2>6. Parses(p, f, m)
    BY <2>4, <2>5 DEF Parses
  <2> QED BY <1>1, <2>6
<1> QED BY <1>2, <1>3

\* What the first n options of f say: that there is one of this name, the last of
\* them with value v.
SaysBy(f, name, n) == \E i \in 1 .. n : f.filter.options[i].name = name

LastBy(f, name, n, v) ==
  \E i \in 1 .. n :
    /\ f.filter.options[i].name = name /\ f.filter.options[i].val = v
    /\ \A j \in 1 .. n : f.filter.options[j].name = name => j <= i

\* p is what they come to.
ParsedTo(p, f, n) ==
  /\ p.unknown <=> \E i \in 1 .. n : f.filter.options[i].name \notin Settings \cup {"type"}
  /\ ~p.unknown =>
       /\ p.explicit <=> SaysBy(f, "type", n)
       /\ IF SaysBy(f, "type", n) THEN LastBy(f, "type", n, p.type) ELSE p.type = InferDataType(f)
       /\ \A s \in Settings :
            /\ s \in DOMAIN p.set <=> SaysBy(f, s, n) \/ (s = "nullable" /\ f.pointers > 0)
            /\ SaysBy(f, s, n) => LastBy(f, s, n, p.set[s])

IsParsed(p) ==
  /\ p = [type |-> p.type, explicit |-> p.explicit, unknown |-> p.unknown, set |-> p.set]
  /\ p.unknown \in BOOLEAN /\ p.explicit \in BOOLEAN

LEMMA UntouchedParsed == ASSUME NEW f PROVE IsParsed(Untouched(f)) /\ ParsedTo(Untouched(f), f, 0)
<1>1. PICK p : p = Untouched(f)
  OBVIOUS
<1>2. IsParsed(p)
  BY <1>1 DEF IsParsed, Untouched
<1>3. /\ ~p.unknown /\ ~p.explicit /\ p.type = InferDataType(f)
      /\ DOMAIN p.set = IF f.pointers > 0 THEN {"nullable"} ELSE {}
  BY <1>1 DEF Untouched
<1>4. 1 .. 0 = {}
  OBVIOUS
<1> QED BY <1>1, <1>2, <1>3, <1>4 DEF ParsedTo, SaysBy

\* One option more.
LEMMA SaysOneMore ==
  ASSUME NEW f, NEW n \in Nat \ {0}, NEW name
  PROVE  /\ f.filter.options[n].name = name =>
              SaysBy(f, name, n) /\ LastBy(f, name, n, f.filter.options[n].val)
         /\ f.filter.options[n].name # name =>
              /\ SaysBy(f, name, n) <=> SaysBy(f, name, n - 1)
              /\ \A v : LastBy(f, name, n - 1, v) => LastBy(f, name, n, v)
<1>1. n \in 1 .. n /\ \A j \in 1 .. n : j <= n
  OBVIOUS
<1>2. \A i \in 1 .. n - 1 : i \in 1 .. n
  OBVIOUS
<1>3. \A i \in 1 .. n : i \in 1 .. n - 1 \/ i = n
  OBVIOUS
<1> QED BY <1>1, <1>2, <1>3 DEF SaysBy, LastBy

LEMMA TakeParsed ==
  ASSUME NEW f, NEW n \in Nat \ {0}, NEW p, IsParsed(p), ParsedTo(p, f, n - 1),
         NEW opt, opt = f.filter.options[n], NEW q, q = Take(p, opt)
  PROVE  IsParsed(q) /\ ParsedTo(q, f, n)
<1>1. \A i \in 1 .. n - 1 : i \in 1 .. n
  OBVIOUS
<1>2. \A i \in 1 .. n : i \in 1 .. n - 1 \/ i = n
  OBVIOUS
<1>3. n \in 1 .. n
  OBVIOUS
<1>4. (\E i \in 1 .. n : f.filter.options[i].name \notin Settings \cup {"type"}) <=>
        (\E i \in 1 .. n - 1 : f.filter.options[i].name \notin Settings \cup {"type"})
          \/ opt.name \notin Settings \cup {"type"}
  BY <1>1, <1>2, <1>3
<1>5. CASE p.unknown
  <2>1. q = p
    BY <1>5 DEF Take
  <2> QED BY <1>4, <1>5, <2>1 DEF ParsedTo
<1>6. CASE ~p.unknown /\ opt.name = "type"
  <2>1. q = [type |-> opt.val, explicit |-> TRUE, unknown |-> FALSE, set |-> p.set]
    BY <1>6 DEF Take, IsParsed
  <2>2. IsParsed(q) /\ q.type = opt.val /\ q.explicit /\ ~q.unknown /\ q.set = p.set
    BY <2>1 DEF IsParsed
  <2>3. \A s \in Settings : s # "type"
    BY DEF Settings
  <2>4. SaysBy(f, "type", n) /\ LastBy(f, "type", n, opt.val)
    BY <1>6, SaysOneMore
  <2>5. \A s \in Settings : /\ SaysBy(f, s, n) <=> SaysBy(f, s, n - 1)
                            /\ \A v : LastBy(f, s, n - 1, v) => LastBy(f, s, n, v)
    BY <1>6, <2>3, SaysOneMore
  <2>6. ~\E i \in 1 .. n : f.filter.options[i].name \notin Settings \cup {"type"}
    BY <1>4, <1>6 DEF ParsedTo
  <2>7. ASSUME NEW s \in Settings
        PROVE  /\ s \in DOMAIN q.set <=> SaysBy(f, s, n) \/ (s = "nullable" /\ f.pointers > 0)
               /\ SaysBy(f, s, n) => LastBy(f, s, n, q.set[s])
    <3>1. /\ s \in DOMAIN p.set <=> SaysBy(f, s, n - 1) \/ (s = "nullable" /\ f.pointers > 0)
          /\ SaysBy(f, s, n - 1) => LastBy(f, s, n - 1, p.set[s])
      BY <1>6 DEF ParsedTo
    <3> QED BY <2>2, <2>5, <3>1
  <2> QED BY <2>2, <2>4, <2>6, <2>7 DEF ParsedTo
<1>7. CASE ~p.unknown /\ opt.name \in Settings
  <2>1. opt.name # "type"
    BY <1>7 DEF Settings
  <2>2. PICK more : more = Put(p.set, opt.name, opt.val)
    OBVIOUS
  <2>3. q = [type |-> p.type, explicit |-> p.explicit, unknown |-> FALSE, set |-> more]
    BY <1>7, <2>1, <2>2 DEF Take, IsParsed
  <2>4. IsParsed(q) /\ q.type = p.type /\ q.explicit = p.explicit /\ ~q.unknown /\ q.set = more
    BY <2>3 DEF IsParsed
  <2>5. DOMAIN more = DOMAIN p.set \cup {opt.name}
    BY <2>2 DEF Put
  <2>6. more[opt.name] = opt.val /\ \A s \in DOMAIN p.set : s # opt.name => more[s] = p.set[s]
    BY <2>2 DEF Put
  <2>7. ~\E i \in 1 .. n : f.filter.options[i].name \notin Settings \cup {"type"}
    BY <1>4, <1>7 DEF ParsedTo
  <2>8. /\ q.explicit <=> SaysBy(f, "type", n)
        /\ IF SaysBy(f, "type", n) THEN LastBy(f, "type", n, q.type) ELSE q.type = InferDataType(f)
    <3>1. /\ SaysBy(f, "type", n) <=> SaysBy(f, "type", n - 1)
          /\ \A v : LastBy(f, "type", n - 1, v) => LastBy(f, "type", n, v)
      BY <2>1, SaysOneMore
    <3>2. /\ p.explicit <=> SaysBy(f, "type", n - 1)
          /\ IF SaysBy(f, "type", n - 1) THEN LastBy(f, "type", n - 1, p.type) ELSE p.type = InferDataType(f)
      BY <1>7 DEF ParsedTo
    <3> QED BY <2>4, <3>1, <3>2
  <2>9. ASSUME NEW s \in Settings
        PROVE  /\ s \in DOMAIN q.set <=> SaysBy(f, s, n) \/ (s = "nullable" /\ f.pointers > 0)
               /\ SaysBy(f, s, n) => LastBy(f, s, n, q.set[s])
    <3>1. /\ s \in DOMAIN p.set <=> SaysBy(f, s, n - 1) \/ (s = "nullable" /\ f.pointers > 0)
          /\ SaysBy(f, s, n - 1) => LastBy(f, s, n - 1, p.set[s])
      BY <1>7 DEF ParsedTo
    <3>2. CASE s = opt.name
      <4>1. SaysBy(f, s, n) /\ LastBy(f, s, n, opt.val)
        BY <3>2, SaysOneMore
      <4> QED BY <2>4, <2>5, <2>6, <3>2, <4>1
    <3>3. CASE s # opt.name
      <4>1. /\ SaysBy(f, s, n) <=> SaysBy(f, s, n - 1)
            /\ \A v : LastBy(f, s, n - 1, v) => LastBy(f, s, n, v)
        BY <3>3, SaysOneMore
      <4> QED BY <2>4, <2>5, <2>6, <3>1, <3>3, <4>1
    <3> QED BY <3>2, <3>3
  <2> QED BY <2>4, <2>7, <2>8, <2>9 DEF ParsedTo
<1>8. CASE ~p.unknown /\ opt.name \notin Settings \cup {"type"}
  <2>1. q = [type |-> p.type, explicit |-> p.explicit, unknown |-> TRUE, set |-> p.set]
    BY <1>8 DEF Take, IsParsed
  <2>2. IsParsed(q) /\ q.unknown
    BY <2>1 DEF IsParsed
  <2> QED BY <1>4, <1>8, <2>2 DEF ParsedTo
<1> QED BY <1>5, <1>6, <1>7, <1>8 DEF IsParsed

LEMMA OptionsParsed ==
  ASSUME NEW f, NEW n \in Nat, n = Len(f.filter.options)
  PROVE  IsParsed(ParseOptions(f)) /\ ParsedTo(ParseOptions(f), f, n)
<1> DEFINE parsed[i \in 0 .. Len(f.filter.options)] ==
             IF i = 0 THEN Untouched(f) ELSE Take(parsed[i - 1], f.filter.options[i])
<1>1. ParseOptions(f) = parsed[n]
  BY DEF ParseOptions
<1>2. parsed = CHOOSE p : Parses(p, f, n)
  BY DEF Parses
<1>3. Parses(parsed, f, n)
  BY <1>2, ParsesExists
<1> HIDE DEF parsed
<1>4. \A i \in 0 .. n : parsed[i] = IF i = 0 THEN Untouched(f) ELSE Take(parsed[i - 1], f.filter.options[i])
  BY <1>3 DEF Parses
<1> DEFINE Bad == {i \in 0 .. n : ~(IsParsed(parsed[i]) /\ ParsedTo(parsed[i], f, i))}
<1>5. Bad = {}
  <2> SUFFICES ASSUME Bad # {} PROVE FALSE
    OBVIOUS
  <2>1. Bad \subseteq Nat
    OBVIOUS
  <2>2. PICK i \in Bad : \A k \in Bad : i <= k
    BY <2>1, Least
  <2>3. i # 0
    BY <1>4, <2>2, UntouchedParsed
  <2>4. i \in Nat \ {0} /\ i - 1 \in 0 .. n /\ ~(i <= i - 1)
    BY <2>2, <2>3
  <2>5. IsParsed(parsed[i - 1]) /\ ParsedTo(parsed[i - 1], f, i - 1)
    BY <2>2, <2>4
  <2>6. parsed[i] = Take(parsed[i - 1], f.filter.options[i])
    BY <1>4, <2>2, <2>3
  <2>7. IsParsed(parsed[i]) /\ ParsedTo(parsed[i], f, i)
    BY <2>4, <2>5, <2>6, TakeParsed
  <2> QED BY <2>2, <2>7
<1> QED BY <1>1, <1>5
\* What is wrong with a tag by itself.
OwnFault(f) ==
  IF \E o \in DOMAIN f.filter.options : f.filter.options[o].name \notin Settings \cup {"type"} THEN "unknown option"
  ELSE IF DeclaredType(f) = "" THEN IF Says(f, "type") /\ InferDataType(f) # "" THEN "missing type" ELSE "cannot infer"
  ELSE IF DeclaredType(f) \notin Types THEN "unknown type"
  ELSE "none"

LEMMA FaultOf ==
  ASSUME NEW all, NEW i
  PROVE  /\ OwnFault(all[i]) # "none" => FaultAt(all, i) = OwnFault(all[i])
         /\ OwnFault(all[i]) = "none" =>
              FaultAt(all, i) = IF \E j \in 1 .. i - 1 : Key(all[j]) = Key(all[i]) THEN "duplicate" ELSE "none"
<1>1. PICK f : f = all[i]
  OBVIOUS
<1>2. PICK unknown \in BOOLEAN :
        unknown <=> \E o \in DOMAIN f.filter.options : f.filter.options[o].name \notin Settings \cup {"type"}
  OBVIOUS
<1>3. PICK repeated \in BOOLEAN : repeated <=> \E j \in 1 .. i - 1 : Key(all[j]) = Key(f)
  OBVIOUS
<1>4. PICK t : t = DeclaredType(f)
  OBVIOUS
<1>5. PICK bad : bad = IF Says(f, "type") /\ InferDataType(f) # "" THEN "missing type" ELSE "cannot infer"
  OBVIOUS
<1>6. bad # "none"
  BY <1>5
<1>7. OwnFault(f) = IF unknown THEN "unknown option" ELSE IF t = "" THEN bad ELSE IF t \notin Types THEN "unknown type" ELSE "none"
  BY <1>2, <1>4, <1>5 DEF OwnFault
<1>8. FaultAt(all, i) = IF unknown THEN "unknown option" ELSE IF t = "" THEN bad ELSE IF t \notin Types THEN "unknown type"
                        ELSE IF repeated THEN "duplicate" ELSE "none"
  BY <1>1, <1>2, <1>3, <1>4, <1>5 DEF FaultAt
<1> QED BY <1>1, <1>3, <1>6, <1>7, <1>8

LEMMA LastIs ==
  ASSUME NEW f, NEW n \in Nat, DOMAIN f.filter.options = 1 .. n, NEW name
  PROVE  /\ Says(f, name) <=> SaysBy(f, name, n)
         /\ \A v : LastBy(f, name, n, v) => LastOf(f, name) = v
<1>1. Says(f, name) <=> SaysBy(f, name, n)
  BY DEF Says, SaysBy
<1>2. ASSUME NEW v, LastBy(f, name, n, v) PROVE LastOf(f, name) = v
  <2>1. PICK at : at = {i \in 1 .. n : f.filter.options[i].name = name}
    OBVIOUS
  <2>2. PICK i \in 1 .. n : /\ f.filter.options[i].name = name /\ f.filter.options[i].val = v
                            /\ \A j \in 1 .. n : f.filter.options[j].name = name => j <= i
    BY <1>2 DEF LastBy
  <2>3. i \in at /\ \A j \in at : j <= i
    BY <2>1, <2>2
  <2>4. PICK k : k = CHOOSE l \in at : \A j \in at : j <= l
    OBVIOUS
  <2>5. k \in at /\ \A j \in at : j <= k
    BY <2>3, <2>4
  <2>6. k \in Nat /\ i \in Nat /\ k <= i /\ i <= k
    BY <2>1, <2>3, <2>5
  <2>7. k = i
    BY <2>6
  <2>8. LastOf(f, name) = f.filter.options[k].val
    BY <2>1, <2>4 DEF LastOf
  <2> QED BY <2>2, <2>7, <2>8
<1> QED BY <1>1, <1>2

\* parseFilterTag fails on what is wrong with the tag, and returns what it declares.
LEMMA ParsesTag ==
  ASSUME NEW f \in AnyField
  PROVE  /\ ParseFilterTag(f).key = Key(f)
         /\ ParseFilterTag(f).fault = OwnFault(f)
         /\ OwnFault(f) = "none" => Declares(f, ParseFilterTag(f).field)
<1>1. PICK n : n = Len(f.filter.options)
  OBVIOUS
<1>2. n \in Nat /\ DOMAIN f.filter.options = 1 .. n
  BY <1>1, StructAssumption, LenProperties
<1>3. PICK p : p = ParseOptions(f)
  OBVIOUS
<1>4. IsParsed(p) /\ ParsedTo(p, f, n)
  BY <1>1, <1>2, <1>3, OptionsParsed
<1>5. PICK field : field = [type |-> ParsedType(p, f), set |-> p.set]
  OBVIOUS
<1>6. ParseFilterTag(f) = [key |-> Key(f), field |-> field, fault |-> ParseFault(p, f)]
  BY <1>3, <1>5 DEF ParseFilterTag
<1>7. ParseFilterTag(f).key = Key(f) /\ ParseFilterTag(f).fault = ParseFault(p, f) /\ ParseFilterTag(f).field = field
  BY <1>6
<1>8. field.type = ParsedType(p, f) /\ field.set = p.set
  BY <1>5
<1>9. CASE p.unknown
  <2>1. OwnFault(f) = "unknown option"
    BY <1>2, <1>4, <1>9 DEF ParsedTo, OwnFault
  <2>2. ParseFault(p, f) = "unknown option"
    BY <1>9 DEF ParseFault
  <2>3. ParseFilterTag(f).key = Key(f) /\ ParseFilterTag(f).fault = "unknown option"
    BY <1>7, <2>2
  <2>4. OwnFault(f) # "none"
    BY <2>1
  <2> QED BY <2>1, <2>3, <2>4
<1>10. CASE ~p.unknown
  <2>1. /\ p.explicit <=> Says(f, "type")
        /\ p.type = IF Says(f, "type") THEN LastOf(f, "type") ELSE InferDataType(f)
    <3>1. /\ p.explicit <=> SaysBy(f, "type", n)
          /\ IF SaysBy(f, "type", n) THEN LastBy(f, "type", n, p.type) ELSE p.type = InferDataType(f)
      BY <1>4, <1>10 DEF ParsedTo
    <3> QED BY <1>2, <3>1, LastIs
  <2>2. ASSUME NEW s \in Settings
        PROVE  /\ s \in DOMAIN p.set <=> Says(f, s) \/ (s = "nullable" /\ f.pointers > 0)
               /\ Says(f, s) => p.set[s] = LastOf(f, s)
    <3>1. /\ s \in DOMAIN p.set <=> SaysBy(f, s, n) \/ (s = "nullable" /\ f.pointers > 0)
          /\ SaysBy(f, s, n) => LastBy(f, s, n, p.set[s])
      BY <1>4, <1>10 DEF ParsedTo
    <3> QED BY <1>2, <3>1, LastIs
  <2>3. "enum" \in Settings /\ "nullable" \in Settings
    BY DEF Settings
  <2>4. "enum" \in DOMAIN p.set <=> Says(f, "enum")
    BY <2>2, <2>3
  <2>5. ParsedType(p, f) = DeclaredType(f)
    <3>1. ParsedType(p, f) = IF Says(f, "enum") /\ ~Says(f, "type") /\ InferDataType(f) = "string" THEN "enum" ELSE p.type
      BY <2>1, <2>4 DEF ParsedType
    <3> QED BY <2>1, <3>1 DEF DeclaredType
  <2>6. Declares(f, field)
    <3>1. "nullable" \in DOMAIN field.set <=> f.pointers > 0 \/ Says(f, "nullable")
      BY <1>8, <2>2, <2>3
    <3>2. \A s \in Settings \ {"nullable"} :
            /\ s \in DOMAIN field.set <=> Says(f, s)
            /\ Says(f, s) => field.set[s] = LastOf(f, s)
      BY <1>8, <2>2
    <3> QED BY <1>8, <2>5, <3>1, <3>2 DEF Declares
  <2>7. ~\E o \in DOMAIN f.filter.options : f.filter.options[o].name \notin Settings \cup {"type"}
    BY <1>2, <1>4, <1>10 DEF ParsedTo
  <2>8. ParseFault(p, f) = OwnFault(f)
    <3>1. PICK t : t = DeclaredType(f)
      OBVIOUS
    <3>2. ParseFault(p, f) = IF t = "" THEN IF InferDataType(f) = "" THEN "cannot infer" ELSE "missing type"
                             ELSE IF t \notin Types THEN "unknown type" ELSE "none"
      BY <1>10, <2>5, <3>1 DEF ParseFault
    <3>3. OwnFault(f) = IF t = "" THEN IF Says(f, "type") /\ InferDataType(f) # "" THEN "missing type" ELSE "cannot infer"
                        ELSE IF t \notin Types THEN "unknown type" ELSE "none"
      BY <2>7, <3>1 DEF OwnFault
    <3>4. t = "" /\ ~Says(f, "type") => InferDataType(f) = ""
      BY <3>1 DEF DeclaredType
    <3> QED BY <3>2, <3>3, <3>4
  <2> QED BY <1>6, <2>6, <2>8
<1> QED BY <1>4, <1>9, <1>10 DEF IsParsed
(***************************************************************************)
(* Where the walk over the filter tags stands in what the type holds: the  *)
(* innermost call is at the fields of its own type, which begin in all     *)
(* after start[n]; those before its next field have been read.             *)
(***************************************************************************)
Placed(all, start, calls) ==
  LET n == Len(calls) IN
  /\ all = Filters[calls[1].type] /\ start[1] = 0
  /\ \A i \in 1 .. n : start[i] \in Nat /\ Occurs(Filters[calls[i].type], all, start[i])
  /\ \A i \in 1 .. n : i # n =>
       /\ calls[i].next # 1 /\ Inlined(Struct[calls[i].type][calls[i].next - 1])
       /\ start[i + 1] = start[i] + Cut(calls[i].type)[calls[i].next - 2]

Position(start, calls) ==
  LET n == Len(calls) IN start[n] + Cut(calls[n].type)[calls[n].next - 1]

LEMMA HerePlaced ==
  ASSUME NEW root, NEW calls, WalkOf(root, calls), NEW all, NEW start, Placed(all, start, calls),
         NEW n, n = Len(calls), NEW t, t = calls[n].type, NEW k, k = calls[n].next, k <= Len(Struct[t]),
         NEW r, r = Position(start, calls)
  PROVE  /\ n \in Nat \ {0} /\ t \in DOMAIN Struct /\ k \in 1 .. Len(Struct[t]) /\ Struct[t][k] \in AnyField
         /\ r \in Nat /\ r = start[n] + Cut(t)[k - 1] /\ Occurs(Part(t, k), all, r)
         /\ Cut(t)[k] \in Nat /\ Cut(t)[k - 1] \in Nat /\ start[n] \in Nat
         /\ Cut(t)[k] = Cut(t)[k - 1] + Len(Part(t, k))
<1>1. n \in Nat \ {0}
  BY FramesLen DEF WalkOf
<1>2. t \in DOMAIN Struct /\ k \in 1 .. Len(Struct[t]) + 1
  BY <1>1 DEF WalkOf, Typed
<1>3. PICK m : m = Len(Struct[t])
  OBVIOUS
<1>4. m \in Nat /\ k \in 1 .. m /\ Struct[t][k] \in AnyField
  <2>1. m \in Nat
    BY <1>2, <1>3, StructSeqs
  <2>2. k \in 1 .. m
    BY <1>2, <1>3, <2>1
  <2> QED BY <1>2, <1>3, <2>1, <2>2, StructSeqs
<1>5. PICK g : g = Cut(t)
  OBVIOUS
<1>6. /\ \A j \in 0 .. m : g[j] \in Nat
      /\ \A j \in 1 .. m : g[j] = g[j - 1] + Len(Part(t, j)) /\ Occurs(Part(t, j), Filters[t], g[j - 1])
  BY <1>2, <1>3, <1>5, CutAt
<1>7. k \in 0 .. m /\ k - 1 \in 0 .. m
  BY <1>4
<1>8. start[n] \in Nat /\ Occurs(Filters[t], all, start[n])
  BY <1>1 DEF Placed
<1>9. Occurs(Part(t, k), Filters[t], g[k - 1]) /\ g[k] = g[k - 1] + Len(Part(t, k)) /\ g[k] \in Nat /\ g[k - 1] \in Nat
  BY <1>4, <1>6, <1>7
<1>10. Occurs(Part(t, k), all, start[n] + g[k - 1])
  BY <1>8, <1>9, OccursThere
<1>11. r = start[n] + g[k - 1] /\ r \in Nat
  BY <1>5, <1>8, <1>9 DEF Position
<1> QED BY <1>1, <1>2, <1>3, <1>4, <1>5, <1>8, <1>9, <1>10, <1>11

LEMMA OnwardPlaced ==
  ASSUME NEW root, NEW calls, WalkOf(root, calls), NEW all, NEW start, Placed(all, start, calls),
         NEW n, n = Len(calls), NEW t, t = calls[n].type, NEW k, k = calls[n].next, k <= Len(Struct[t]),
         NEW more, Advanced(calls, more)
  PROVE  Placed(all, start, more) /\ Position(start, more) = Position(start, calls) + Len(Part(t, k))
<1>1. /\ n \in Nat \ {0} /\ k \in 1 .. Len(Struct[t])
      /\ Position(start, calls) = start[n] + Cut(t)[k - 1]
      /\ Cut(t)[k] \in Nat /\ Cut(t)[k - 1] \in Nat /\ start[n] \in Nat
      /\ Cut(t)[k] = Cut(t)[k - 1] + Len(Part(t, k))
  BY HerePlaced
<1>2. Len(more) = n /\ more[n].type = t /\ more[n].next = k + 1 /\ \A i \in 1 .. n : i # n => more[i] = calls[i]
  BY DEF Advanced
<1>3. \A i \in 1 .. n : more[i].type = calls[i].type
  BY <1>2
<1>4. Placed(all, start, more)
  <2>1. 1 \in 1 .. n
    BY <1>1
  <2> QED BY <1>2, <1>3, <2>1 DEF Placed
<1>5. Position(start, more) = start[n] + Cut(t)[k]
  <2>1. (k + 1) - 1 = k
    BY <1>1
  <2> QED BY <1>2, <2>1 DEF Position
<1>6. PICK l : l = Len(Part(t, k))
  OBVIOUS
<1>7. l \in Nat
  BY <1>6, HerePlaced DEF Occurs
<1>8. PICK a : a = Cut(t)[k - 1]
  OBVIOUS
<1>9. start[n] + (a + l) = (start[n] + a) + l
  BY <1>1, <1>7, <1>8
<1> QED BY <1>1, <1>4, <1>5, <1>6, <1>8, <1>9

LEMMA WithinPlaced ==
  ASSUME NEW root, NEW calls, WalkOf(root, calls), NEW all, NEW start, Placed(all, start, calls),
         NEW n, n = Len(calls), NEW t, t = calls[n].type, NEW k, k = calls[n].next, k <= Len(Struct[t]),
         Inlined(Struct[t][k]), NEW more, Entered(calls, more)
  PROVE  \E s : Placed(all, s, more) /\ Position(s, more) = Position(start, calls)
<1>1. PICK r : r = Position(start, calls)
  OBVIOUS
<1>2. /\ n \in Nat \ {0} /\ t \in DOMAIN Struct /\ k \in 1 .. Len(Struct[t])
      /\ r = start[n] + Cut(t)[k - 1] /\ r \in Nat /\ Occurs(Part(t, k), all, r)
  BY <1>1, HerePlaced
<1>3. PICK u : u = Struct[t][k].type
  OBVIOUS
<1>4. u \in DOMAIN Struct /\ Part(t, k) = Filters[u]
  BY <1>2, <1>3, StructSeqs DEF Inlined, Part
<1>5. /\ Len(more) = n + 1 /\ more[n].type = t /\ more[n].next = k + 1
      /\ \A i \in 1 .. n : i # n => more[i] = calls[i]
  BY DEF Entered
<1>6. more[n + 1].type = u /\ more[n + 1].next = 1
  <2>1. PICK q : q = Append(calls[n].at, k)
    OBVIOUS
  <2>2. more[n + 1] = Call(u, q)
    BY <1>3, <2>1 DEF Entered
  <2>3. Call(u, q).type = u /\ Call(u, q).next = 1
    BY CallIsFrame
  <2> QED BY <2>2, <2>3
<1> DEFINE s == [i \in 1 .. n + 1 |-> IF i = n + 1 THEN r ELSE start[i]]
<1>7. s[n + 1] = r /\ \A i \in 1 .. n : s[i] = start[i]
  BY <1>2
<1> HIDE DEF s
<1>8. \A i \in 1 .. n : more[i].type = calls[i].type
  BY <1>5
<1>9. \A i \in 1 .. n + 1 : i \in 1 .. n \/ i = n + 1
  BY <1>2
<1>10. all = Filters[more[1].type] /\ s[1] = 0
  <2>1. 1 \in 1 .. n
    BY <1>2
  <2> QED BY <1>7, <1>8, <2>1 DEF Placed
<1>11. \A i \in 1 .. n + 1 : s[i] \in Nat /\ Occurs(Filters[more[i].type], all, s[i])
  <2>1. \A i \in 1 .. n : start[i] \in Nat /\ Occurs(Filters[calls[i].type], all, start[i])
    BY DEF Placed
  <2> QED BY <1>2, <1>4, <1>6, <1>7, <1>8, <1>9, <2>1
<1>12. ASSUME NEW i \in 1 .. n
       PROVE  /\ more[i].next # 1 /\ Inlined(Struct[more[i].type][more[i].next - 1])
              /\ s[i + 1] = s[i] + Cut(more[i].type)[more[i].next - 2]
  <2>1. CASE i = n
    <3>1. k + 1 # 1 /\ (k + 1) - 1 = k /\ (k + 1) - 2 = k - 1
      BY <1>2, StructSeqs
    <3> QED BY <1>2, <1>5, <1>7, <2>1, <3>1
  <2>2. CASE i # n
    <3>1. i + 1 \in 1 .. n
      BY <1>2, <2>2
    <3>2. /\ calls[i].next # 1 /\ Inlined(Struct[calls[i].type][calls[i].next - 1])
          /\ start[i + 1] = start[i] + Cut(calls[i].type)[calls[i].next - 2]
      BY <2>2 DEF Placed
    <3> QED BY <1>5, <1>7, <2>2, <3>1, <3>2
  <2> QED BY <2>1, <2>2
<1>13. Placed(all, s, more)
  <2>1. \A i \in 1 .. n + 1 : i # n + 1 => i \in 1 .. n
    BY <1>9
  <2> QED BY <1>5, <1>10, <1>11, <1>12, <2>1 DEF Placed
<1>14. Position(s, more) = r
  <2>1. Cut(u)[0] = 0 /\ 1 - 1 = 0 /\ r + 0 = r
    <3>1. PICK m : m = Len(Struct[u])
      OBVIOUS
    <3>2. PICK g : g = Cut(u)
      OBVIOUS
    <3>3. g[0] = 0
      BY <1>4, <3>1, <3>2, CutAt
    <3> QED BY <1>2, <3>2, <3>3
  <2>2. Position(s, more) = r + Cut(u)[1 - 1]
    BY <1>5, <1>6, <1>7 DEF Position
  <2> QED BY <2>1, <2>2
<1> QED BY <1>1, <1>13, <1>14

LEMMA AtEndPlaced ==
  ASSUME NEW root, NEW calls, WalkOf(root, calls), NEW all, NEW start, Placed(all, start, calls),
         NEW n, n = Len(calls), NEW t, t = calls[n].type, calls[n].next > Len(Struct[t])
  PROVE  /\ n \in Nat \ {0} /\ t \in DOMAIN Struct /\ start[n] \in Nat
         /\ Position(start, calls) = start[n] + Len(Filters[t])
<1>1. n \in Nat \ {0}
  BY FramesLen DEF WalkOf
<1>2. t \in DOMAIN Struct /\ calls[n].next \in 1 .. Len(Struct[t]) + 1 /\ Len(Struct[t]) \in Nat
  <2>1. t \in DOMAIN Struct /\ calls[n].next \in 1 .. Len(Struct[t]) + 1
    BY <1>1 DEF WalkOf, Typed
  <2> QED BY <2>1, StructSeqs
<1>3. calls[n].next - 1 = Len(Struct[t])
  BY <1>2
<1>4. Cut(t)[Len(Struct[t])] = Len(Filters[t])
  BY <1>2, CutAt
<1>5. start[n] \in Nat
  BY <1>1 DEF Placed
<1> QED BY <1>1, <1>2, <1>3, <1>4, <1>5 DEF Position

LEMMA FrontPlaced ==
  ASSUME NEW root, NEW calls, WalkOf(root, calls), NEW all, NEW start, Placed(all, start, calls),
         NEW n, n = Len(calls), n > 1, NEW u, u = calls[n].type, calls[n].next > Len(Struct[u])
  PROVE  Placed(all, start, Front(calls)) /\ Position(start, Front(calls)) = Position(start, calls)
<1>1. n \in Nat \ {0} /\ start[n] \in Nat /\ Position(start, calls) = start[n] + Len(Filters[u])
  BY AtEndPlaced
<1>2. PICK fewer : fewer = Front(calls)
  OBVIOUS
<1>3. Len(fewer) = n - 1 /\ \A i \in 1 .. n - 1 : fewer[i] = calls[i]
  BY <1>2, FrontReturns DEF WalkOf
<1>4. n - 1 \in 1 .. n /\ n - 1 # n /\ (n - 1) + 1 = n /\ n - 1 \in 1 .. n - 1
  BY <1>1, SMTT(30)
<1>5. Placed(all, start, fewer)
  <2>1. \A i \in 1 .. n - 1 : i \in 1 .. n /\ i # n
    BY <1>1
  <2>2. 1 \in 1 .. n - 1
    BY <1>1
  <2> QED BY <1>3, <2>1, <2>2 DEF Placed
<1>6. PICK t : t = calls[n - 1].type
  OBVIOUS
<1>7. PICK k : k = calls[n - 1].next
  OBVIOUS
<1>8. k # 1 /\ Inlined(Struct[t][k - 1]) /\ start[n] = start[n - 1] + Cut(t)[k - 2] /\ start[n - 1] \in Nat
  BY <1>4, <1>6, <1>7 DEF Placed
<1>9. t \in DOMAIN Struct /\ k \in 1 .. Len(Struct[t]) + 1
  BY <1>4, <1>6, <1>7 DEF WalkOf, Typed
<1>10. Struct[t][k - 1].type = u
  BY <1>4, <1>6, <1>7 DEF WalkOf, Nested, IsFor
<1>11. PICK m : m = Len(Struct[t])
  OBVIOUS
<1>12. m \in Nat
  BY <1>9, <1>11, StructSeqs
<1>13. k - 1 \in 1 .. m /\ k - 1 \in 0 .. m /\ (k - 1) - 1 = k - 2 /\ k - 2 \in 0 .. m
  BY <1>8, <1>9, <1>11, <1>12
<1>14. Part(t, k - 1) = Filters[u]
  BY <1>8, <1>10 DEF Part
<1>15. PICK g : g = Cut(t)
  OBVIOUS
<1>16. /\ \A j \in 0 .. m : g[j] \in Nat
       /\ \A j \in 1 .. m : g[j] = g[j - 1] + Len(Part(t, j)) /\ Occurs(Part(t, j), Filters[t], g[j - 1])
  <2>1. t \in DOMAIN Struct
    BY <1>9
  <2> QED BY <1>11, <1>15, <2>1, CutAt
<1>17. g[k - 1] = g[k - 2] + Len(Filters[u]) /\ g[k - 1] \in Nat /\ g[k - 2] \in Nat
  BY <1>13, <1>14, <1>16
<1>18. Position(start, fewer) = start[n - 1] + g[k - 1]
  BY <1>3, <1>4, <1>6, <1>7, <1>15 DEF Position
<1>19. PICK l : l = Len(Filters[u])
  OBVIOUS
<1>20. l \in Nat
  <2>1. Occurs(Part(t, k - 1), Filters[t], g[k - 2])
    BY <1>13, <1>16
  <2> QED BY <1>14, <1>19, <2>1 DEF Occurs
<1>21. start[n - 1] + (g[k - 2] + l) = (start[n - 1] + g[k - 2]) + l
  BY <1>8, <1>17, <1>20
<1> QED BY <1>1, <1>2, <1>5, <1>8, <1>15, <1>17, <1>18, <1>19, <1>21
(***************************************************************************)
(* The registry: what the tags read so far declare, none of them at fault. *)
(***************************************************************************)
TagsTo(reg, all, r) ==
  /\ DOMAIN reg = {Key(all[i]) : i \in 1 .. r}
  /\ \A i \in 1 .. r : FaultAt(all, i) = "none" /\ Declares(all[i], reg[Key(all[i])])

Reading ==
  /\ phase = "tags" =>
       /\ error = "none"
       /\ \E start : /\ Placed(Filters[given.filters], start, stack)
                     /\ TagsTo(registry, Filters[given.filters], Position(start, stack))
  /\ FirstTagFault
  /\ RegistryOfTheTags

LEMMA TagHere ==
  ASSUME NEW root, WalkOf(root, stack), NEW all, NEW start, Placed(all, start, stack), all \in Seq(AnyField),
         AtField("tags"), ~IsFlattened, ~Untagged(Field), NEW r, r = Position(start, stack)
  PROVE  Field \in AnyField /\ r \in Nat /\ r + 1 \in 1 .. Len(all) /\ DOMAIN all = 1 .. Len(all) /\ all[r + 1] = Field
<1>1. PICK n : n = Len(stack)
  OBVIOUS
<1>2. PICK t : t = stack[n].type
  OBVIOUS
<1>3. PICK k : k = stack[n].next
  OBVIOUS
<1>4. PICK f : f = Struct[t][k]
  OBVIOUS
<1>5. Field = f /\ k <= Len(Struct[t])
  BY <1>1, <1>2, <1>3, <1>4 DEF AtField, Field, Current, Last
<1>6. f \in AnyField /\ r \in Nat /\ Occurs(Part(t, k), all, r)
  BY <1>1, <1>2, <1>3, <1>4, <1>5, HerePlaced
<1>7. Part(t, k) = <<f>>
  <2>1. ~Inlined(f) /\ ~Untagged(f)
    BY <1>5 DEF IsFlattened, EmbedsStruct, Inlined
  <2> QED BY <1>4, <2>1 DEF Part
<1>8. PICK s : s = <<f>>
  OBVIOUS
<1>9. Len(s) = 1 /\ s[1] = f
  BY <1>8, IsSeqOne
<1>10. Occurs(s, all, r)
  BY <1>6, <1>7, <1>8
<1>11. Len(all) \in Nat /\ r + 1 <= Len(all) /\ all[r + 1] = f
  <2>1. 1 \in 1 .. 1
    OBVIOUS
  <2> QED BY <1>9, <1>10, <2>1 DEF Occurs
<1>12. DOMAIN all = 1 .. Len(all)
  BY LenProperties
<1> QED BY <1>5, <1>6, <1>11, <1>12

LEMMA CollectOne ==
  ASSUME NEW all, NEW r \in Nat, NEW reg, TagsTo(reg, all, r), NEW f, f = all[r + 1], OwnFault(f) = "none",
         NEW field, Declares(f, field), Key(f) \notin DOMAIN reg
  PROVE  TagsTo(Put(reg, Key(f), field), all, r + 1)
<1>1. PICK key : key = Key(f)
  OBVIOUS
<1>2. PICK more : more = Put(reg, key, field)
  OBVIOUS
<1>3. DOMAIN more = DOMAIN reg \cup {key} /\ more[key] = field /\ \A k \in DOMAIN reg : k # key => more[k] = reg[k]
  BY <1>2 DEF Put
<1>4. DOMAIN reg = {Key(all[i]) : i \in 1 .. r}
  BY DEF TagsTo
<1>5. \A i \in 1 .. r + 1 : i \in 1 .. r \/ i = r + 1
  OBVIOUS
<1>6. \A i \in 1 .. r : i \in 1 .. r + 1
  OBVIOUS
<1>7. r + 1 \in 1 .. r + 1 /\ (r + 1) - 1 = r
  OBVIOUS
<1>8. DOMAIN more = {Key(all[i]) : i \in 1 .. r + 1}
  BY <1>1, <1>3, <1>4, <1>5, <1>6, <1>7
<1>9. FaultAt(all, r + 1) = "none"
  <2>1. PICK m : m = r + 1
    OBVIOUS
  <2>2. m - 1 = r /\ all[m] = f
    BY <2>1
  <2>3. \A j \in 1 .. m - 1 : Key(all[j]) # key
    BY <1>1, <1>4, <2>2
  <2>4. ~\E j \in 1 .. m - 1 : Key(all[j]) = Key(all[m])
    BY <1>1, <2>2, <2>3
  <2>5. FaultAt(all, m) = "none"
    BY <2>2, <2>4, FaultOf
  <2> QED BY <2>1, <2>5
<1>10. \A i \in 1 .. r : FaultAt(all, i) = "none" /\ Declares(all[i], more[Key(all[i])])
  <2>1. \A i \in 1 .. r : FaultAt(all, i) = "none" /\ Declares(all[i], reg[Key(all[i])])
    BY DEF TagsTo
  <2>2. \A i \in 1 .. r : Key(all[i]) \in DOMAIN reg
    BY <1>4
  <2>3. \A i \in 1 .. r : more[Key(all[i])] = reg[Key(all[i])]
    BY <1>1, <1>3, <2>2
  <2> QED BY <2>1, <2>3
<1>11. Declares(all[r + 1], more[Key(all[r + 1])])
  BY <1>1, <1>3
<1> QED BY <1>1, <1>2, <1>5, <1>8, <1>9, <1>10, <1>11 DEF TagsTo

LEMMA FirstFault ==
  ASSUME NEW all, NEW n \in Nat, DOMAIN all = 1 .. n, NEW r \in Nat, r + 1 \in 1 .. n,
         NEW reg, TagsTo(reg, all, r), FaultAt(all, r + 1) # "none"
  PROVE  Outcome(all) = FaultAt(all, r + 1)
<1>1. PICK faults : faults = {i \in DOMAIN all : FaultAt(all, i) # "none"}
  OBVIOUS
<1>2. r + 1 \in faults /\ faults \subseteq 1 .. n
  BY <1>1
<1>3. \A i \in faults : r + 1 <= i
  <2>1. \A i \in 1 .. r : FaultAt(all, i) = "none"
    BY DEF TagsTo
  <2>2. \A i \in 1 .. n : i \in 1 .. r \/ r + 1 <= i
    OBVIOUS
  <2> QED BY <1>1, <2>1, <2>2
<1>4. PICK m : m = CHOOSE i \in faults : \A j \in faults : i <= j
  OBVIOUS
<1>5. m \in faults /\ \A j \in faults : m <= j
  BY <1>2, <1>3, <1>4
<1>6. m \in Nat /\ m <= r + 1 /\ r + 1 <= m
  BY <1>2, <1>3, <1>5
<1>7. m = r + 1
  BY <1>6
<1>8. Outcome(all) = FaultAt(all, m)
  BY <1>1, <1>2, <1>4 DEF Outcome
<1> QED BY <1>7, <1>8

LEMMA NoFault ==
  ASSUME NEW all, DOMAIN all = 1 .. Len(all), NEW reg, TagsTo(reg, all, Len(all))
  PROVE  /\ Outcome(all) = "none" /\ DOMAIN reg = {Key(all[i]) : i \in DOMAIN all}
         /\ \A i \in DOMAIN all : Declares(all[i], reg[Key(all[i])])
<1>1. \A i \in DOMAIN all : FaultAt(all, i) = "none"
  BY DEF TagsTo
<1> QED BY <1>1 DEF TagsTo, Outcome

\* A tag that is at fault is the first.
LEMMA FailsFirst ==
  ASSUME Walking, Reading, Tagged, NEW what, Fails(what),
         \A all : \A r : TagsTo(registry, all, r) /\ all[r + 1] = Field /\ Field \in AnyField /\ r \in Nat =>
           FaultAt(all, r + 1) = what /\ what # "none"
  PROVE  Reading'
<1>1. phase = "tags" /\ AtField("tags") /\ ~IsFlattened /\ ~Untagged(Field) /\ given' = given
  BY DEF Tagged, Collecting, AtField
<1>2. phase' = "failed" /\ error' = what /\ registry' = registry
  BY DEF Fails
<1>3. PICK all : all = Filters[given.filters]
  OBVIOUS
<1>4. all \in Seq(AnyField)
  BY <1>3, FiltersAre DEF Walking
<1>5. PICK start : Placed(all, start, stack) /\ TagsTo(registry, all, Position(start, stack))
  BY <1>1, <1>3 DEF Reading
<1>6. PICK r : r = Position(start, stack)
  OBVIOUS
<1>7. Field \in AnyField /\ r \in Nat /\ r + 1 \in 1 .. Len(all) /\ DOMAIN all = 1 .. Len(all) /\ all[r + 1] = Field
  BY <1>1, <1>4, <1>5, <1>6, TagHere DEF Walking
<1>8. FaultAt(all, r + 1) = what /\ what # "none"
  BY <1>5, <1>6, <1>7
<1>9. Len(all) \in Nat
  BY <1>4, LenProperties
<1>10. Outcome(all) = what
  BY <1>5, <1>6, <1>7, <1>8, <1>9, FirstFault
<1>11. FirstTagFault'
  BY <1>1, <1>2, <1>3, <1>10 DEF FirstTagFault
<1>12. RegistryOfTheTags'
  BY <1>2 DEF RegistryOfTheTags
<1> QED BY <1>2, <1>11, <1>12 DEF Reading
LEMMA BadTagReads == ASSUME Walking, Reading, BadTag PROVE Reading'
<1>1. PICK f : f = Field
  OBVIOUS
<1>2. Tagged /\ ParseFilterTag(f).fault # "none" /\ Fails(ParseFilterTag(f).fault)
  BY <1>1 DEF BadTag
<1>3. ASSUME NEW all, NEW r, TagsTo(registry, all, r), all[r + 1] = f, f \in AnyField, r \in Nat
      PROVE  FaultAt(all, r + 1) = ParseFilterTag(f).fault
  <2>1. ParseFilterTag(f).fault = OwnFault(f)
    BY <1>3, ParsesTag
  <2>2. OwnFault(all[r + 1]) # "none"
    BY <1>2, <1>3, <2>1
  <2> QED BY <1>3, <2>1, <2>2, FaultOf
<1> QED BY <1>1, <1>2, <1>3, FailsFirst

LEMMA DuplicateReads == ASSUME Walking, Reading, Duplicate PROVE Reading'
<1>1. PICK f : f = Field
  OBVIOUS
<1>2. Tagged /\ ParseFilterTag(f).fault = "none" /\ Key(f) \in DOMAIN registry /\ Fails("duplicate")
  BY <1>1 DEF Duplicate
<1>3. ASSUME NEW all, NEW r, TagsTo(registry, all, r), all[r + 1] = f, f \in AnyField, r \in Nat
      PROVE  FaultAt(all, r + 1) = "duplicate"
  <2>1. OwnFault(f) = "none"
    BY <1>2, <1>3, ParsesTag
  <2>2. PICK j \in 1 .. r : Key(all[j]) = Key(f)
    BY <1>2, <1>3 DEF TagsTo
  <2>3. PICK m : m = r + 1
    OBVIOUS
  <2>4. m - 1 = r /\ all[m] = f
    BY <1>3, <2>3
  <2>5. \E i \in 1 .. m - 1 : Key(all[i]) = Key(all[m])
    BY <2>2, <2>4
  <2>6. FaultAt(all, m) = "duplicate"
    BY <2>1, <2>4, <2>5, FaultOf
  <2> QED BY <2>3, <2>6
<1> QED BY <1>1, <1>2, <1>3, FailsFirst

LEMMA CollectReads == ASSUME Walking, Reading, Collect PROVE Reading'
<1>1. PICK f : f = Field
  OBVIOUS
<1>2. PICK field : field = ParseFilterTag(f).field
  OBVIOUS
<1>3. /\ phase = "tags" /\ AtField("tags") /\ ~IsFlattened /\ ~Untagged(Field) /\ given' = given
      /\ ParseFilterTag(f).fault = "none" /\ Key(f) \notin DOMAIN registry
      /\ registry' = Put(registry, Key(f), field) /\ stack' = Onward /\ phase' = "tags" /\ error' = error
  BY <1>1, <1>2 DEF Collect, Tagged, Collecting, AtField
<1>4. PICK all : all = Filters[given.filters]
  OBVIOUS
<1>5. all \in Seq(AnyField) /\ WalkOf(given.filters, stack) /\ Frames(stack)
  BY <1>3, <1>4, FiltersAre DEF Walking, WalkOf
<1>6. PICK start : Placed(all, start, stack) /\ TagsTo(registry, all, Position(start, stack))
  BY <1>3, <1>4 DEF Reading
<1>7. PICK r : r = Position(start, stack)
  OBVIOUS
<1>8. f \in AnyField /\ r \in Nat /\ all[r + 1] = f
  BY <1>1, <1>3, <1>5, <1>6, <1>7, TagHere
<1>9. OwnFault(f) = "none" /\ Declares(f, field)
  BY <1>2, <1>3, <1>8, ParsesTag
<1>10. TagsTo(registry', all, r + 1)
  BY <1>3, <1>6, <1>7, <1>8, <1>9, CollectOne
<1>11. PICK n : n = Len(stack)
  OBVIOUS
<1>12. PICK t : t = stack[n].type
  OBVIOUS
<1>13. PICK k : k = stack[n].next
  OBVIOUS
<1>14. k <= Len(Struct[t]) /\ Field = Struct[t][k]
  BY <1>3, <1>11, <1>12, <1>13 DEF AtField, Current, Last, Field
<1>15. Part(t, k) = <<f>>
  BY <1>1, <1>3, <1>14 DEF Part, Inlined, IsFlattened, EmbedsStruct
<1>16. Len(Part(t, k)) = 1
  BY <1>15, IsSeqOne
<1>17. Advanced(stack, stack')
  BY <1>3, <1>5, OnwardAdvances
<1>18. Placed(all, start, stack') /\ Position(start, stack') = r + 1
  <2>1. WalkOf(given.filters, stack) /\ Placed(all, start, stack) /\ k <= Len(Struct[t])
    BY <1>5, <1>6, <1>14
  <2>2. Placed(all, start, stack') /\ Position(start, stack') = Position(start, stack) + Len(Part(t, k))
    BY <1>11, <1>12, <1>13, <1>17, <2>1, OnwardPlaced
  <2> QED BY <1>7, <1>16, <2>2
<1>19. \E s : Placed(all, s, stack') /\ TagsTo(registry', all, Position(s, stack'))
  BY <1>10, <1>18
<1>20. error = "none"
  BY <1>3 DEF Reading
<1> QED BY <1>3, <1>4, <1>19, <1>20 DEF Reading, FirstTagFault, RegistryOfTheTags

\* A field is passed over, an embedded struct entered, or left.
LEMMA WalkReads ==
  ASSUME NoBaseIsSkipped, Walking, Reading, Flatten \/ SkipField \/ Collected
  PROVE  Reading'
<1>1. phase = "tags" /\ phase' = "tags" /\ given' = given /\ registry' = registry /\ error' = error
  BY DEF Flatten, SkipField, Collected, Collecting, AtField, Leave, AtEnd
<1>2. PICK all : all = Filters[given.filters]
  OBVIOUS
<1>3. WalkOf(given.filters, stack) /\ Frames(stack)
  BY <1>1 DEF Walking, WalkOf
<1>4. PICK start : Placed(all, start, stack) /\ TagsTo(registry, all, Position(start, stack))
  BY <1>1, <1>2 DEF Reading
<1>5. PICK n : n = Len(stack)
  OBVIOUS
<1>6. PICK t : t = stack[n].type
  OBVIOUS
<1>7. PICK k : k = stack[n].next
  OBVIOUS
<1>8. Current = stack[n] /\ Field = Struct[t][k]
  BY <1>5, <1>6, <1>7 DEF Current, Last, Field
<1>9. PICK r : r = Position(start, stack)
  OBVIOUS
<1>10. \E s : Placed(all, s, stack') /\ Position(s, stack') = r
  <2>1. CASE Flatten
    <3>1. /\ k <= Len(Struct[t]) /\ stack' = Within
          /\ LET f == Struct[t][k] IN f.anonymous /\ f.go = "struct" /\ f.type # TimeType
      BY <1>6, <1>7, <1>8, <2>1 DEF Flatten, Collecting, AtField, IsFlattened, EmbedsStruct
    <3>2. Struct[t][k] \in AnyField
      BY <1>3, <1>4, <1>5, <1>6, <1>7, <3>1, HerePlaced
    <3>3. Inlined(Struct[t][k])
      BY <3>1, <3>2 DEF NoBaseIsSkipped, Inlined
    <3>4. Entered(stack, stack')
      BY <1>3, <3>1, WithinEnters
    <3> QED BY <1>3, <1>4, <1>5, <1>6, <1>7, <1>9, <3>1, <3>3, <3>4, WithinPlaced
  <2>2. CASE SkipField
    <3>1. k <= Len(Struct[t]) /\ stack' = Onward /\ ~Inlined(Struct[t][k]) /\ Untagged(Struct[t][k])
      BY <1>6, <1>7, <1>8, <2>2 DEF SkipField, Collecting, AtField, IsFlattened, EmbedsStruct, Inlined
    <3>2. Advanced(stack, stack')
      BY <1>3, <3>1, OnwardAdvances
    <3>3. Part(t, k) = <<>>
      BY <3>1 DEF Part
    <3>4. Len(Part(t, k)) = 0
      BY <3>3
    <3>5. Placed(all, start, stack') /\ Position(start, stack') = r + 0
      BY <1>3, <1>4, <1>5, <1>6, <1>7, <1>9, <3>1, <3>2, <3>4, OnwardPlaced
    <3>6. r \in Nat
      BY <1>3, <1>4, <1>5, <1>6, <1>7, <1>9, <3>1, HerePlaced
    <3> QED BY <3>5, <3>6
  <2>3. CASE Collected
    <3>1. n > 1 /\ k > Len(Struct[t]) /\ stack' = Front(stack)
      BY <1>5, <1>6, <1>7, <1>8, <2>3 DEF Collected, Leave, AtEnd
    <3>2. Placed(all, start, Front(stack)) /\ Position(start, Front(stack)) = Position(start, stack)
      BY <1>3, <1>4, <1>5, <1>6, <1>7, <3>1, FrontPlaced
    <3> QED BY <1>9, <3>1, <3>2
  <2> QED BY <2>1, <2>2, <2>3
<1>11. error = "none"
  BY <1>1 DEF Reading
<1> QED BY <1>1, <1>2, <1>4, <1>9, <1>10, <1>11 DEF Reading, FirstTagFault, RegistryOfTheTags

LEMMA FromStructReads == ASSUME Walking, Reading, FromStruct PROVE Reading'
<1>1. /\ phase = "tags" /\ phase' = "columns" /\ given' = given /\ registry' = registry /\ error' = error
      /\ Len(stack) = 1 /\ Current.next > Len(Struct[Current.type])
  BY DEF FromStruct, AtEnd
<1>2. PICK all : all = Filters[given.filters]
  OBVIOUS
<1>3. WalkOf(given.filters, stack) /\ stack[1].type = given.filters /\ given.filters \in DOMAIN Struct
  BY <1>1 DEF Walking, WalkOf
<1>4. PICK start : Placed(all, start, stack) /\ TagsTo(registry, all, Position(start, stack))
  BY <1>1, <1>2 DEF Reading
<1>5. PICK t : t = stack[1].type
  OBVIOUS
<1>6. stack[1].next > Len(Struct[t]) /\ Filters[t] = all
  BY <1>1, <1>2, <1>3, <1>5 DEF Current, Last
<1>7. Position(start, stack) = start[1] + Len(all)
  <2>1. PICK n : n = Len(stack)
    OBVIOUS
  <2>2. n = 1 /\ t = stack[n].type /\ stack[n].next > Len(Struct[t])
    BY <1>1, <1>5, <1>6, <2>1
  <2>3. WalkOf(given.filters, stack) /\ Placed(all, start, stack)
    BY <1>3, <1>4
  <2>4. t = stack[n].type /\ stack[n].next > Len(Struct[t])
    BY <2>2
  <2>5. Position(start, stack) = start[n] + Len(Filters[t])
    BY <2>1, <2>3, <2>4, AtEndPlaced
  <2> QED BY <1>6, <2>2, <2>5
<1>8. start[1] = 0
  BY <1>4 DEF Placed
<1>9. all \in Seq(AnyField)
  BY <1>2, <1>3, FiltersAre
<1>10. Len(all) \in Nat /\ DOMAIN all = 1 .. Len(all)
  BY <1>9, LenProperties
<1>11. TagsTo(registry, all, Len(all))
  BY <1>4, <1>7, <1>8, <1>10
<1>12. /\ Outcome(all) = "none" /\ DOMAIN registry = {Key(all[i]) : i \in DOMAIN all}
       /\ \A i \in DOMAIN all : Declares(all[i], registry[Key(all[i])])
  BY <1>10, <1>11, NoFault
<1>13. error = "none"
  BY <1>1 DEF Reading
<1>14. FirstTagFault'
  BY <1>1, <1>2, <1>12, <1>13 DEF FirstTagFault
<1>15. RegistryOfTheTags'
  BY <1>1, <1>2, <1>12 DEF RegistryOfTheTags
<1> QED BY <1>1, <1>14, <1>15 DEF Reading

LEMMA NextReading == ASSUME NoBaseIsSkipped PROVE Walking /\ Reading /\ [Next]_vars => Reading'
<1> SUFFICES ASSUME Walking, Reading, [Next]_vars PROVE Reading'
  OBVIOUS
<1>1. CASE Walk \/ NoColumn \/ AddColumn \/ Walked \/ For \/ ScanRow
  <2>1. UNCHANGED <<given, registry, error>>
    BY <1>1 DEF Walk, NoColumn, AddColumn, Walked, For, ScanRow, Indexing
  <2>2. phase \in {"columns", "ready"} /\ phase' \in {"columns", "ready", "scanned", "panic"}
    BY <1>1 DEF Walk, NoColumn, AddColumn, Walked, For, ScanRow, Indexing, AtField, Leave, AtEnd
  <2> QED BY <2>1, <2>2 DEF Reading, FirstTagFault, RegistryOfTheTags
<1>2. CASE UNCHANGED vars
  BY <1>2 DEF vars, Reading, FirstTagFault, RegistryOfTheTags
<1> QED
  BY <1>1, <1>2, BadTagReads, DuplicateReads, CollectReads, WalkReads, FromStructReads DEF Next

LEMMA InitReading == Init => Reading
<1> SUFFICES ASSUME Init PROVE Reading
  OBVIOUS
<1>1. PICK t : t = given.filters
  OBVIOUS
<1>2. PICK calls : calls = <<Call(t, <<>>)>>
  OBVIOUS
<1>3. phase = "tags" /\ error = "none" /\ stack = calls /\ DOMAIN registry = {} /\ t \in DOMAIN Struct
  BY <1>1, <1>2, StructAssumption DEF Init
<1>4. Len(calls) = 1 /\ calls[1].type = t /\ calls[1].next = 1
  BY <1>2, CallIsFrame
<1>5. PICK all : all = Filters[t]
  OBVIOUS
<1>6. Len(all) \in Nat
  BY <1>3, <1>5, FiltersAre, LenProperties
<1> DEFINE start == [i \in 1 .. 1 |-> 0]
<1>7. start[1] = 0
  OBVIOUS
<1> HIDE DEF start
<1>8. Occurs(all, all, 0)
  BY <1>6 DEF Occurs
<1>9. Placed(all, start, calls)
  BY <1>4, <1>5, <1>7, <1>8 DEF Placed
<1>10. Position(start, calls) = 0
  <2>1. PICK m : m = Len(Struct[t])
    OBVIOUS
  <2>2. PICK g : g = Cut(t)
    OBVIOUS
  <2>3. g[0] = 0
    BY <1>3, <2>1, <2>2, CutAt
  <2>4. 1 - 1 = 0 /\ 0 + 0 = 0
    OBVIOUS
  <2> QED BY <1>4, <1>7, <2>2, <2>3, <2>4 DEF Position
<1>11. TagsTo(registry, all, 0)
  <2>1. 1 .. 0 = {}
    OBVIOUS
  <2> QED BY <1>3, <2>1 DEF TagsTo
<1>12. FirstTagFault /\ RegistryOfTheTags
  BY <1>3 DEF FirstTagFault, RegistryOfTheTags
<1> QED BY <1>1, <1>3, <1>5, <1>9, <1>10, <1>11, <1>12 DEF Reading

\* If no embedded struct is tagged "-", FromStruct reports the first fault in reading
\* order, and only a fault there is, however deep the types are embedded
\* (fromstruct.go:65-97).
THEOREM FirstFaultReported == ASSUME NoBaseIsSkipped PROVE Spec => []FirstTagFault
<1>1. (Walking /\ Reading) /\ [Next]_vars => (Walking /\ Reading)'
  BY NextWalking, NextReading
<1>2. Reading => FirstTagFault
  BY DEF Reading
<1> QED BY InitWalking, InitReading, <1>1, <1>2, PTL DEF Spec

\* Then the registry has every tag reached through embedding, each as it declares
\* itself, and nothing else (fromstruct.go:18-38, 99-190).
THEOREM RegistryComplete == ASSUME NoBaseIsSkipped PROVE Spec => []RegistryOfTheTags
<1>1. (Walking /\ Reading) /\ [Next]_vars => (Walking /\ Reading)'
  BY NextWalking, NextReading
<1>2. Reading => RegistryOfTheTags
  BY DEF Reading
<1> QED BY InitWalking, InitReading, <1>1, <1>2, PTL DEF Spec
(***************************************************************************)
(* The walk over the columns passes every sort key that the other walk     *)
(* finds: names has the columns of those that are done.                    *)
(***************************************************************************)
Done(t, k, names) == \A f \in ToSet(Part(t, k)) : CursorKey(f) => f.db \in names

KeysIn(t, names) == \A f \in ToSet(Filters[t]) : CursorKey(f) => f.db \in names

\* The field that a call inside another is for is not done.
Covering(calls, names) ==
  \A i \in 1 .. Len(calls) : \A k \in 1 .. calls[i].next - 1 :
    i = Len(calls) \/ k # calls[i].next - 1 => Done(calls[i].type, k, names)

Keyed ==
  /\ phase = "columns" => Covering(stack, DOMAIN colIndex)
  /\ phase \in {"ready", "scanned"} => KeysIn(given.rows, DOMAIN colIndex)

LEMMA AllDone ==
  ASSUME NEW t \in DOMAIN Struct, NEW names, \A k \in 1 .. Len(Struct[t]) : Done(t, k, names)
  PROVE  KeysIn(t, names)
<1>1. PICK s : s = Parts(t)
  OBVIOUS
<1>2. s \in Seq(Seq(AnyField)) /\ Filters[t] = FlattenSeq(s)
  BY <1>1, FiltersAre
<1>3. ToSet(Filters[t]) = UNION {ToSet(s[i]) : i \in DOMAIN s}
  BY <1>2, FlattenElements
<1>4. DOMAIN s = 1 .. Len(Struct[t]) /\ \A i \in 1 .. Len(Struct[t]) : s[i] = Part(t, i)
  BY <1>1, StructSeqs DEF Parts
<1> QED BY <1>3, <1>4 DEF KeysIn, Done

LEMMA ToSetOne == ASSUME NEW x PROVE ToSet(<<x>>) = {x}
<1>1. PICK s : s = <<x>>
  OBVIOUS
<1>2. IsSeq(s) /\ Len(s) = 1 /\ s[1] = x
  BY <1>1, IsSeqOne
<1>3. DOMAIN s = 1 .. 1
  BY <1>2, IsSeqLen
<1>4. ToSet(s) = {s[i] : i \in 1 .. 1}
  BY <1>3 DEF ToSet
<1> QED BY <1>1, <1>2, <1>4

\* What a field holds is itself, nothing, or what the type it embeds holds.
LEMMA ToSetPart ==
  ASSUME NEW t, NEW k, NEW f, f = Struct[t][k]
  PROVE  IF Inlined(f) THEN ToSet(Part(t, k)) = ToSet(Filters[f.type]) ELSE ToSet(Part(t, k)) \subseteq {f}
<1>1. Part(t, k) = IF Inlined(f) THEN Filters[f.type] ELSE IF Untagged(f) THEN <<>> ELSE <<f>>
  BY DEF Part
<1>2. PICK none : none = <<>>
  OBVIOUS
<1>3. ToSet(none) = {}
  BY <1>2 DEF ToSet
<1>4. ToSet(<<f>>) = {f}
  BY ToSetOne
<1> QED BY <1>1, <1>2, <1>3, <1>4

\* An embedded time has no column, and is no sort key of the row.
LEMMA EmbedDone ==
  ASSUME NEW t, NEW k, NEW names, NEW f, f = Struct[t][k], f.anonymous, f.go = "struct", KeysIn(f.type, names)
  PROVE  Done(t, k, names)
<1>1. CASE Inlined(f)
  BY <1>1, ToSetPart DEF Done, KeysIn
<1>2. CASE ~Inlined(f)
  <2>1. ~CursorKey(f)
    BY DEF CursorKey
  <2> QED BY <1>2, <2>1, ToSetPart DEF Done
<1> QED BY <1>1, <1>2

LEMMA FieldDone ==
  ASSUME NEW t, NEW k, NEW names, NEW f, f = Struct[t][k], ~(f.anonymous /\ f.go = "struct"),
         f.db \in {"", "-"} \/ f.db \in names
  PROVE  Done(t, k, names)
<1>1. ~Inlined(f)
  BY DEF Inlined
<1>2. CursorKey(f) => f.db \in names
  BY DEF CursorKey
<1> QED BY <1>1, <1>2, ToSetPart DEF Done

LEMMA OnwardCovers ==
  ASSUME NEW root, NEW calls, WalkOf(root, calls), NEW names, Covering(calls, names), NEW wider, names \subseteq wider,
         NEW n, n = Len(calls), Done(calls[n].type, calls[n].next, wider), NEW more, Advanced(calls, more)
  PROVE  Covering(more, wider)
<1>1. n \in Nat \ {0}
  BY FramesLen DEF WalkOf
<1>2. Len(more) = n /\ more[n].type = calls[n].type /\ more[n].next = calls[n].next + 1
  BY DEF Advanced
<1>3. \A i \in 1 .. n : i # n => more[i] = calls[i]
  BY DEF Advanced
<1>4. PICK t : t = calls[n].type
  OBVIOUS
<1>5. PICK next : next = calls[n].next
  OBVIOUS
<1>6. next \in Nat
  <2>1. t \in DOMAIN Struct /\ next \in 1 .. Len(Struct[t]) + 1
    BY <1>1, <1>4, <1>5 DEF WalkOf, Typed
  <2>2. Len(Struct[t]) \in Nat
    BY <2>1, StructSeqs
  <2> QED BY <2>1, <2>2
<1>7. \A u, k : Done(u, k, names) => Done(u, k, wider)
  BY DEF Done
<1>8. ASSUME NEW k \in 1 .. next PROVE Done(t, k, wider)
  <2>1. CASE k = next
    BY <1>4, <1>5, <2>1
  <2>2. CASE k # next
    <3>1. k \in 1 .. next - 1
      BY <1>6, <2>2
    <3>2. Done(t, k, names)
      BY <1>1, <1>4, <1>5, <3>1 DEF Covering
    <3> QED BY <1>7, <3>2
  <2> QED BY <2>1, <2>2
<1>9. more[n].next - 1 = next
  BY <1>2, <1>5, <1>6
<1> SUFFICES ASSUME NEW i \in 1 .. n, NEW k \in 1 .. more[i].next - 1, i = n \/ k # more[i].next - 1
             PROVE  Done(more[i].type, k, wider)
  BY <1>2 DEF Covering
<1>10. CASE i = n
  BY <1>2, <1>4, <1>8, <1>9, <1>10
<1>11. CASE i # n
  <2>1. more[i] = calls[i]
    BY <1>3, <1>11
  <2>2. Done(calls[i].type, k, names)
    BY <1>11, <2>1 DEF Covering
  <2> QED BY <1>7, <2>1, <2>2
<1> QED BY <1>10, <1>11

LEMMA WithinCovers ==
  ASSUME NEW root, NEW calls, WalkOf(root, calls), NEW names, Covering(calls, names), NEW more, Entered(calls, more)
  PROVE  Covering(more, names)
<1>1. PICK n : n = Len(calls)
  OBVIOUS
<1>2. n \in Nat \ {0}
  BY <1>1, FramesLen DEF WalkOf
<1>3. PICK u : u = Struct[calls[n].type][calls[n].next].type
  OBVIOUS
<1>4. PICK q : q = Append(calls[n].at, calls[n].next)
  OBVIOUS
<1>5. Len(more) = n + 1 /\ more[n + 1] = Call(u, q)
  BY <1>1, <1>3, <1>4 DEF Entered
<1>6. more[n + 1].next = 1
  <2>1. Call(u, q).next = 1
    BY CallIsFrame
  <2> QED BY <1>5, <2>1
<1>7. more[n].type = calls[n].type /\ more[n].next = calls[n].next + 1 /\ \A i \in 1 .. n : i # n => more[i] = calls[i]
  BY <1>1 DEF Entered
<1>8. PICK next : next = calls[n].next
  OBVIOUS
<1>9. next \in Nat
  <2>1. calls[n].type \in DOMAIN Struct /\ next \in 1 .. Len(Struct[calls[n].type]) + 1
    BY <1>1, <1>2, <1>8 DEF WalkOf, Typed
  <2>2. Len(Struct[calls[n].type]) \in Nat
    BY <2>1, StructSeqs
  <2> QED BY <2>1, <2>2
<1> SUFFICES ASSUME NEW i \in 1 .. n + 1, NEW k \in 1 .. more[i].next - 1, i = n + 1 \/ k # more[i].next - 1
             PROVE  Done(more[i].type, k, names)
  BY <1>5 DEF Covering
<1>10. i # n + 1
  BY <1>6
<1>11. i \in 1 .. n
  BY <1>2, <1>10
<1>12. CASE i = n
  <2>1. more[i].next - 1 = next
    BY <1>7, <1>8, <1>9, <1>12
  <2>2. k \in 1 .. next - 1
    BY <1>9, <1>10, <2>1
  <2>3. Done(calls[n].type, k, names)
    BY <1>1, <1>8, <1>11, <1>12, <2>2 DEF Covering
  <2> QED BY <1>7, <1>12, <2>3
<1>13. CASE i # n
  <2>1. more[i] = calls[i]
    BY <1>7, <1>11, <1>13
  <2> QED BY <1>1, <1>10, <1>11, <2>1 DEF Covering
<1> QED BY <1>12, <1>13

LEMMA EndCovers ==
  ASSUME NEW root, NEW calls, WalkOf(root, calls), NEW names, Covering(calls, names),
         NEW n, n = Len(calls), NEW u, u = calls[n].type, calls[n].next > Len(Struct[u])
  PROVE  KeysIn(u, names) /\ n \in Nat \ {0}
<1>1. n \in Nat \ {0}
  BY FramesLen DEF WalkOf
<1>2. u \in DOMAIN Struct /\ calls[n].next \in 1 .. Len(Struct[u]) + 1
  BY <1>1 DEF WalkOf, Typed
<1>3. PICK m : m = Len(Struct[u])
  OBVIOUS
<1>4. m \in Nat
  BY <1>2, <1>3, StructSeqs
<1>5. calls[n].next - 1 = m
  BY <1>2, <1>3, <1>4
<1>6. \A k \in 1 .. m : Done(u, k, names)
  BY <1>1, <1>5 DEF Covering
<1>7. KeysIn(u, names)
  BY <1>2, <1>3, <1>6, AllDone
<1> QED BY <1>1, <1>7

LEMMA FrontCovers ==
  ASSUME NEW root, NEW calls, WalkOf(root, calls), NEW names, Covering(calls, names),
         NEW n, n = Len(calls), n > 1, NEW u, u = calls[n].type, calls[n].next > Len(Struct[u])
  PROVE  Covering(Front(calls), names)
<1>1. KeysIn(u, names) /\ n \in Nat \ {0}
  BY EndCovers
<1>2. PICK fewer : fewer = Front(calls)
  OBVIOUS
<1>3. Len(fewer) = n - 1 /\ \A i \in 1 .. n - 1 : fewer[i] = calls[i]
  BY <1>2, FrontReturns DEF WalkOf
<1> SUFFICES ASSUME NEW i \in 1 .. n - 1, NEW k \in 1 .. calls[i].next - 1, i = n - 1 \/ k # calls[i].next - 1
             PROVE  Done(calls[i].type, k, names)
  BY <1>2, <1>3 DEF Covering
<1>4. i \in 1 .. n /\ i # n
  BY <1>1
<1>5. CASE k # calls[i].next - 1
  BY <1>4, <1>5 DEF Covering
<1>6. CASE k = calls[i].next - 1
  <2>1. i = n - 1 /\ i + 1 = n
    BY <1>1, <1>6
  <2>2. IsFor(calls[i], u)
    BY <1>4, <2>1 DEF WalkOf, Nested
  <2>3. PICK t : t = calls[i].type
    OBVIOUS
  <2>4. PICK f : f = Struct[t][k]
    OBVIOUS
  <2>5. f.anonymous /\ f.go = "struct" /\ f.type = u
    BY <1>6, <2>2, <2>3, <2>4 DEF IsFor
  <2>6. Done(t, k, names)
    BY <1>1, <2>4, <2>5, EmbedDone
  <2> QED BY <2>3, <2>6
<1> QED BY <1>5, <1>6
LEMMA NextKeyed == Walking /\ Keyed /\ [Next]_vars => Keyed'
<1> SUFFICES ASSUME Walking, Keyed, [Next]_vars PROVE Keyed'
  OBVIOUS
<1>1. CASE Flatten \/ SkipField \/ BadTag \/ Duplicate \/ Collect \/ Collected
  <2>1. phase' \in {"tags", "failed"}
    BY <1>1 DEF Flatten, SkipField, BadTag, Duplicate, Collect, Collected, Tagged, Collecting, Fails, AtField,
      Leave, AtEnd
  <2> QED BY <2>1 DEF Keyed
<1>2. CASE FromStruct
  <2>1. phase' = "columns" /\ stack' = <<Call(given.rows, <<>>)>>
    BY <1>2 DEF FromStruct
  <2>2. PICK calls : calls = <<Call(given.rows, <<>>)>>
    OBVIOUS
  <2>3. Len(calls) = 1 /\ calls[1].next = 1
    BY <2>2, CallIsFrame
  <2>4. Covering(calls, DOMAIN colIndex')
    BY <2>3 DEF Covering
  <2> QED BY <2>1, <2>2, <2>4 DEF Keyed
<1>3. CASE Walk \/ NoColumn \/ AddColumn
  <2>1. phase = "columns" /\ phase' = phase /\ given' = given
    BY <1>3 DEF Walk, NoColumn, AddColumn, Indexing, AtField
  <2>2. PICK names : names = DOMAIN colIndex
    OBVIOUS
  <2>3. WalkOf(given.rows, stack) /\ Frames(stack) /\ Covering(stack, names)
    BY <2>1, <2>2 DEF Walking, WalkOf, Keyed
  <2>4. PICK n : n = Len(stack)
    OBVIOUS
  <2>5. PICK t : t = stack[n].type
    OBVIOUS
  <2>6. PICK k : k = stack[n].next
    OBVIOUS
  <2>7. PICK f : f = Struct[t][k]
    OBVIOUS
  <2>8. Field = f
    BY <2>4, <2>5, <2>6, <2>7 DEF Field, Current, Last
  <2>9. CASE Walk
    <3>1. stack' = Within /\ colIndex' = colIndex
      BY <2>9 DEF Walk
    <3>2. Entered(stack, stack')
      BY <2>3, <3>1, WithinEnters
    <3>3. Covering(stack', names)
      BY <2>3, <3>2, WithinCovers
    <3> QED BY <2>1, <2>2, <3>1, <3>3 DEF Keyed
  <2>10. CASE NoColumn \/ AddColumn
    <3>1. stack' = Onward /\ ~(f.anonymous /\ f.go = "struct")
      BY <2>8, <2>10 DEF NoColumn, AddColumn, EmbedsStruct
    <3>2. PICK wider : wider = DOMAIN colIndex'
      OBVIOUS
    <3>3. names \subseteq wider /\ (f.db \in {"", "-"} \/ f.db \in wider)
      <4>1. CASE NoColumn
        BY <2>2, <2>8, <3>2, <4>1 DEF NoColumn
      <4>2. CASE AddColumn
        BY <2>2, <2>8, <3>2, <4>2 DEF AddColumn, Put
      <4> QED BY <2>10, <4>1, <4>2
    <3>4. Done(stack[n].type, stack[n].next, wider)
      <4>1. Done(t, k, wider)
        BY <2>7, <3>1, <3>3, FieldDone
      <4> QED BY <2>5, <2>6, <4>1
    <3>5. Advanced(stack, stack')
      BY <2>3, <3>1, OnwardAdvances
    <3>6. Covering(stack', wider)
      BY <2>3, <2>4, <3>3, <3>4, <3>5, OnwardCovers
    <3> QED BY <2>1, <3>2, <3>6 DEF Keyed
  <2> QED BY <1>3, <2>9, <2>10
<1>4. CASE Walked
  <2>1. phase = "columns" /\ phase' = phase /\ given' = given /\ colIndex' = colIndex
    BY <1>4 DEF Walked, Leave, AtEnd
  <2>2. PICK names : names = DOMAIN colIndex
    OBVIOUS
  <2>3. WalkOf(given.rows, stack) /\ Covering(stack, names)
    BY <2>1, <2>2 DEF Walking, Keyed
  <2>4. PICK n : n = Len(stack)
    OBVIOUS
  <2>5. PICK u : u = stack[n].type
    OBVIOUS
  <2>6. n > 1 /\ stack[n].next > Len(Struct[u]) /\ stack' = Front(stack)
    BY <1>4, <2>4, <2>5 DEF Walked, Leave, AtEnd, Current, Last
  <2>7. Covering(Front(stack), names)
    BY <2>3, <2>4, <2>5, <2>6, FrontCovers
  <2> QED BY <2>1, <2>2, <2>6, <2>7 DEF Keyed
<1>5. CASE For
  <2>1. phase = "columns" /\ phase' \in {"ready", "panic"} /\ given' = given /\ colIndex' = colIndex
    BY <1>5 DEF For, AtEnd
  <2>2. PICK names : names = DOMAIN colIndex
    OBVIOUS
  <2>3. WalkOf(given.rows, stack) /\ Covering(stack, names) /\ stack[1].type = given.rows
    BY <2>1, <2>2 DEF Walking, WalkOf, Keyed
  <2>4. PICK n : n = Len(stack)
    OBVIOUS
  <2>5. PICK u : u = stack[n].type
    OBVIOUS
  <2>6. n = 1 /\ stack[n].next > Len(Struct[u])
    BY <1>5, <2>4, <2>5 DEF For, AtEnd, Current, Last
  <2>7. WalkOf(given.rows, stack) /\ Covering(stack, names) /\ stack[n].next > Len(Struct[u])
    BY <2>3, <2>6
  <2>8. KeysIn(u, names)
    BY <2>4, <2>5, <2>7, EndCovers
  <2>9. u = given.rows
    BY <2>3, <2>5, <2>6
  <2> QED BY <2>1, <2>2, <2>8, <2>9 DEF Keyed
<1>6. CASE ScanRow
  BY <1>6 DEF ScanRow, Keyed
<1>7. CASE UNCHANGED vars
  BY <1>7 DEF vars, Keyed
<1> QED
  BY <1>1, <1>2, <1>3, <1>4, <1>5, <1>6, <1>7 DEF Next

LEMMA KeyedColumnsRead == Walking /\ Fitting /\ Keyed => CursorKeysAreRead
<1> SUFFICES ASSUME Walking, Fitting, Keyed, phase \in {"ready", "scanned"}, given.filters = given.rows,
                    NEW all, all = Filters[given.filters], NEW i \in DOMAIN all, CursorKey(all[i])
             PROVE  all[i].db \in DOMAIN colIndex /\ all[i].db \in ToSet(columns)
  BY DEF CursorKeysAreRead
<1>1. all[i] \in ToSet(all)
  BY DEF ToSet
<1>2. KeysIn(given.filters, DOMAIN colIndex)
  BY DEF Keyed
<1>3. all[i].db \in DOMAIN colIndex
  BY <1>1, <1>2 DEF KeysIn
<1> QED BY <1>3 DEF Fitting, Indexed

\* A sort key whose own field has the db tag of its column is read from the row,
\* wherever both walks find it (typed.go:43-69, 309-327).
THEOREM CursorKeysRead == Spec => []CursorKeysAreRead
<1>1. (Walking /\ Fitting /\ Keyed) /\ [Next]_vars => (Walking /\ Fitting /\ Keyed)'
  BY NextWalking, NextFitting, NextKeyed
<1>2. Init => Keyed
  BY DEF Init, Keyed
<1> QED BY InitWalking, InitFitting, <1>1, <1>2, KeyedColumnsRead, PTL DEF Spec
=============================================================================
