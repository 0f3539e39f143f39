--------------------------- MODULE ProcessingProofs ---------------------------
(* Proofs about the middle pass, for files of any size. *)
EXTENDS Processing, Induction, SequenceTheorems, TLAPS

-----------------------------------------------------------------------------
(* Loops *)

\* The loops of the passes: h[i] is what they hold after i elements.
OnlyIs(h, S, kept, elems) ==
  /\ h \in [0 .. Len(elems) -> Seq(S)] /\ h[0] = <<>>
  /\ \A i \in 1 .. Len(elems) :
       h[i] = IF i \in kept THEN Append(h[i - 1], elems[i]) ELSE h[i - 1]
  /\ Only(kept, elems) = h[Len(elems)]

EmittedIs(h, elems) ==
  /\ h \in [0 .. Len(elems) -> Seq(Objects \cup Markers)] /\ h[0] = <<>>
  /\ \A i \in 1 .. Len(elems) : h[i] = Emit(elems, h[i - 1], i)
  /\ Emitted(elems) = h[Len(elems)]

Accumulators == [out : Seq(Objects \cup Paragraphs), para : Seq(Objects), paras : Nat]
NoneGathered == [out |-> <<>>, para |-> <<>>, paras |-> 0]
GatheredIs(h, d, elems) ==
  /\ h \in [0 .. Len(elems) -> Accumulators] /\ h[0] = NoneGathered
  /\ \A i \in 1 .. Len(elems) : h[i] = Gather(d, h[i - 1], elems[i])
  /\ Gathered(d, elems) = h[Len(elems)]

LEMMA OnlyLoop ==
  ASSUME NEW S, NEW elems \in Seq(S), NEW kept
  PROVE  \E h : OnlyIs(h, S, kept, elems)
<1> DEFINE N == Len(elems)
           A == Seq(S)
           step == [i \in 1 .. N |-> [a \in A |-> IF i \in kept THEN Append(a, elems[i]) ELSE a]]
           Unfold(h) == [i \in 0 .. N |-> IF i = 0 THEN <<>>
                           ELSE IF i \in kept THEN Append(h[i - 1], elems[i]) ELSE h[i - 1]]
<1>1. N \in Nat /\ N = Len(elems) /\ <<>> \in A /\ \A i \in 1 .. N : elems[i] \in S
  BY LenProperties, ElementOfSeq, EmptySeq
<1>2. \A i \in 1 .. N : \A a \in A : Append(a, elems[i]) \in A
  BY <1>1, AppendProperties
<1>3. step \in [1 .. N -> [A -> A]]
  BY <1>2
<1>4. \A i \in 1 .. N : \A a \in A : step[i][a] = IF i \in kept THEN Append(a, elems[i]) ELSE a
  OBVIOUS
<1>5. Only(kept, elems) = (CHOOSE h : h = Unfold(h))[N]
  BY DEF Only
<1> HIDE DEF N, A, step
<1>6. PICK g : Loop(g, N, A, <<>>, step)
  BY <1>1, <1>3, Iterates
<1>7. ASSUME NEW i \in 0 .. N, i # 0
      PROVE  g[i] = IF i \in kept THEN Append(g[i - 1], elems[i]) ELSE g[i - 1]
  <2>1. i \in 1 .. N /\ i - 1 \in 0 .. N
    BY <1>1, <1>7
  <2>2. g[i - 1] \in A
    BY <1>6, <2>1 DEF Loop
  <2> QED BY <1>4, <1>6, <2>1, <2>2 DEF Loop
<1>8. g = Unfold(g)
  BY <1>6, <1>7 DEF Loop
<1> DEFINE h == CHOOSE h : h = Unfold(h)
<1>9. h = Unfold(h)
  BY <1>8
<1> HIDE DEF h
<1>10. h[0] = <<>>
  BY <1>1, <1>9
<1>11. ASSUME NEW i \in 1 .. N
       PROVE  h[i] = IF i \in kept THEN Append(h[i - 1], elems[i]) ELSE h[i - 1]
  <2>1. i \in 0 .. N /\ i # 0
    BY <1>1
  <2> QED BY <1>9, <2>1
<1>12. \A i \in 1 .. N : h[i - 1] \in A => h[i] \in A
  BY <1>2, <1>11
<1>13. h \in [0 .. N -> A]
  <2>1. h = [i \in 0 .. N |-> h[i]]
    BY <1>9
  <2> QED BY <1>1, <1>10, <1>12, <2>1, LoopStays
<1>14. Only(kept, elems) = h[N]
  BY <1>5 DEF h
<1>15. OnlyIs(h, S, kept, elems)
  BY <1>1, <1>10, <1>11, <1>13, <1>14 DEF A, OnlyIs
<1> QED BY <1>15

LEMMA EmitTyped ==
  ASSUME NEW elems \in Seq(Objects), NEW h \in Seq(Objects \cup Markers), NEW i \in 1 .. Len(elems)
  PROVE  Emit(elems, h, i) \in Seq(Objects \cup Markers)
<1>1. PICK o : o = elems[i] /\ o \in Objects
  BY ElementOfSeq
<1>2. o.at \in Nat
  BY <1>1 DEF Objects
<1>3. Text(Space, o.at) \in Objects
  BY <1>2, StringsAssumption DEF Objects, Text
<1>4. BreakMarker(o.at) \in Markers
  BY <1>2 DEF Markers, BreakMarker
<1>5. MarkOnce(h, o.at) \in Seq(Objects \cup Markers)
  BY <1>4, AppendProperties DEF MarkOnce
<1>6. Append(h, o) \in Seq(Objects \cup Markers) /\ Append(h, Text(Space, o.at)) \in Seq(Objects \cup Markers)
  BY <1>1, <1>3, AppendProperties
<1> QED BY <1>1, <1>5, <1>6 DEF Emit

LEMMA EmittedLoop ==
  ASSUME NEW elems \in Seq(Objects)
  PROVE  \E h : EmittedIs(h, elems)
<1> DEFINE N == Len(elems)
           A == Seq(Objects \cup Markers)
           step == [i \in 1 .. N |-> [a \in A |-> Emit(elems, a, i)]]
           Unfold(h) == [i \in 0 .. N |-> IF i = 0 THEN <<>> ELSE Emit(elems, h[i - 1], i)]
<1>1. N \in Nat /\ N = Len(elems) /\ <<>> \in A
  BY LenProperties, EmptySeq
<1>2. \A i \in 1 .. N : \A a \in A : Emit(elems, a, i) \in A
  BY EmitTyped
<1>3. step \in [1 .. N -> [A -> A]]
  BY <1>2
<1>4. \A i \in 1 .. N : \A a \in A : step[i][a] = Emit(elems, a, i)
  OBVIOUS
<1>5. Emitted(elems) = (CHOOSE h : h = Unfold(h))[N]
  BY DEF Emitted
<1> HIDE DEF N, A, step
<1>6. PICK g : Loop(g, N, A, <<>>, step)
  BY <1>1, <1>3, Iterates
<1>7. ASSUME NEW i \in 0 .. N, i # 0
      PROVE  g[i] = Emit(elems, g[i - 1], i)
  <2>1. i \in 1 .. N /\ i - 1 \in 0 .. N
    BY <1>1, <1>7
  <2>2. g[i - 1] \in A
    BY <1>6, <2>1 DEF Loop
  <2> QED BY <1>4, <1>6, <2>1, <2>2 DEF Loop
<1>8. g = Unfold(g)
  BY <1>6, <1>7 DEF Loop
<1> DEFINE h == CHOOSE h : h = Unfold(h)
<1>9. h = Unfold(h)
  BY <1>8
<1> HIDE DEF h
<1>10. h[0] = <<>>
  BY <1>1, <1>9
<1>11. ASSUME NEW i \in 1 .. N
       PROVE  h[i] = Emit(elems, h[i - 1], i)
  <2>1. i \in 0 .. N /\ i # 0
    BY <1>1
  <2> QED BY <1>9, <2>1
<1>12. \A i \in 1 .. N : h[i - 1] \in A => h[i] \in A
  BY <1>2, <1>11
<1>13. h \in [0 .. N -> A]
  <2>1. h = [i \in 0 .. N |-> h[i]]
    BY <1>9
  <2> QED BY <1>1, <1>10, <1>12, <2>1, LoopStays
<1>14. Emitted(elems) = h[N]
  BY <1>5 DEF h
<1>15. EmittedIs(h, elems)
  BY <1>1, <1>10, <1>11, <1>13, <1>14 DEF A, EmittedIs
<1> QED BY <1>15

LEMMA FlushTyped ==
  ASSUME NEW a \in Accumulators
  PROVE  /\ Flush(a) \in Accumulators /\ Flush(a).para = <<>>
         /\ Flush(a).out = IF a.para = <<>> THEN a.out ELSE Append(a.out, MakePara(a.para))
         /\ Flush(a).paras = IF a.para = <<>> THEN a.paras ELSE a.paras + 1
<1>1. a.out \in Seq(Objects \cup Paragraphs) /\ a.para \in Seq(Objects) /\ a.paras \in Nat
  BY DEF Accumulators
<1>2. MakePara(a.para) \in Paragraphs
  BY <1>1 DEF MakePara, Paragraphs
<1>3. Append(a.out, MakePara(a.para)) \in Seq(Objects \cup Paragraphs)
  BY <1>1, <1>2, AppendProperties
<1>4. <<>> \in Seq(Objects) /\ a.paras + 1 \in Nat
  BY <1>1, EmptySeq
<1>5. CASE a.para = <<>>
  BY <1>5 DEF Flush
<1>6. CASE a.para # <<>>
  <2> HIDE DEF MakePara
  <2>1. PICK x : x = Append(a.out, MakePara(a.para)) /\ x \in Seq(Objects \cup Paragraphs)
    BY <1>3
  <2>2. Flush(a) = [out |-> x, para |-> <<>>, paras |-> a.paras + 1]
    BY <1>6, <2>1 DEF Flush
  <2> QED BY <1>4, <1>6, <2>1, <2>2 DEF Accumulators
<1> QED BY <1>5, <1>6

\* What an object is shows in its kind.
LEMMA Kinds ==
  /\ \A o \in Objects : o.at \in Nat /\ o.kind \in {"text", "node"} /\ ~IsBreakMarker(o) /\ ~IsPara(o)
  /\ \A o \in Markers : /\ o.at \in Nat /\ o.kind = "marker" /\ IsBreakMarker(o) /\ ~IsPara(o)
                         /\ ~IsWhitespace(o) /\ ~IsNewline(o) /\ \A d : ~IsBlock(d, o)
  /\ \A o \in Paragraphs : /\ o.kind = "para" /\ IsPara(o) /\ ~IsBreakMarker(o) /\ ~IsWhitespace(o)
                            /\ o.elems \in Seq(Objects) /\ \A d : IsBlock(d, o)
BY DEF Objects, Markers, Paragraphs, IsBreakMarker, IsPara, IsWhitespace, IsNewline, IsText, IsBlock

LEMMA NewObjects ==
  /\ \A s, at : Text(s, at).kind = "text" /\ Text(s, at).text = s /\ Text(s, at).at = at
  /\ \A at : BreakMarker(at).kind = "marker" /\ BreakMarker(at).at = at
  /\ \A elems : MakePara(elems).kind = "para" /\ MakePara(elems).elems = elems
BY DEF Text, BreakMarker, MakePara

LEMMA GatherTyped ==
  ASSUME NEW d, NEW a \in Accumulators, NEW o \in Objects \cup Markers
  PROVE  Gather(d, a, o) \in Accumulators
<1>1. a.out \in Seq(Objects \cup Paragraphs) /\ a.para \in Seq(Objects) /\ a.paras \in Nat
  BY DEF Accumulators
<1>2. CASE IsBreakMarker(o)
  <2>1. ~IsBlock(d, o)
    BY <1>2, Kinds
  <2>2. Gather(d, a, o) = Flush(a)
    BY <1>2, <2>1 DEF Gather
  <2> QED BY <2>2, FlushTyped
<1>3. CASE ~IsBreakMarker(o)
  <2>1. o \in Objects
    BY <1>3, Kinds
  <2>2. PICK f : f = Flush(a) /\ f \in Accumulators
    BY FlushTyped
  <2>3. PICK x : x = Append(f.out, o) /\ x \in Seq(Objects \cup Paragraphs)
    BY <2>1, <2>2, AppendProperties DEF Accumulators
  <2>4. PICK y : y = Append(a.para, o) /\ y \in Seq(Objects)
    BY <1>1, <2>1, AppendProperties
  <2>5. [f EXCEPT !.out = x] \in Accumulators /\ [a EXCEPT !.para = y] \in Accumulators
    BY <1>1, <2>2, <2>3, <2>4 DEF Accumulators
  <2>6. Gather(d, a, o) = IF IsBlock(d, o) THEN [f EXCEPT !.out = x] ELSE [a EXCEPT !.para = y]
    BY <1>3, <2>2, <2>3, <2>4 DEF Gather
  <2> QED BY <2>5, <2>6
<1> QED BY <1>2, <1>3

LEMMA GatheredLoop ==
  ASSUME NEW d, NEW elems \in Seq(Objects \cup Markers)
  PROVE  \E h : GatheredIs(h, d, elems)
<1> DEFINE N == Len(elems)
           A == Accumulators
           start == NoneGathered
           step == [i \in 1 .. N |-> [a \in A |-> Gather(d, a, elems[i])]]
           Unfold(h) == [i \in 0 .. N |-> IF i = 0 THEN start ELSE Gather(d, h[i - 1], elems[i])]
<1>1. N \in Nat /\ N = Len(elems) /\ start \in A /\ \A i \in 1 .. N : elems[i] \in Objects \cup Markers
  <2>1. <<>> \in Seq(Objects \cup Paragraphs) /\ <<>> \in Seq(Objects)
    BY EmptySeq
  <2>2. start \in A
    BY <2>1 DEF Accumulators, NoneGathered
  <2> QED BY <2>2, LenProperties, ElementOfSeq
<1>2. \A i \in 1 .. N : \A a \in A : Gather(d, a, elems[i]) \in A
  BY <1>1, GatherTyped
<1>3. step \in [1 .. N -> [A -> A]]
  BY <1>2
<1>4. \A i \in 1 .. N : \A a \in A : step[i][a] = Gather(d, a, elems[i])
  OBVIOUS
<1>5. Gathered(d, elems) = (CHOOSE h : h = Unfold(h))[N]
  BY DEF Gathered, NoneGathered
<1> HIDE DEF N, A, step, start
<1>6. PICK g : Loop(g, N, A, start, step)
  BY <1>1, <1>3, Iterates
<1>7. ASSUME NEW i \in 0 .. N, i # 0
      PROVE  g[i] = Gather(d, g[i - 1], elems[i])
  <2>1. i \in 1 .. N /\ i - 1 \in 0 .. N
    BY <1>1, <1>7
  <2>2. g[i - 1] \in A
    BY <1>6, <2>1 DEF Loop
  <2> QED BY <1>4, <1>6, <2>1, <2>2 DEF Loop
<1>8. g = Unfold(g)
  BY <1>6, <1>7 DEF Loop
<1> DEFINE h == CHOOSE h : h = Unfold(h)
<1>9. h = Unfold(h)
  BY <1>8
<1> HIDE DEF h
<1>10. h[0] = start
  BY <1>1, <1>9
<1>11. ASSUME NEW i \in 1 .. N
       PROVE  h[i] = Gather(d, h[i - 1], elems[i])
  <2>1. i \in 0 .. N /\ i # 0
    BY <1>1
  <2> QED BY <1>9, <2>1
<1>12. \A i \in 1 .. N : h[i - 1] \in A => h[i] \in A
  BY <1>2, <1>11
<1>13. h \in [0 .. N -> A]
  <2>1. h = [i \in 0 .. N |-> h[i]]
    BY <1>9
  <2> QED BY <1>1, <1>10, <1>12, <2>1, LoopStays
<1>14. Gathered(d, elems) = h[N]
  BY <1>5 DEF h
<1>15. GatheredIs(h, d, elems)
  BY <1>1, <1>10, <1>11, <1>13, <1>14 DEF A, start, GatheredIs
<1> QED BY <1>15

-----------------------------------------------------------------------------
(* Filtering *)

\* r has the elements at the positions in kept, up to n, in their order.
PicksOut(at, r, kept, elems, n) ==
  /\ at \in [1 .. Len(r) -> 1 .. n]
  /\ \A x \in 1 .. Len(r) : at[x] \in kept /\ r[x] = elems[at[x]]
  /\ \A x, y \in 1 .. Len(r) : x < y => at[x] < at[y]
  /\ \A k \in 1 .. n : k \in kept => \E x \in 1 .. Len(r) : at[x] = k

LEMMA PickNext ==
  ASSUME NEW S, NEW r \in Seq(S), NEW elems \in Seq(S), NEW kept, NEW i \in Nat,
         i + 1 \in 1 .. Len(elems), NEW at, PicksOut(at, r, kept, elems, i),
         NEW t, t = IF i + 1 \in kept THEN Append(r, elems[i + 1]) ELSE r
  PROVE  \E b : PicksOut(b, t, kept, elems, i + 1)
<1>1. CASE i + 1 \notin kept
  <2>1. at \in [1 .. Len(r) -> 1 .. i + 1]
    BY DEF PicksOut
  <2>2. \A k \in 1 .. i + 1 : k \in kept => k \in 1 .. i
    BY <1>1
  <2>3. PicksOut(at, r, kept, elems, i + 1)
    BY <2>1, <2>2 DEF PicksOut
  <2> QED BY <1>1, <2>3
<1>2. CASE i + 1 \in kept
  <2>1. PICK o : o = elems[i + 1] /\ o \in S
    BY ElementOfSeq
  <2>2. PICK n \in Nat : n = Len(r)
    BY LenProperties
  <2>3. Len(t) = n + 1 /\ t[n + 1] = o /\ \A x \in 1 .. n : t[x] = r[x]
    BY <1>2, <2>1, <2>2, AppendProperties
  <2> DEFINE b == [x \in 1 .. n + 1 |-> IF x = n + 1 THEN i + 1 ELSE at[x]]
  <2>4. \A x \in 1 .. n + 1 : x # n + 1 => x \in 1 .. n /\ at[x] \in 1 .. i
    BY <2>2 DEF PicksOut
  <2>5. b \in [1 .. n + 1 -> 1 .. i + 1]
    <3>1. \A x \in 1 .. n + 1 : (IF x = n + 1 THEN i + 1 ELSE at[x]) \in 1 .. i + 1
      BY <2>4
    <3> QED BY <3>1
  <2>6. b[n + 1] = i + 1 /\ \A x \in 1 .. n : b[x] = at[x]
    OBVIOUS
  <2> HIDE DEF b
  <2>7. ASSUME NEW x \in 1 .. n + 1 PROVE b[x] \in kept /\ t[x] = elems[b[x]]
    <3>1. CASE x = n + 1
      BY <1>2, <2>1, <2>3, <2>6, <3>1
    <3>2. CASE x # n + 1
      BY <2>2, <2>3, <2>4, <2>6, <3>2 DEF PicksOut
    <3> QED BY <3>1, <3>2
  <2>8. ASSUME NEW x \in 1 .. n + 1, NEW y \in 1 .. n + 1, x < y PROVE b[x] < b[y]
    <3>1. x \in 1 .. n /\ b[x] = at[x] /\ at[x] \in 1 .. i
      BY <2>4, <2>6, <2>8
    <3>2. CASE y = n + 1
      BY <2>6, <3>1, <3>2
    <3>3. CASE y # n + 1
      <4>1. y \in 1 .. n
        BY <3>3
      <4> QED BY <2>2, <2>6, <2>8, <3>1, <4>1 DEF PicksOut
    <3> QED BY <3>2, <3>3
  <2>9. ASSUME NEW k \in 1 .. i + 1, k \in kept PROVE \E x \in 1 .. n + 1 : b[x] = k
    <3>1. CASE k = i + 1
      BY <2>6, <3>1
    <3>2. CASE k # i + 1
      <4>1. PICK x \in 1 .. n : at[x] = k
        BY <2>2, <2>9, <3>2 DEF PicksOut
      <4>2. x \in 1 .. n + 1
        OBVIOUS
      <4> QED BY <2>6, <4>1, <4>2
    <3> QED BY <3>1, <3>2
  <2>10. PicksOut(b, t, kept, elems, i + 1)
    BY <2>3, <2>5, <2>7, <2>8, <2>9 DEF PicksOut
  <2> QED BY <2>10
<1> QED BY <1>1, <1>2

LEMMA OnlyFacts ==
  ASSUME NEW S, NEW elems \in Seq(S), NEW kept
  PROVE  /\ Only(kept, elems) \in Seq(S)
         /\ \E at : PicksOut(at, Only(kept, elems), kept, elems, Len(elems))
<1>1. PICK h : OnlyIs(h, S, kept, elems)
  BY OnlyLoop
<1>2. PICK N \in Nat : N = Len(elems)
  BY LenProperties
<1> DEFINE T == {i \in Nat : i <= N => \E at : PicksOut(at, h[i], kept, elems, i)}
<1>3. 0 \in T
  <2>1. h[0] = <<>> /\ Len(h[0]) = 0
    BY <1>1 DEF OnlyIs
  <2> DEFINE none == [x \in 1 .. 0 |-> 1]
  <2>2. none \in [1 .. 0 -> 1 .. 0] /\ \A x \in 1 .. 0 : FALSE
    OBVIOUS
  <2> HIDE DEF none
  <2>3. PicksOut(none, h[0], kept, elems, 0)
    BY <2>1, <2>2 DEF PicksOut
  <2> QED BY <2>3
<1>4. ASSUME NEW i \in Nat, i \in T PROVE i + 1 \in T
  <2> SUFFICES ASSUME i + 1 <= N PROVE \E at : PicksOut(at, h[i + 1], kept, elems, i + 1)
    OBVIOUS
  <2>1. i + 1 \in 1 .. N /\ i \in 0 .. N /\ (i + 1) - 1 = i
    OBVIOUS
  <2>2. PICK at : PicksOut(at, h[i], kept, elems, i)
    BY <1>4
  <2>3. h[i] \in Seq(S) /\ h[i + 1] = IF i + 1 \in kept THEN Append(h[i], elems[i + 1]) ELSE h[i]
    BY <1>1, <1>2, <2>1 DEF OnlyIs
  <2> QED BY <1>2, <2>1, <2>2, <2>3, PickNext
<1> HIDE DEF T
<1>5. N \in T
  BY <1>3, <1>4, Induct
<1>6. N \in 0 .. N
  OBVIOUS
<1>7. Only(kept, elems) = h[N] /\ h[N] \in Seq(S)
  BY <1>1, <1>2, <1>6 DEF OnlyIs
<1> QED BY <1>2, <1>5, <1>7 DEF T

-----------------------------------------------------------------------------
(* After the first two passes: part of the input, in its order.             *)

\* The elements of a node of the input know their places.
IsSource(before) ==
  before \in Seq(Objects) /\ \A i \in 1 .. Len(before) : before[i].at = i

Ordered(elems) == \A x, y \in 1 .. Len(elems) : x < y => elems[x].at < elems[y].at

\* elems is what is left of before, and no content is missing.
Filtered(before, elems) ==
  /\ elems \in Seq(Objects) /\ Ordered(elems)
  /\ \A x \in 1 .. Len(elems) :
       elems[x].at \in 1 .. Len(before) /\ elems[x] = before[elems[x].at]
  /\ \A k \in 1 .. Len(before) :
       ~IsWhitespace(before[k]) => \E x \in 1 .. Len(elems) : elems[x].at = k

\* Of the whitespace all newlines are left, and nothing else.
KeepsLines(before, elems) ==
  /\ \A x \in 1 .. Len(elems) : Kept(elems[x])
  /\ \A k \in 1 .. Len(before) :
       IsNewline(before[k]) => \E x \in 1 .. Len(elems) : elems[x].at = k

LEMMA SourceFiltered ==
  ASSUME NEW before, IsSource(before)
  PROVE  Filtered(before, before)
BY DEF IsSource, Filtered, Ordered

LEMMA OnlyFiltered ==
  ASSUME NEW before, NEW e, IsSource(before), Filtered(before, e), NEW kept,
         \A z \in 1 .. Len(e) : ~IsWhitespace(e[z]) => z \in kept
  PROVE  LET r == Only(kept, e)
         IN /\ Filtered(before, r)
            /\ \A x \in 1 .. Len(r) : \E z \in 1 .. Len(e) : z \in kept /\ r[x] = e[z]
            /\ \A z \in 1 .. Len(e) : z \in kept => \E x \in 1 .. Len(r) : r[x] = e[z]
<1>1. PICK r : r = Only(kept, e)
  OBVIOUS
<1>2. e \in Seq(Objects) /\ Len(e) \in Nat
  BY LenProperties DEF Filtered
<1>3. r \in Seq(Objects) /\ \E at : PicksOut(at, r, kept, e, Len(e))
  BY <1>1, <1>2, OnlyFacts
<1>4. PICK at : PicksOut(at, r, kept, e, Len(e))
  BY <1>3
<1>5. \A x \in 1 .. Len(r) : at[x] \in 1 .. Len(e) /\ at[x] \in kept /\ r[x] = e[at[x]]
  BY <1>4 DEF PicksOut
<1>6. \A z \in 1 .. Len(e) : z \in kept => \E x \in 1 .. Len(r) : r[x] = e[z]
  BY <1>4 DEF PicksOut
<1>7. Ordered(r)
  <2> SUFFICES ASSUME NEW x \in 1 .. Len(r), NEW y \in 1 .. Len(r), x < y
               PROVE  r[x].at < r[y].at
    BY DEF Ordered
  <2>1. at[x] < at[y]
    BY <1>4 DEF PicksOut
  <2> QED BY <1>5, <2>1 DEF Filtered, Ordered
<1>8. ASSUME NEW x \in 1 .. Len(r)
      PROVE  r[x].at \in 1 .. Len(before) /\ r[x] = before[r[x].at]
  BY <1>5 DEF Filtered
<1>9. ASSUME NEW k \in 1 .. Len(before), ~IsWhitespace(before[k])
      PROVE  \E x \in 1 .. Len(r) : r[x].at = k
  <2>1. PICK z \in 1 .. Len(e) : e[z].at = k
    BY <1>9 DEF Filtered
  <2>2. e[z] = before[k]
    BY <2>1 DEF Filtered
  <2>3. PICK x \in 1 .. Len(r) : r[x] = e[z]
    BY <1>6, <1>9, <2>2
  <2> QED BY <2>1, <2>3
<1>10. Filtered(before, r)
  BY <1>3, <1>7, <1>8, <1>9 DEF Filtered
<1> QED BY <1>1, <1>5, <1>6, <1>10

\* Only newlines are left of the whitespace.
LEMMA SpacesGone ==
  ASSUME NEW before, NEW e, IsSource(before), Filtered(before, e)
  PROVE  LET r == WithoutSpaces(e)
         IN /\ Filtered(before, r)
            /\ e = before => KeepsLines(before, r)
<1>1. PICK r : r = WithoutSpaces(e)
  OBVIOUS
<1> DEFINE kept == {i \in DOMAIN e : Kept(e[i])}
<1>2. r = Only(kept, e)
  BY <1>1 DEF WithoutSpaces
<1>3. e \in Seq(Objects) /\ Len(e) \in Nat /\ DOMAIN e = 1 .. Len(e)
  BY LenProperties DEF Filtered
<1>4. \A z \in 1 .. Len(e) : z \in kept <=> Kept(e[z])
  BY <1>3
<1>5. \A z \in 1 .. Len(e) : ~IsWhitespace(e[z]) => z \in kept
  BY <1>4 DEF Kept
<1> HIDE DEF kept
<1>6. /\ Filtered(before, r)
      /\ \A x \in 1 .. Len(r) : \E z \in 1 .. Len(e) : z \in kept /\ r[x] = e[z]
      /\ \A z \in 1 .. Len(e) : z \in kept => \E x \in 1 .. Len(r) : r[x] = e[z]
  BY <1>2, <1>5, OnlyFiltered
<1>7. ASSUME e = before PROVE KeepsLines(before, r)
  <2>1. \A x \in 1 .. Len(r) : Kept(r[x])
    BY <1>4, <1>6
  <2>2. ASSUME NEW k \in 1 .. Len(before), IsNewline(before[k])
        PROVE  \E x \in 1 .. Len(r) : r[x].at = k
    <3>1. k \in kept
      BY <1>4, <1>7, <2>2 DEF Kept
    <3>2. PICK x \in 1 .. Len(r) : r[x] = before[k]
      BY <1>6, <1>7, <3>1
    <3> QED BY <3>2 DEF IsSource
  <2> QED BY <2>1, <2>2 DEF KeepsLines
<1> QED BY <1>1, <1>6, <1>7

-----------------------------------------------------------------------------
(* processLinebreaksHelper *)

\* The newline at k is followed by another.
Joins(e, k) == IsNewline(e[k]) /\ k < Len(e) /\ IsNewline(e[k + 1])

\* o is what can have been emitted for the element at k.
From(e, o, k) ==
  \/ ~IsNewline(e[k]) /\ o = e[k]
  \/ IsNewline(e[k]) /\ ~Joins(e, k) /\ o = Text(Space, e[k].at)
  \/ Joins(e, k) /\ o = BreakMarker(e[k].at)

\* h is what has been emitted for the first i elements: what is not a newline, a
\* space for the last newline of each run, and a marker for each run of several,
\* which stands behind all that came before the run.
EmittedInv(e, h, i) ==
  /\ h \in Seq(Objects \cup Markers) /\ Ordered(h)
  /\ \A x \in 1 .. Len(h) : \E k \in 1 .. i : From(e, h[x], k)
  /\ \A k \in 1 .. i : ~IsNewline(e[k]) => \E x \in 1 .. Len(h) : h[x] = e[k]
  /\ \A k \in 1 .. i : IsNewline(e[k]) /\ ~Joins(e, k) =>
       \E x \in 1 .. Len(h) : h[x] = Text(Space, e[k].at)
  /\ \A k \in 1 .. i : Joins(e, k) /\ (\E j \in 1 .. k : ~IsNewline(e[j])) =>
       \E x \in 1 .. Len(h) :
         /\ IsBreakMarker(h[x]) /\ h[x].at <= e[k].at
         /\ \A j \in 1 .. k : ~IsNewline(e[j]) => e[j].at < h[x].at

LEMMA FromAt ==
  ASSUME NEW e, NEW o, NEW k, From(e, o, k)
  PROVE  o.at = e[k].at
<1>1. CASE o = e[k]
  BY <1>1
<1>2. CASE o = Text(Space, e[k].at)
  BY <1>2, NewObjects
<1>3. CASE o = BreakMarker(e[k].at)
  BY <1>3, NewObjects
<1> QED BY <1>1, <1>2, <1>3, Zenon DEF From

\* Something is emitted for the element at i + 1.
LEMMA EmitPush ==
  ASSUME NEW e \in Seq(Objects), Ordered(e), NEW i \in Nat, i + 1 \in 1 .. Len(e),
         NEW h, EmittedInv(e, h, i), NEW o \in Objects \cup Markers, From(e, o, i + 1),
         NEW t, t = Append(h, o)
  PROVE  EmittedInv(e, t, i + 1)
<1>a. h \in Seq(Objects \cup Markers)
  BY DEF EmittedInv
<1>1. PICK n \in Nat : n = Len(h)
  BY <1>a, LenProperties
<1>2. t \in Seq(Objects \cup Markers) /\ Len(t) = n + 1 /\ t[n + 1] = o /\ \A x \in 1 .. n : t[x] = h[x]
  BY <1>a, <1>1, AppendProperties
<1>b. \A x \in 1 .. n : x \in 1 .. n + 1
  OBVIOUS
<1>3. \A x \in 1 .. n : x \in 1 .. n + 1 /\ \E k \in 1 .. i : From(e, h[x], k)
  BY <1>b, <1>1, Zenon DEF EmittedInv
<1>4. o.at = e[i + 1].at /\ o.at \in Nat
  BY FromAt, Kinds
<1>5. \A k \in 1 .. i : k \in 1 .. Len(e) /\ e[k] \in Objects /\ e[k].at \in Nat /\ e[k].at < e[i + 1].at
  <2> TAKE k \in 1 .. i
  <2>1. Len(e) \in Nat
    BY LenProperties
  <2>2. k \in 1 .. Len(e) /\ k < i + 1
    BY <2>1
  <2>3. e[k] \in Objects
    BY <2>2, ElementOfSeq
  <2> QED BY <2>2, <2>3, Kinds DEF Ordered
<1>6. \A x \in 1 .. n : h[x].at < o.at
  BY <1>3, <1>4, <1>5, FromAt
<1>7. Ordered(t)
  <2> SUFFICES ASSUME NEW x \in 1 .. n + 1, NEW y \in 1 .. n + 1, x < y PROVE t[x].at < t[y].at
    BY <1>2 DEF Ordered
  <2>1. x \in 1 .. n
    OBVIOUS
  <2>2. CASE y = n + 1
    BY <1>2, <1>6, <2>1, <2>2
  <2>3. CASE y # n + 1
    <3>1. y \in 1 .. n
      BY <2>3
    <3> QED BY <1>1, <1>2, <2>1, <3>1 DEF EmittedInv, Ordered
  <2> QED BY <2>2, <2>3
<1>8. \A x \in 1 .. n + 1 : \E k \in 1 .. i + 1 : From(e, t[x], k)
  <2> TAKE x \in 1 .. n + 1
  <2>1. CASE x = n + 1
    BY <1>2, <2>1
  <2>2. CASE x # n + 1
    <3>1. x \in 1 .. n
      BY <2>2
    <3>2. PICK k \in 1 .. i : From(e, h[x], k)
      BY <1>3, <3>1
    <3>3. k \in 1 .. i + 1
      OBVIOUS
    <3> QED BY <1>2, <3>1, <3>2, <3>3
  <2> QED BY <2>1, <2>2
<1>9. n + 1 \in 1 .. n + 1 /\ \A k \in 1 .. i + 1 : k = i + 1 \/ k \in 1 .. i
  OBVIOUS
<1>10. \A k \in 1 .. i + 1 : ~IsNewline(e[k]) => \E x \in 1 .. n + 1 : t[x] = e[k]
  <2> SUFFICES ASSUME NEW k \in 1 .. i + 1, ~IsNewline(e[k]) PROVE \E x \in 1 .. n + 1 : t[x] = e[k]
    OBVIOUS
  <2>1. CASE k = i + 1
    BY <1>2, <1>9, <2>1 DEF From, Joins
  <2>2. CASE k \in 1 .. i
    <3>1. PICK x \in 1 .. n : h[x] = e[k]
      BY <1>1, <2>2 DEF EmittedInv
    <3> QED BY <1>2, <1>3, <3>1
  <2> QED BY <1>9, <2>1, <2>2
<1>11. \A k \in 1 .. i + 1 : IsNewline(e[k]) /\ ~Joins(e, k) =>
         \E x \in 1 .. n + 1 : t[x] = Text(Space, e[k].at)
  <2> SUFFICES ASSUME NEW k \in 1 .. i + 1, IsNewline(e[k]), ~Joins(e, k)
               PROVE  \E x \in 1 .. n + 1 : t[x] = Text(Space, e[k].at)
    OBVIOUS
  <2>1. CASE k = i + 1
    BY <1>2, <1>9, <2>1 DEF From
  <2>2. CASE k \in 1 .. i
    <3>1. PICK x \in 1 .. n : h[x] = Text(Space, e[k].at)
      BY <1>1, <2>2 DEF EmittedInv
    <3> QED BY <1>2, <1>3, <3>1
  <2> QED BY <1>9, <2>1, <2>2
<1>12. \A k \in 1 .. i + 1 : Joins(e, k) /\ (\E j \in 1 .. k : ~IsNewline(e[j])) =>
         \E x \in 1 .. n + 1 :
           /\ IsBreakMarker(t[x]) /\ t[x].at <= e[k].at
           /\ \A j \in 1 .. k : ~IsNewline(e[j]) => e[j].at < t[x].at
  <2> SUFFICES ASSUME NEW k \in 1 .. i + 1, Joins(e, k), \E j \in 1 .. k : ~IsNewline(e[j])
               PROVE  \E x \in 1 .. n + 1 :
                        /\ IsBreakMarker(t[x]) /\ t[x].at <= e[k].at
                        /\ \A j \in 1 .. k : ~IsNewline(e[j]) => e[j].at < t[x].at
    OBVIOUS
  <2>1. CASE k = i + 1
    <3>1. IsBreakMarker(o)
      BY <2>1, NewObjects DEF From, Joins, IsBreakMarker
    <3>2. \A j \in 1 .. k : ~IsNewline(e[j]) => e[j].at < o.at
      BY <1>4, <1>5, <1>9, <2>1 DEF Joins
    <3>3. o.at <= e[k].at
      BY <1>4, <2>1
    <3> QED BY <1>2, <1>9, <3>1, <3>2, <3>3
  <2>2. CASE k \in 1 .. i
    <3>1. PICK x \in 1 .. n :
            /\ IsBreakMarker(h[x]) /\ h[x].at <= e[k].at
            /\ \A j \in 1 .. k : ~IsNewline(e[j]) => e[j].at < h[x].at
      BY <1>1, <2>2 DEF EmittedInv
    <3> QED BY <1>2, <1>3, <3>1
  <2> QED BY <1>9, <2>1, <2>2
<1> QED BY <1>2, <1>7, <1>8, <1>10, <1>11, <1>12 DEF EmittedInv

\* The newline at i + 1 belongs to a run that has its marker, or begins the text.
LEMMA EmitSkip ==
  ASSUME NEW e \in Seq(Objects), Ordered(e), NEW i \in Nat, i + 1 \in 1 .. Len(e),
         NEW h, EmittedInv(e, h, i), Joins(e, i + 1), h = <<>> \/ IsBreakMarker(h[Len(h)])
  PROVE  EmittedInv(e, h, i + 1)
<1>1. PICK n \in Nat : n = Len(h)
  BY LenProperties DEF EmittedInv
<1>2. \A k \in 1 .. i + 1 : k = i + 1 \/ k \in 1 .. i
  OBVIOUS
<1>3. \A x \in 1 .. n : \E k \in 1 .. i + 1 : From(e, h[x], k)
  <2> TAKE x \in 1 .. n
  <2>1. PICK k \in 1 .. i : From(e, h[x], k)
    BY <1>1 DEF EmittedInv
  <2>2. k \in 1 .. i + 1
    OBVIOUS
  <2> QED BY <2>1, <2>2
<1>4. IsNewline(e[i + 1])
  BY DEF Joins
<1>5. ASSUME \E j \in 1 .. i + 1 : ~IsNewline(e[j])
      PROVE  \E x \in 1 .. n :
               /\ IsBreakMarker(h[x]) /\ h[x].at <= e[i + 1].at
               /\ \A j \in 1 .. i + 1 : ~IsNewline(e[j]) => e[j].at < h[x].at
  <2>1. PICK j0 \in 1 .. i : ~IsNewline(e[j0])
    BY <1>2, <1>4, <1>5
  <2>2. PICK x0 \in 1 .. n : h[x0] = e[j0]
    BY <1>1, <2>1 DEF EmittedInv
  <2>3. h # <<>>
    BY <1>1, <2>2, EmptySeq
  <2>4. n \in 1 .. n /\ IsBreakMarker(h[n])
    BY <1>1, <2>2, <2>3
  <2>5. ASSUME NEW j \in 1 .. i + 1, ~IsNewline(e[j]) PROVE e[j].at < h[n].at
    <3>1. j \in 1 .. i
      BY <1>2, <1>4, <2>5
    <3>2. PICK x \in 1 .. n : h[x] = e[j]
      BY <1>1, <2>5, <3>1 DEF EmittedInv
    <3>3. j \in 1 .. Len(e)
      BY <3>1, LenProperties
    <3>4. ~IsBreakMarker(e[j])
      BY <3>3, ElementOfSeq, Kinds
    <3>5. x # n
      BY <2>4, <3>2, <3>4
    <3>6. x < n
      BY <3>5
    <3> QED BY <1>1, <2>4, <3>2, <3>6 DEF EmittedInv, Ordered
  <2>6. h[n].at <= e[i + 1].at
    <3>1. PICK k \in 1 .. i : From(e, h[n], k)
      BY <1>1, <2>4 DEF EmittedInv
    <3>2. k \in 1 .. Len(e) /\ k < i + 1
      BY LenProperties
    <3>3. e[k] \in Objects /\ e[i + 1] \in Objects
      BY <3>2, ElementOfSeq
    <3>4. e[k].at < e[i + 1].at /\ e[k].at \in Nat /\ e[i + 1].at \in Nat
      BY <3>2, <3>3, Kinds DEF Ordered
    <3> QED BY <3>1, <3>4, FromAt
  <2> QED BY <2>4, <2>5, <2>6
<1>6. \A k \in 1 .. i + 1 : Joins(e, k) /\ (\E j \in 1 .. k : ~IsNewline(e[j])) =>
         \E x \in 1 .. n :
           /\ IsBreakMarker(h[x]) /\ h[x].at <= e[k].at
           /\ \A j \in 1 .. k : ~IsNewline(e[j]) => e[j].at < h[x].at
  <2> TAKE k \in 1 .. i + 1
  <2>1. CASE k = i + 1
    BY <1>5, <2>1
  <2>2. CASE k \in 1 .. i
    BY <1>1, <2>2 DEF EmittedInv
  <2> QED BY <1>2, <2>1, <2>2
<1> QED BY <1>1, <1>2, <1>3, <1>4, <1>6 DEF EmittedInv

LEMMA EmitStep ==
  ASSUME NEW e \in Seq(Objects), Ordered(e), NEW i \in Nat, i + 1 \in 1 .. Len(e),
         NEW h, EmittedInv(e, h, i)
  PROVE  EmittedInv(e, Emit(e, h, i + 1), i + 1)
<1>1. PICK o : o = e[i + 1] /\ o \in Objects
  BY ElementOfSeq
<1>2. o.at \in Nat
  BY <1>1, Kinds
<1>3. CASE ~IsNewline(o)
  <2>1. Emit(e, h, i + 1) = Append(h, o)
    BY <1>1, <1>3 DEF Emit
  <2>2. From(e, o, i + 1)
    BY <1>1, <1>3 DEF From
  <2> QED BY <1>1, <2>1, <2>2, EmitPush
<1>4. CASE Joins(e, i + 1)
  <2>1. Emit(e, h, i + 1) = MarkOnce(h, o.at)
    BY <1>1, <1>4 DEF Emit, Joins
  <2>2. CASE h = <<>> \/ IsBreakMarker(h[Len(h)])
    BY <1>4, <2>1, <2>2, EmitSkip DEF MarkOnce
  <2>3. CASE ~(h = <<>> \/ IsBreakMarker(h[Len(h)]))
    <3>1. Emit(e, h, i + 1) = Append(h, BreakMarker(o.at))
      BY <2>1, <2>3 DEF MarkOnce
    <3>2. BreakMarker(o.at) \in Objects \cup Markers
      BY <1>2 DEF BreakMarker, Markers
    <3>3. From(e, BreakMarker(o.at), i + 1)
      BY <1>1, <1>4 DEF From
    <3> QED BY <3>1, <3>2, <3>3, EmitPush
  <2> QED BY <2>2, <2>3
<1>5. CASE IsNewline(o) /\ ~Joins(e, i + 1)
  <2>1. Emit(e, h, i + 1) = Append(h, Text(Space, o.at))
    BY <1>1, <1>5 DEF Emit, Joins
  <2>2. Text(Space, o.at) \in Objects \cup Markers
    BY <1>2, StringsAssumption DEF Text, Objects
  <2>3. From(e, Text(Space, o.at), i + 1)
    BY <1>1, <1>5 DEF From
  <2> QED BY <2>1, <2>2, <2>3, EmitPush
<1> QED BY <1>1, <1>3, <1>4, <1>5

LEMMA EmittedFacts ==
  ASSUME NEW e \in Seq(Objects), Ordered(e)
  PROVE  EmittedInv(e, Emitted(e), Len(e))
<1>1. PICK h : EmittedIs(h, e)
  BY EmittedLoop
<1>2. PICK N \in Nat : N = Len(e)
  BY LenProperties
<1> DEFINE T == {i \in Nat : i <= N => EmittedInv(e, h[i], i)}
<1>3. 0 \in T
  <2>1. h[0] = <<>> /\ Len(h[0]) = 0 /\ h[0] \in Seq(Objects \cup Markers)
    BY <1>1, EmptySeq DEF EmittedIs
  <2>2. \A k \in 1 .. 0 : FALSE
    OBVIOUS
  <2>3. EmittedInv(e, h[0], 0)
    BY <2>1, <2>2 DEF EmittedInv, Ordered
  <2> QED BY <2>3
<1>4. ASSUME NEW i \in Nat, i \in T PROVE i + 1 \in T
  <2> SUFFICES ASSUME i + 1 <= N PROVE EmittedInv(e, h[i + 1], i + 1)
    OBVIOUS
  <2>1. i + 1 \in 1 .. N /\ (i + 1) - 1 = i /\ EmittedInv(e, h[i], i)
    BY <1>4
  <2>2. h[i + 1] = Emit(e, h[i], i + 1)
    BY <1>1, <1>2, <2>1 DEF EmittedIs
  <2> QED BY <1>2, <2>1, <2>2, EmitStep
<1> HIDE DEF T
<1>5. N \in T
  BY <1>3, <1>4, Induct
<1> QED BY <1>1, <1>2, <1>5 DEF T, EmittedIs

-----------------------------------------------------------------------------
(* After the third pass: content, spaces and markers, in the order of what
   they come from.                                                          *)

Broken(before, elems) ==
  /\ elems \in Seq(Objects \cup Markers) /\ Ordered(elems)
  /\ \A x \in 1 .. Len(elems) :
       /\ elems[x].at \in 1 .. Len(before)
       /\ IsWhitespace(elems[x]) \/ IsBreakMarker(elems[x]) \/ elems[x] = before[elems[x].at]
  /\ \A k \in 1 .. Len(before) :
       ~IsWhitespace(before[k]) => \E x \in 1 .. Len(elems) : elems[x] = before[k]

\* The first half of a blank line, from k to l.
BlankFrom(before, k, l) ==
  /\ k < l /\ IsNewline(before[k]) /\ IsNewline(before[l])
  /\ \A y \in k .. l : IsWhitespace(before[y])

\* Markers stand in blank lines, in each that has content on both sides; where
\* there are newlines between content, there is a marker or a space; and spaces
\* come from newlines.
KeepsBreaks(before, elems) ==
  /\ \A x \in 1 .. Len(elems) : IsBreakMarker(elems[x]) =>
       \E l \in 1 .. Len(before) : BlankFrom(before, elems[x].at, l)
  /\ \A i, j \in 1 .. Len(before) :
       /\ i < j /\ ~IsWhitespace(before[i]) /\ ~IsWhitespace(before[j]) /\ Blank(before, i, j)
       => \E x \in 1 .. Len(elems) : /\ IsBreakMarker(elems[x])
                                     /\ i < elems[x].at /\ elems[x].at < j
  /\ \A x \in 1 .. Len(elems) : IsWhitespace(elems[x]) => IsNewline(before[elems[x].at])
  /\ \A i, j, k \in 1 .. Len(before) :
       /\ i < k /\ k < j /\ IsNewline(before[k])
       /\ ~IsWhitespace(before[i]) /\ ~IsWhitespace(before[j])
       => \E x \in 1 .. Len(elems) : /\ IsBreakMarker(elems[x]) \/ IsWhitespace(elems[x])
                                     /\ i < elems[x].at /\ elems[x].at < j


LEMMA OrderedIndex ==
  ASSUME NEW e \in Seq(Objects \cup Markers), Ordered(e), NEW x \in 1 .. Len(e), NEW y \in 1 .. Len(e)
  PROVE  /\ e[x].at \in Nat /\ e[y].at \in Nat
         /\ e[x].at < e[y].at <=> x < y
<1>1. e[x].at \in Nat /\ e[y].at \in Nat
  BY ElementOfSeq, Kinds
<1>2. x \in Nat /\ y \in Nat
  BY LenProperties
<1>3. x < y => e[x].at < e[y].at
  BY DEF Ordered
<1>4. y < x => e[y].at < e[x].at
  BY DEF Ordered
<1>5. x = y \/ x < y \/ y < x
  BY <1>2
<1> QED BY <1>1, <1>3, <1>4, <1>5

\* No content is lost between a newline and the one that follows it.
LEMMA JoinedAreBlank ==
  ASSUME NEW before, NEW e, IsSource(before), Filtered(before, e),
         NEW k \in 1 .. Len(e), Joins(e, k)
  PROVE  /\ k + 1 \in 1 .. Len(e) /\ e[k + 1].at \in 1 .. Len(before)
         /\ BlankFrom(before, e[k].at, e[k + 1].at)
<1>1. e \in Seq(Objects \cup Markers) /\ Ordered(e) /\ Len(e) \in Nat
  BY SeqMonotonic, LenProperties DEF Filtered
<1>2. k + 1 \in 1 .. Len(e) /\ IsNewline(e[k]) /\ IsNewline(e[k + 1])
  BY <1>1 DEF Joins
<1>3. PICK a \in 1 .. Len(before), b \in 1 .. Len(before) : a = e[k].at /\ b = e[k + 1].at
  BY <1>2 DEF Filtered
<1>4. IsNewline(before[a]) /\ IsNewline(before[b]) /\ a < b
  BY <1>1, <1>2, <1>3, OrderedIndex DEF Filtered
<1>5. ASSUME NEW y \in a .. b PROVE IsWhitespace(before[y])
  <2>1. CASE y = a \/ y = b
    BY <1>4, <2>1 DEF IsNewline, IsWhitespace
  <2>2. CASE y # a /\ y # b
    <3> SUFFICES ASSUME ~IsWhitespace(before[y]) PROVE FALSE
      OBVIOUS
    <3>1. y \in 1 .. Len(before) /\ a < y /\ y < b
      BY <2>2
    <3>2. PICK x \in 1 .. Len(e) : e[x].at = y
      BY <3>1 DEF Filtered
    <3>3. k < x /\ x < k + 1
      BY <1>1, <1>2, <1>3, <3>1, <3>2, OrderedIndex
    <3> QED BY <1>1, <3>3
  <2> QED BY <2>1, <2>2
<1>6. BlankFrom(before, a, b)
  BY <1>4, <1>5 DEF BlankFrom
<1> QED BY <1>2, <1>3, <1>6


LEMMA BreaksShort ==
  ASSUME NEW before, NEW e, IsSource(before), Filtered(before, e), Len(e) <= 1
  PROVE  /\ Broken(before, e)
         /\ KeepsLines(before, e) => KeepsBreaks(before, e)
<1>1. e \in Seq(Objects) /\ e \in Seq(Objects \cup Markers) /\ Len(e) \in Nat
  BY SeqMonotonic, LenProperties DEF Filtered
<1>2. \A x \in 1 .. Len(e) : x = 1 /\ e[x] \in Objects /\ ~IsBreakMarker(e[x])
  BY <1>1, ElementOfSeq, Kinds
<1>3. ASSUME NEW k \in 1 .. Len(before), ~IsWhitespace(before[k])
      PROVE  \E x \in 1 .. Len(e) : e[x] = before[k] /\ e[x].at = k
  BY <1>3 DEF Filtered
<1>4. Broken(before, e)
  BY <1>1, <1>3 DEF Broken, Filtered
<1>5. ASSUME NEW i \in 1 .. Len(before), NEW j \in 1 .. Len(before), i < j,
             ~IsWhitespace(before[i]), ~IsWhitespace(before[j])
      PROVE  FALSE
  <2>1. PICK x \in 1 .. Len(e) : e[x].at = i
    BY <1>3, <1>5
  <2>2. PICK y \in 1 .. Len(e) : e[y].at = j
    BY <1>3, <1>5
  <2> QED BY <1>2, <1>5, <2>1, <2>2
<1>6. ASSUME KeepsLines(before, e) PROVE KeepsBreaks(before, e)
  <2>1. ASSUME NEW x \in 1 .. Len(e), IsWhitespace(e[x]) PROVE IsNewline(before[e[x].at])
    BY <1>6, <2>1 DEF KeepsLines, Kept, Filtered
  <2>2. \A i, j, k \in 1 .. Len(before) :
          ~(i < k /\ k < j /\ ~IsWhitespace(before[i]) /\ ~IsWhitespace(before[j]))
    <3> SUFFICES ASSUME NEW i \in 1 .. Len(before), NEW j \in 1 .. Len(before),
                        NEW k \in 1 .. Len(before), i < k, k < j,
                        ~IsWhitespace(before[i]), ~IsWhitespace(before[j])
                 PROVE  FALSE
      OBVIOUS
    <3>1. i < j
      OBVIOUS
    <3> QED BY <1>5, <3>1
  <2> QED BY <1>2, <1>5, <2>1, <2>2 DEF KeepsBreaks
<1> QED BY <1>4, <1>6

LEMMA EmittedBroken ==
  ASSUME NEW before, NEW e, IsSource(before), Filtered(before, e), NEW h, EmittedInv(e, h, Len(e))
  PROVE  Broken(before, h)
<1>1. e \in Seq(Objects) /\ h \in Seq(Objects \cup Markers) /\ Ordered(h) /\ Len(e) \in Nat
  BY LenProperties DEF Filtered, EmittedInv
<1>2. ASSUME NEW x \in 1 .. Len(h)
      PROVE  /\ h[x].at \in 1 .. Len(before)
             /\ IsWhitespace(h[x]) \/ IsBreakMarker(h[x]) \/ h[x] = before[h[x].at]
  <2>1. PICK k \in 1 .. Len(e) : From(e, h[x], k)
    BY DEF EmittedInv
  <2>2. h[x].at = e[k].at /\ h[x].at \in 1 .. Len(before) /\ e[k] = before[e[k].at]
    BY <2>1, FromAt DEF Filtered
  <2>3. CASE h[x] = e[k]
    BY <2>2, <2>3
  <2>4. CASE h[x] = Text(Space, e[k].at)
    BY <2>2, <2>4, NewObjects DEF IsWhitespace, IsText
  <2>5. CASE h[x] = BreakMarker(e[k].at)
    BY <2>2, <2>5, NewObjects DEF IsBreakMarker
  <2> QED BY <2>1, <2>3, <2>4, <2>5, Zenon DEF From
<1>3. ASSUME NEW k \in 1 .. Len(before), ~IsWhitespace(before[k])
      PROVE  \E x \in 1 .. Len(h) : h[x] = before[k]
  <2>1. PICK z \in 1 .. Len(e) : e[z].at = k
    BY <1>3 DEF Filtered
  <2>2. e[z] = before[k] /\ ~IsNewline(e[z])
    BY <1>3, <2>1 DEF Filtered, IsNewline, IsWhitespace
  <2>3. \E x \in 1 .. Len(h) : h[x] = e[z]
    BY <2>2 DEF EmittedInv
  <2> QED BY <2>2, <2>3
<1> QED BY <1>1, <1>2, <1>3 DEF Broken

LEMMA EmittedKeepsBreaks ==
  ASSUME NEW before, NEW e, IsSource(before), Filtered(before, e), KeepsLines(before, e),
         NEW h, EmittedInv(e, h, Len(e))
  PROVE  KeepsBreaks(before, h)
<1>1. /\ e \in Seq(Objects) /\ e \in Seq(Objects \cup Markers) /\ Ordered(e) /\ Len(e) \in Nat
      /\ h \in Seq(Objects \cup Markers) /\ Len(before) \in Nat
  BY SeqMonotonic, LenProperties DEF Filtered, EmittedInv, IsSource
<1>2. \A k \in 1 .. Len(e) : /\ e[k] = before[e[k].at] /\ e[k].at \in 1 .. Len(before)
                            /\ e[k] \in Objects
                            /\ IsWhitespace(e[k]) <=> IsNewline(e[k])
  BY <1>1, ElementOfSeq DEF Filtered, KeepsLines, Kept, IsNewline, IsWhitespace
<1>3. ASSUME NEW x \in 1 .. Len(h)
      PROVE  \E k \in 1 .. Len(e) :
               /\ h[x].at = e[k].at
               /\ IsBreakMarker(h[x]) => Joins(e, k)
               /\ IsWhitespace(h[x]) => IsNewline(e[k])
  <2>1. PICK k \in 1 .. Len(e) : From(e, h[x], k)
    BY DEF EmittedInv
  <2>2. h[x].at = e[k].at
    BY <2>1, FromAt
  <2>3. CASE ~IsNewline(e[k]) /\ h[x] = e[k]
    <3>1. e[k] \in Objects /\ Kept(e[k])
      BY <1>1, ElementOfSeq DEF KeepsLines
    <3>2. ~IsBreakMarker(e[k]) /\ ~IsWhitespace(e[k])
      BY <2>3, <3>1, Kinds DEF Kept
    <3> QED BY <2>2, <2>3, <3>2
  <2>4. CASE IsNewline(e[k]) /\ h[x] = Text(Space, e[k].at)
    BY <2>2, <2>4, NewObjects DEF IsBreakMarker
  <2>5. CASE Joins(e, k) /\ h[x] = BreakMarker(e[k].at)
    BY <2>2, <2>5 DEF Joins
  <2> QED BY <2>1, <2>3, <2>4, <2>5, Zenon DEF From
<1>4. ASSUME NEW x \in 1 .. Len(h), IsBreakMarker(h[x])
      PROVE  \E l \in 1 .. Len(before) : BlankFrom(before, h[x].at, l)
  <2>1. PICK k \in 1 .. Len(e) : h[x].at = e[k].at /\ Joins(e, k)
    BY <1>3, <1>4
  <2> QED BY <2>1, JoinedAreBlank
<1>5. ASSUME NEW x \in 1 .. Len(h), IsWhitespace(h[x]) PROVE IsNewline(before[h[x].at])
  BY <1>2, <1>3, <1>5
\* A newline that has content before it and is followed by another.
<1>6. ASSUME NEW i \in 1 .. Len(before), ~IsWhitespace(before[i]),
             NEW k \in 1 .. Len(e), Joins(e, k), i < e[k].at
      PROVE  \E x \in 1 .. Len(h) : IsBreakMarker(h[x]) /\ i < h[x].at /\ h[x].at <= e[k].at
  <2>1. PICK c \in 1 .. Len(e) : e[c].at = i
    BY <1>6 DEF Filtered
  <2>2. e[c] = before[i] /\ ~IsNewline(e[c])
    <3>1. e[c] = before[i]
      BY <2>1 DEF Filtered
    <3> QED BY <1>6, <3>1 DEF IsNewline, IsWhitespace
  <2>3. c < k
    BY <1>1, <1>6, <2>1, OrderedIndex
  <2>4. c \in 1 .. k
    BY <2>3
  <2>5. PICK x \in 1 .. Len(h) :
          /\ IsBreakMarker(h[x]) /\ h[x].at <= e[k].at
          /\ \A j \in 1 .. k : ~IsNewline(e[j]) => e[j].at < h[x].at
    BY <1>6, <2>2, <2>4 DEF EmittedInv
  <2> QED BY <2>1, <2>2, <2>4, <2>5
<1>7. ASSUME NEW i \in 1 .. Len(before), NEW j \in 1 .. Len(before), i < j,
             ~IsWhitespace(before[i]), ~IsWhitespace(before[j]), Blank(before, i, j)
      PROVE  \E x \in 1 .. Len(h) : IsBreakMarker(h[x]) /\ i < h[x].at /\ h[x].at < j
  <2>1. PICK k \in i .. j, l \in i .. j :
          /\ k < l /\ IsNewline(before[k]) /\ IsNewline(before[l])
          /\ \A x \in k .. l : IsWhitespace(before[x])
    BY <1>7 DEF Blank
  <2>2. k # i /\ l # j /\ k \in 1 .. Len(before) /\ l \in 1 .. Len(before)
    BY <1>1, <1>7, <2>1 DEF IsNewline, IsWhitespace
  <2>3. PICK a \in 1 .. Len(e), b \in 1 .. Len(e) : e[a].at = k /\ e[b].at = l
    BY <2>1, <2>2 DEF KeepsLines
  <2>4. a < b
    BY <1>1, <2>1, <2>3, OrderedIndex
  <2>5. a + 1 \in 1 .. Len(e) /\ (a + 1 = b \/ a + 1 < b) /\ a < a + 1
    BY <1>1, <2>4
  <2>6. PICK m \in 1 .. Len(before) : m = e[a + 1].at /\ k < m /\ m <= l
    <3>1. PICK m \in 1 .. Len(before) : m = e[a + 1].at
      BY <2>5 DEF Filtered
    <3>2. k < m
      BY <1>1, <2>3, <2>5, <3>1, OrderedIndex
    <3>3. a + 1 < b => m < l
      BY <1>1, <2>3, <2>5, <3>1, OrderedIndex
    <3>4. a + 1 = b => m = l
      BY <2>3, <3>1
    <3>5. m <= l
      BY <2>2, <2>5, <3>3, <3>4
    <3> QED BY <3>1, <3>2, <3>5
  <2>7. IsWhitespace(before[m])
    BY <2>1, <2>6
  <2>8. Joins(e, a)
    <3>1. e[a] = before[k]
      BY <2>3 DEF Filtered
    <3>4. e[a + 1] = before[m]
      BY <2>5, <2>6 DEF Filtered
    <3>5. Kept(e[a + 1])
      BY <2>5 DEF KeepsLines
    <3>2. IsNewline(e[a]) /\ IsNewline(e[a + 1])
      BY <2>1, <2>7, <3>1, <3>4, <3>5 DEF Kept
    <3>3. a < Len(e)
      BY <1>1, <2>5
    <3> QED BY <3>2, <3>3 DEF Joins
  <2>9. PICK x \in 1 .. Len(h) : IsBreakMarker(h[x]) /\ i < h[x].at /\ h[x].at <= k
    BY <1>6, <1>7, <2>1, <2>2, <2>3, <2>8
  <2>10. h[x].at \in Nat
    BY <1>1, ElementOfSeq, Kinds
  <2>11. k < j
    BY <2>1
  <2> QED BY <2>9, <2>10, <2>11
<1>8. ASSUME NEW i \in 1 .. Len(before), NEW j \in 1 .. Len(before), NEW k \in 1 .. Len(before),
             i < k, k < j, IsNewline(before[k]), ~IsWhitespace(before[i]), ~IsWhitespace(before[j])
      PROVE  \E x \in 1 .. Len(h) : /\ IsBreakMarker(h[x]) \/ IsWhitespace(h[x])
                                    /\ i < h[x].at /\ h[x].at < j
  <2>1. PICK a \in 1 .. Len(e) : e[a].at = k
    BY <1>8 DEF KeepsLines
  <2>2. e[a] = before[k] /\ IsNewline(e[a])
    <3>1. e[a] = before[k]
      BY <2>1 DEF Filtered
    <3> QED BY <1>8, <3>1
  <2>3. CASE Joins(e, a)
    <3>1. PICK x \in 1 .. Len(h) : IsBreakMarker(h[x]) /\ i < h[x].at /\ h[x].at <= k
      BY <1>6, <1>8, <2>1, <2>3
    <3>2. h[x].at \in Nat
      BY <1>1, ElementOfSeq, Kinds
    <3> QED BY <1>8, <3>1, <3>2
  <2>4. CASE ~Joins(e, a)
    <3>1. PICK x \in 1 .. Len(h) : h[x] = Text(Space, k)
      BY <2>1, <2>2, <2>4 DEF EmittedInv
    <3>2. h[x].at = k /\ IsWhitespace(h[x])
      BY <3>1, NewObjects DEF IsWhitespace, IsText
    <3> QED BY <1>8, <3>2
  <2> QED BY <2>3, <2>4
<1> QED BY <1>4, <1>5, <1>7, <1>8 DEF KeepsBreaks

LEMMA BreaksBroken ==
  ASSUME NEW before, NEW e, IsSource(before), Filtered(before, e)
  PROVE  /\ Broken(before, Breaks(e))
         /\ KeepsLines(before, e) => KeepsBreaks(before, Breaks(e))
<1>1. CASE Len(e) <= 1
  BY <1>1, BreaksShort DEF Breaks
<1>2. CASE ~(Len(e) <= 1)
  <2>1. Breaks(e) = Emitted(e)
    BY <1>2 DEF Breaks
  <2>2. EmittedInv(e, Emitted(e), Len(e))
    BY EmittedFacts DEF Filtered
  <2> QED BY <2>1, <2>2, EmittedBroken, EmittedKeepsBreaks
<1> QED BY <1>1, <1>2

-----------------------------------------------------------------------------
(* processParagraphsHelper *)

Divider(d, o) == IsBreakMarker(o) \/ IsBlock(d, o)

\* o has the elements of s from a to b: a paragraph what is between two
\* dividers, anything else is one element.
Holds(d, s, o, a, b) ==
  /\ a \in 1 .. Len(s) /\ b \in 1 .. Len(s) /\ a <= b
  /\ IsPara(o) => /\ o.elems \in Seq(Objects) /\ Len(o.elems) = (b - a) + 1
                  /\ \A k \in a .. b : o.elems[(k - a) + 1] = s[k] /\ ~Divider(d, s[k])
  /\ ~IsPara(o) => a = b /\ o = s[a] /\ ~IsBreakMarker(o)

\* x is in front of y.  There is a divider from one to the other, unless both are
\* outside of paragraphs and so is all between them.
Follows(d, s, out, lo, hi, x, y) ==
  /\ hi[x] < lo[y]
  /\ IF IsBlock(d, out[x]) \/ IsBlock(d, out[y])
     THEN \E k \in hi[x] .. lo[y] : Divider(d, s[k])
     ELSE \A k \in lo[x] .. lo[y] :
            ~Divider(d, s[k]) /\ \E z \in 1 .. Len(out) : lo[z] = k

\* out is what the first n elements of s have become: its element x has those from
\* lo[x] to hi[x], and no content is left out.
Arranged(d, s, out, lo, hi, n) ==
  /\ lo \in [1 .. Len(out) -> 1 .. n] /\ hi \in [1 .. Len(out) -> 1 .. n]
  /\ \A x \in 1 .. Len(out) : Holds(d, s, out[x], lo[x], hi[x])
  /\ \A x, y \in 1 .. Len(out) : x < y => Follows(d, s, out, lo, hi, x, y)
  /\ \A k \in 1 .. n : ~IsWhitespace(s[k]) /\ ~IsBreakMarker(s[k]) =>
       \E x \in 1 .. Len(out) : lo[x] <= k /\ k <= hi[x]

AllBlocks(d, out) == \A x \in 1 .. Len(out) : IsBlock(d, out[x])
HasPara(out) == \E x \in 1 .. Len(out) : IsPara(out[x])

\* A block or a paragraph o is put behind out, for the elements up to m.
LEMMA ArrangeOne ==
  ASSUME NEW d, NEW s \in Seq(Objects \cup Markers), NEW out \in Seq(Objects \cup Paragraphs),
         NEW lo, NEW hi, NEW n \in Nat, Arranged(d, s, out, lo, hi, n), AllBlocks(d, out),
         NEW o \in Objects \cup Paragraphs, IsBlock(d, o),
         NEW a \in Nat, NEW b \in Nat, NEW m \in Nat, Holds(d, s, o, a, b), n < a, b <= m,
         Divider(d, s[a]) \/ (n > 0 => Divider(d, s[n])),
         \A k \in n + 1 .. m : ~IsWhitespace(s[k]) /\ ~IsBreakMarker(s[k]) => a <= k /\ k <= b,
         NEW t, t = Append(out, o)
  PROVE  /\ AllBlocks(d, t)
         /\ HasPara(t) <=> HasPara(out) \/ IsPara(o)
         /\ \E lo2, hi2 : Arranged(d, s, t, lo2, hi2, m)
<1>1. PICK l \in Nat : l = Len(out)
  BY LenProperties
<1>2. Len(t) = l + 1 /\ t[l + 1] = o /\ \A x \in 1 .. l : t[x] = out[x]
  BY <1>1, AppendProperties
<1>3. /\ l + 1 \in 1 .. l + 1
      /\ \A x \in 1 .. l : x \in 1 .. l + 1 /\ x # l + 1
      /\ \A x \in 1 .. l + 1 : x = l + 1 \/ x \in 1 .. l
  OBVIOUS
<1>4. AllBlocks(d, t)
  BY <1>1, <1>2, <1>3 DEF AllBlocks
<1>5. HasPara(t) <=> HasPara(out) \/ IsPara(o)
  BY <1>1, <1>2, <1>3 DEF HasPara
<1> DEFINE lo2 == [x \in 1 .. l + 1 |-> IF x = l + 1 THEN a ELSE lo[x]]
           hi2 == [x \in 1 .. l + 1 |-> IF x = l + 1 THEN b ELSE hi[x]]
<1>6. a <= b /\ a \in 1 .. m /\ b \in 1 .. m /\ \A k \in 1 .. n : k \in 1 .. m /\ k < a
  BY DEF Holds
<1>7. \A x \in 1 .. l : lo[x] \in 1 .. n /\ hi[x] \in 1 .. n
  BY <1>1 DEF Arranged
<1>8. lo2 \in [1 .. l + 1 -> 1 .. m] /\ hi2 \in [1 .. l + 1 -> 1 .. m]
  BY <1>3, <1>6, <1>7
<1>9. /\ lo2[l + 1] = a /\ hi2[l + 1] = b
      /\ \A x \in 1 .. l : lo2[x] = lo[x] /\ hi2[x] = hi[x]
  BY <1>3
<1> HIDE DEF lo2, hi2
<1>10. \A x \in 1 .. l + 1 : Holds(d, s, t[x], lo2[x], hi2[x])
  BY <1>1, <1>2, <1>3, <1>9 DEF Arranged
<1>11. ASSUME NEW x \in 1 .. l + 1, NEW y \in 1 .. l + 1, x < y
       PROVE  Follows(d, s, t, lo2, hi2, x, y)
  <2>1. x \in 1 .. l
    BY <1>11
  <2>2. IsBlock(d, t[x])
    BY <1>1, <1>2, <2>1 DEF AllBlocks
  <2>3. CASE y \in 1 .. l
    <3>1. Follows(d, s, out, lo, hi, x, y) /\ IsBlock(d, out[x])
      BY <1>1, <2>1, <2>3, <1>11 DEF Arranged, AllBlocks
    <3>2. hi[x] < lo[y] /\ \E k \in hi[x] .. lo[y] : Divider(d, s[k])
      BY <3>1 DEF Follows
    <3> QED BY <1>9, <2>1, <2>2, <2>3, <3>2 DEF Follows
  <2>4. CASE y = l + 1
    <3>1. hi[x] \in 1 .. n /\ hi[x] < a
      BY <1>6, <1>7, <2>1
    <3>2. n \in hi[x] .. a /\ a \in hi[x] .. a /\ n > 0
      BY <3>1
    <3>3. \E k \in hi[x] .. a : Divider(d, s[k])
      BY <3>2
    <3> QED BY <1>9, <2>1, <2>2, <2>4, <3>1, <3>3 DEF Follows
  <2> QED BY <1>3, <2>3, <2>4
<1>12. ASSUME NEW k \in 1 .. m, ~IsWhitespace(s[k]), ~IsBreakMarker(s[k])
       PROVE  \E x \in 1 .. l + 1 : lo2[x] <= k /\ k <= hi2[x]
  <2>1. CASE k \in 1 .. n
    <3>1. PICK x \in 1 .. l : lo[x] <= k /\ k <= hi[x]
      BY <1>1, <1>12, <2>1 DEF Arranged
    <3> QED BY <1>3, <1>9, <3>1
  <2>2. CASE k \notin 1 .. n
    <3>1. k \in n + 1 .. m
      BY <2>2
    <3>2. a <= k /\ k <= b
      BY <1>12, <3>1
    <3> QED BY <1>3, <1>9, <3>2
  <2> QED BY <2>1, <2>2
<1>13. Arranged(d, s, t, lo2, hi2, m)
  BY <1>2, <1>8, <1>10, <1>11, <1>12 DEF Arranged
<1> QED BY <1>4, <1>5, <1>13

\* a is what the forEach has after i elements: those from n on wait for the end of
\* their paragraph.
Waiting(d, s, a, i, n) ==
  /\ Len(a.para) = i - n
  /\ \A k \in n + 1 .. i : a.para[k - n] = s[k] /\ ~Divider(d, s[k])
  /\ n > 0 => Divider(d, s[n])
  /\ AllBlocks(d, a.out) /\ (a.paras >= 1 <=> HasPara(a.out))
  /\ \E lo, hi : Arranged(d, s, a.out, lo, hi, n)

GatheredInv(d, s, a, i) == a \in Accumulators /\ \E n \in 0 .. i : Waiting(d, s, a, i, n)

LEMMA FlushArranged ==
  ASSUME NEW d, NEW s \in Seq(Objects \cup Markers), NEW i \in Nat, i <= Len(s),
         NEW a \in Accumulators, NEW n \in 0 .. i, Waiting(d, s, a, i, n)
  PROVE  /\ AllBlocks(d, Flush(a).out) /\ (Flush(a).paras >= 1 <=> HasPara(Flush(a).out))
         /\ \E lo, hi : Arranged(d, s, Flush(a).out, lo, hi, i)
<1>1. a.out \in Seq(Objects \cup Paragraphs) /\ a.para \in Seq(Objects) /\ a.paras \in Nat /\ n \in Nat
  BY DEF Accumulators
<1>2. PICK f : f = Flush(a)
  OBVIOUS
<1>3. CASE a.para = <<>>
  <2>1. Len(a.para) = 0
    BY <1>3
  <2>2. n = i
    BY <1>1, <2>1 DEF Waiting
  <2>3. f = a
    BY <1>2, <1>3 DEF Flush
  <2> QED BY <1>2, <2>2, <2>3 DEF Waiting
<1>4. CASE a.para # <<>>
  <2>1. f.out = Append(a.out, MakePara(a.para)) /\ f.paras = a.paras + 1
    BY <1>2, <1>4, FlushTyped
  <2>2. PICK p : p = MakePara(a.para)
    OBVIOUS
  <2>3. p.elems = a.para /\ p \in Paragraphs /\ IsPara(p) /\ IsBlock(d, p)
    <3>1. p.kind = "para" /\ p.elems = a.para
      BY <2>2, NewObjects
    <3>2. p \in Paragraphs
      BY <1>1, <2>2 DEF MakePara, Paragraphs
    <3> QED BY <3>1, <3>2, Kinds
  <2>4. Len(a.para) \in Nat /\ Len(a.para) # 0
    BY <1>1, <1>4, LenProperties, EmptySeq
  <2>5. n < n + 1 /\ n + 1 <= i /\ n + 1 \in Nat /\ Len(a.para) = (i - (n + 1)) + 1
    BY <1>1, <2>4 DEF Waiting
  <2>6. \A k \in n + 1 .. i : a.para[(k - (n + 1)) + 1] = s[k] /\ ~Divider(d, s[k])
    <3> TAKE k \in n + 1 .. i
    <3>1. (k - (n + 1)) + 1 = k - n
      BY <1>1
    <3> QED BY <3>1 DEF Waiting
  <2>7. Len(s) \in Nat
    BY LenProperties
  <2>8. n + 1 \in 1 .. Len(s) /\ i \in 1 .. Len(s)
    BY <1>1, <2>5, <2>7
  <2>9. Holds(d, s, p, n + 1, i)
    BY <1>1, <2>3, <2>5, <2>6, <2>8 DEF Holds
  <2>10. \A k \in n + 1 .. i : n + 1 <= k /\ k <= i
    OBVIOUS
  <2>11. PICK lo, hi : Arranged(d, s, a.out, lo, hi, n)
    BY DEF Waiting
  <2>12. AllBlocks(d, a.out) /\ (n > 0 => Divider(d, s[n])) /\ p \in Objects \cup Paragraphs /\ i <= i
    BY <2>3 DEF Waiting
  <2>13. f.out = Append(a.out, p)
    BY <2>1, <2>2
  <2>14. /\ AllBlocks(d, f.out)
         /\ HasPara(f.out) <=> HasPara(a.out) \/ IsPara(p)
         /\ \E lo2, hi2 : Arranged(d, s, f.out, lo2, hi2, i)
    BY <1>1, <2>3, <2>5, <2>9, <2>10, <2>11, <2>12, <2>13, ArrangeOne
  <2>15. f.paras >= 1
    BY <1>1, <2>1
  <2> QED BY <1>2, <2>3, <2>14, <2>15
<1> QED BY <1>3, <1>4

LEMMA GatherStep ==
  ASSUME NEW d, NEW s \in Seq(Objects \cup Markers), NEW i \in Nat, i + 1 \in 1 .. Len(s),
         NEW a, GatheredInv(d, s, a, i)
  PROVE  GatheredInv(d, s, Gather(d, a, s[i + 1]), i + 1)
<1>1. PICK o : o = s[i + 1] /\ o \in Objects \cup Markers
  BY ElementOfSeq
<1>2. PICK t : t = Gather(d, a, o)
  OBVIOUS
<1>3. a \in Accumulators /\ t \in Accumulators
  BY <1>1, <1>2, GatherTyped DEF GatheredInv
<1>4. PICK n \in 0 .. i : Waiting(d, s, a, i, n)
  BY DEF GatheredInv
<1>5. PICK f : f = Flush(a) /\ f \in Accumulators /\ f.para = <<>>
  BY <1>3, FlushTyped
<1>6. f.out \in Seq(Objects \cup Paragraphs) /\ a.para \in Seq(Objects)
  BY <1>3, <1>5 DEF Accumulators
<1>7. Len(s) \in Nat /\ i <= Len(s)
  BY LenProperties
<1>8. AllBlocks(d, f.out) /\ (f.paras >= 1 <=> HasPara(f.out))
  BY <1>3, <1>4, <1>5, <1>7, FlushArranged
<1>9. PICK lo, hi : Arranged(d, s, f.out, lo, hi, i)
  BY <1>3, <1>4, <1>5, <1>7, FlushArranged
<1>10. Len(<<>>) = (i + 1) - (i + 1) /\ \A k \in (i + 1) + 1 .. i + 1 : FALSE
  OBVIOUS
<1>11. i + 1 \in 0 .. i + 1 /\ i < i + 1 /\ i + 1 <= i + 1 /\ \A k \in 1 .. i + 1 : k = i + 1 \/ k \in 1 .. i
  OBVIOUS
<1>12. CASE IsBreakMarker(o)
  <2>1. t = f
    <3>1. ~IsBlock(d, o)
      BY <1>1, <1>12, Kinds
    <3> QED BY <1>2, <1>5, <1>12, <3>1 DEF Gather
  <2>2. Arranged(d, s, f.out, lo, hi, i + 1)
    <3>1. \A k \in 1 .. i : k \in 1 .. i + 1
      OBVIOUS
    <3>2. lo \in [1 .. Len(f.out) -> 1 .. i + 1] /\ hi \in [1 .. Len(f.out) -> 1 .. i + 1]
      BY <1>9, <3>1 DEF Arranged
    <3>3. \A k \in 1 .. i + 1 : ~IsWhitespace(s[k]) /\ ~IsBreakMarker(s[k]) =>
            \E x \in 1 .. Len(f.out) : lo[x] <= k /\ k <= hi[x]
      BY <1>1, <1>9, <1>11, <1>12 DEF Arranged
    <3> QED BY <1>9, <3>2, <3>3 DEF Arranged
  <2>3. Divider(d, s[i + 1])
    BY <1>1, <1>12 DEF Divider
  <2>4. Waiting(d, s, t, i + 1, i + 1)
    BY <1>5, <1>8, <1>10, <2>1, <2>2, <2>3 DEF Waiting
  <2> QED BY <1>1, <1>2, <1>3, <1>11, <2>4 DEF GatheredInv
<1>13. CASE ~IsBreakMarker(o) /\ IsBlock(d, o)
  <2>1. o \in Objects
    BY <1>1, <1>13, Kinds
  <2>2. PICK w : w = Append(f.out, o) /\ w \in Seq(Objects \cup Paragraphs)
    BY <1>6, <2>1, AppendProperties
  <2>3. t = [f EXCEPT !.out = w]
    BY <1>2, <1>5, <1>13, <2>2 DEF Gather
  <2>4. t.out = w /\ t.para = <<>> /\ t.paras = f.paras
    BY <1>5, <2>3 DEF Accumulators
  <2>5. ~IsPara(o)
    BY <2>1, Kinds
  <2>6. Holds(d, s, o, i + 1, i + 1)
    BY <1>1, <1>13, <2>5 DEF Holds
  <2>7. Divider(d, s[i + 1])
    BY <1>1, <1>13 DEF Divider
  <2>8. \A k \in i + 1 .. i + 1 : i + 1 <= k /\ k <= i + 1
    OBVIOUS
  <2>9. /\ AllBlocks(d, w)
        /\ HasPara(w) <=> HasPara(f.out) \/ IsPara(o)
        /\ \E lo2, hi2 : Arranged(d, s, w, lo2, hi2, i + 1)
    <3>1. i + 1 \in Nat /\ o \in Objects \cup Paragraphs /\ IsBlock(d, o) /\ w = Append(f.out, o)
      BY <1>13, <2>1, <2>2
    <3>2. i < i + 1 /\ i + 1 <= i + 1
      OBVIOUS
    <3>3. AllBlocks(d, f.out)
      BY <1>8
    <3>4. \A k \in i + 1 .. i + 1 : ~IsWhitespace(s[k]) /\ ~IsBreakMarker(s[k]) => i + 1 <= k /\ k <= i + 1
      BY <2>8
    <3> QED BY <1>6, <1>9, <2>6, <2>7, <3>1, <3>2, <3>3, <3>4, ArrangeOne
  <2>10. Waiting(d, s, t, i + 1, i + 1)
    BY <1>8, <1>10, <2>4, <2>5, <2>7, <2>9 DEF Waiting
  <2> QED BY <1>1, <1>2, <1>3, <1>11, <2>10 DEF GatheredInv
<1>14. CASE ~IsBreakMarker(o) /\ ~IsBlock(d, o)
  <2>1. o \in Objects
    BY <1>1, <1>14, Kinds
  <2>2. PICK w : w = Append(a.para, o)
    OBVIOUS
  <2>3. t = [a EXCEPT !.para = w]
    BY <1>2, <1>14, <2>2 DEF Gather
  <2>4. t.out = a.out /\ t.para = w /\ t.paras = a.paras
    BY <1>3, <2>3 DEF Accumulators
  <2>5. PICK l \in Nat : l = Len(a.para)
    BY <1>6, LenProperties
  <2>6. Len(w) = l + 1 /\ w[l + 1] = o /\ \A y \in 1 .. l : w[y] = a.para[y]
    BY <1>6, <2>1, <2>2, <2>5, AppendProperties
  <2>7. l = i - n /\ l + 1 = (i + 1) - n
    BY <1>4, <2>5 DEF Waiting
  <2>8. \A k \in n + 1 .. i + 1 : w[k - n] = s[k] /\ ~Divider(d, s[k])
    <3> TAKE k \in n + 1 .. i + 1
    <3>1. CASE k = i + 1
      BY <1>1, <1>14, <2>6, <2>7, <3>1 DEF Divider
    <3>2. CASE k # i + 1
      <4>1. k \in n + 1 .. i /\ k - n \in 1 .. l
        BY <2>7, <3>2
      <4> QED BY <1>4, <2>6, <4>1 DEF Waiting
    <3> QED BY <3>1, <3>2
  <2>9. Waiting(d, s, t, i + 1, n)
    BY <1>4, <2>4, <2>6, <2>7, <2>8 DEF Waiting
  <2>10. n \in 0 .. i + 1
    OBVIOUS
  <2> QED BY <1>1, <1>2, <1>3, <2>9, <2>10 DEF GatheredInv
<1> QED BY <1>12, <1>13, <1>14

\* Two tables that agree on what is a block gather alike.
LEMMA GatheredFacts ==
  ASSUME NEW d, NEW b, NEW s \in Seq(Objects \cup Markers),
         \A k \in 1 .. Len(s) : IsBlock(d, s[k]) <=> IsBlock(b, s[k])
  PROVE  GatheredInv(b, s, Gathered(d, s), Len(s))
<1>1. PICK h : GatheredIs(h, d, s)
  BY GatheredLoop
<1>2. PICK N \in Nat : N = Len(s)
  BY LenProperties
<1> DEFINE T == {i \in Nat : i <= N => GatheredInv(b, s, h[i], i)}
<1>3. 0 \in T
  <2>1. h[0] = NoneGathered /\ h[0] \in Accumulators
    BY <1>1, <1>2 DEF GatheredIs
  <2>2. h[0].out = <<>> /\ h[0].para = <<>> /\ h[0].paras = 0 /\ Len(<<>>) = 0
    BY <2>1 DEF NoneGathered
  <2> DEFINE none == [x \in 1 .. 0 |-> 1]
  <2>3. none \in [1 .. 0 -> 1 .. 0] /\ \A x \in 1 .. 0 : FALSE
    OBVIOUS
  <2> HIDE DEF none
  <2>4. Arranged(b, s, h[0].out, none, none, 0)
    BY <2>2, <2>3 DEF Arranged
  <2>5. AllBlocks(b, h[0].out) /\ ~HasPara(h[0].out)
    BY <2>2, <2>3 DEF AllBlocks, HasPara
  <2>6. \A k \in 0 + 1 .. 0 : FALSE
    OBVIOUS
  <2>7. Waiting(b, s, h[0], 0, 0)
    BY <2>2, <2>4, <2>5, <2>6 DEF Waiting
  <2> QED BY <2>1, <2>7 DEF GatheredInv
<1>4. ASSUME NEW i \in Nat, i \in T PROVE i + 1 \in T
  <2> SUFFICES ASSUME i + 1 <= N PROVE GatheredInv(b, s, h[i + 1], i + 1)
    OBVIOUS
  <2>1. i + 1 \in 1 .. N /\ (i + 1) - 1 = i /\ GatheredInv(b, s, h[i], i)
    BY <1>4
  <2>2. h[i + 1] = Gather(d, h[i], s[i + 1])
    BY <1>1, <1>2, <2>1 DEF GatheredIs
  <2>3. IsBlock(d, s[i + 1]) <=> IsBlock(b, s[i + 1])
    BY <1>2, <2>1
  <2>4. Gather(d, h[i], s[i + 1]) = Gather(b, h[i], s[i + 1])
    <3>1. CASE IsBlock(d, s[i + 1])
      BY <2>3, <3>1 DEF Gather
    <3>2. CASE ~IsBlock(d, s[i + 1])
      BY <2>3, <3>2 DEF Gather
    <3> QED BY <3>1, <3>2
  <2>5. GatheredInv(b, s, Gather(b, h[i], s[i + 1]), i + 1)
    BY <1>2, <2>1, GatherStep
  <2> QED BY <2>2, <2>4, <2>5
<1> HIDE DEF T
<1>5. N \in T
  BY <1>3, <1>4, Induct
<1> QED BY <1>1, <1>2, <1>5 DEF T, GatheredIs

\* Paragraphs are flushed; without any, what waits is put behind as it is.
LEMMA FinishArranged ==
  ASSUME NEW d, NEW s \in Seq(Objects \cup Markers), NEW a, GatheredInv(d, s, a, Len(s)),
         NEW out, out = Finish(a)
  PROVE  /\ out \in Seq(Objects \cup Paragraphs) /\ (HasPara(out) => AllBlocks(d, out))
         /\ \E lo, hi : Arranged(d, s, out, lo, hi, Len(s))
<1>1. PICK N \in Nat : N = Len(s)
  BY LenProperties
<1>2. PICK n \in 0 .. N : Waiting(d, s, a, N, n)
  BY <1>1 DEF GatheredInv
<1>3. a \in Accumulators /\ a.out \in Seq(Objects \cup Paragraphs) /\ a.para \in Seq(Objects) /\ a.paras \in Nat
  BY DEF GatheredInv, Accumulators
<1>4. CASE a.paras >= 1
  <2>1. out = Flush(a).out /\ Flush(a) \in Accumulators
    BY <1>3, <1>4, FlushTyped DEF Finish
  <2>2. out \in Seq(Objects \cup Paragraphs)
    BY <2>1 DEF Accumulators
  <2>3. N <= Len(s)
    BY <1>1
  <2> QED BY <1>1, <1>2, <1>3, <2>1, <2>2, <2>3, FlushArranged
<1>5. CASE ~(a.paras >= 1)
  <2>1. out = a.out \o a.para /\ ~HasPara(a.out) /\ AllBlocks(d, a.out)
    BY <1>2, <1>5 DEF Finish, Waiting
  <2>2. a.para \in Seq(Objects \cup Paragraphs)
    BY <1>3, SeqMonotonic
  <2>3. PICK l \in Nat, m \in Nat : l = Len(a.out) /\ m = Len(a.para)
    BY <1>3, LenProperties
  <2>4. /\ out \in Seq(Objects \cup Paragraphs) /\ Len(out) = l + m
        /\ \A x \in 1 .. l + m : out[x] = IF x <= l THEN a.out[x] ELSE a.para[x - l]
    <3>1. PICK u \in Seq(Objects \cup Paragraphs), v \in Seq(Objects \cup Paragraphs) :
            u = a.out /\ v = a.para
      BY <1>3, <2>2
    <3>2. /\ u \o v \in Seq(Objects \cup Paragraphs) /\ Len(u \o v) = Len(u) + Len(v)
          /\ \A x \in 1 .. Len(u) + Len(v) : (u \o v)[x] = IF x <= Len(u) THEN u[x] ELSE v[x - Len(u)]
      BY ConcatProperties
    <3>3. out = u \o v /\ Len(u) = l /\ Len(v) = m
      BY <2>1, <2>3, <3>1
    <3> QED BY <3>1, <3>2, <3>3
  <2>5. m = N - n
    BY <1>2, <2>3 DEF Waiting
  <2>6. /\ \A x \in 1 .. l : x \in 1 .. l + m
        /\ \A x \in 1 .. l + m : x \in 1 .. l \/ (x \notin 1 .. l /\ l < x /\ n + (x - l) \in n + 1 .. N)
        /\ \A k \in n + 1 .. N : k \in 1 .. N
        /\ \A k \in 1 .. n : k \in 1 .. N
    BY <2>5
  <2>7. ASSUME NEW x \in 1 .. l PROVE out[x] = a.out[x] /\ IsBlock(d, out[x]) /\ ~IsPara(out[x])
    <3>1. x \in 1 .. l + m /\ x <= l
      BY <2>6
    <3>2. out[x] = a.out[x]
      BY <2>4, <3>1
    <3>3. IsBlock(d, a.out[x]) /\ ~IsPara(a.out[x])
      BY <2>1, <2>3 DEF HasPara, AllBlocks
    <3> QED BY <3>2, <3>3
  <2>8. ASSUME NEW x \in 1 .. l + m, x \notin 1 .. l
        PROVE  out[x] = s[n + (x - l)] /\ ~Divider(d, out[x]) /\ ~IsPara(out[x])
    <3>5. n + (x - l) \in n + 1 .. N
      BY <2>5, <2>8
    <3>1. n + (x - l) \in n + 1 .. N /\ n + (x - l) \in 1 .. N /\ (n + (x - l)) - n = x - l
      BY <3>5
    <3>2. a.para[x - l] = s[n + (x - l)] /\ ~Divider(d, s[n + (x - l)])
      BY <1>2, <3>1 DEF Waiting
    <3>3. out[x] = a.para[x - l]
      BY <2>4, <2>8
    <3>4. ~IsPara(s[n + (x - l)])
      BY <1>1, <3>1, ElementOfSeq, Kinds
    <3> QED BY <3>2, <3>3, <3>4
  <2>9. PICK lo, hi : Arranged(d, s, a.out, lo, hi, n)
    BY <1>2 DEF Waiting
  <2>10. \A x \in 1 .. l : lo[x] \in 1 .. n /\ hi[x] \in 1 .. n
    BY <2>3, <2>9 DEF Arranged
  <2> DEFINE lo2 == [x \in 1 .. l + m |-> IF x \in 1 .. l THEN lo[x] ELSE n + (x - l)]
             hi2 == [x \in 1 .. l + m |-> IF x \in 1 .. l THEN hi[x] ELSE n + (x - l)]
  <2>11. lo2 \in [1 .. l + m -> 1 .. N] /\ hi2 \in [1 .. l + m -> 1 .. N]
    BY <2>6, <2>10
  <2>12. /\ \A x \in 1 .. l : lo2[x] = lo[x] /\ hi2[x] = hi[x]
         /\ \A x \in 1 .. l + m : x \notin 1 .. l => lo2[x] = n + (x - l) /\ hi2[x] = n + (x - l)
    BY <2>6
  <2> HIDE DEF lo2, hi2
  <2>13. ASSUME NEW x \in 1 .. l + m PROVE Holds(d, s, out[x], lo2[x], hi2[x])
    <3>1. CASE x \in 1 .. l
      BY <2>3, <2>7, <2>9, <2>12, <3>1 DEF Arranged
    <3>2. CASE x \notin 1 .. l
      <4>1. PICK k \in 1 .. N : k = n + (x - l)
        BY <2>6, <3>2
      <4>2. lo2[x] = k /\ hi2[x] = k /\ out[x] = s[k] /\ ~IsPara(out[x]) /\ ~IsBreakMarker(out[x]) /\ k <= k
        BY <2>8, <2>12, <3>2, <4>1 DEF Divider
      <4> QED BY <1>1, <4>2 DEF Holds
    <3> QED BY <3>1, <3>2
  <2>14. ASSUME NEW x \in 1 .. l + m, NEW y \in 1 .. l + m, x < y
         PROVE  Follows(d, s, out, lo2, hi2, x, y)
    <3>1. CASE y \in 1 .. l
      <4>1. x \in 1 .. l
        BY <2>14, <3>1
      <4>2. Follows(d, s, a.out, lo, hi, x, y) /\ IsBlock(d, a.out[x])
        BY <2>3, <2>7, <2>9, <2>14, <3>1, <4>1 DEF Arranged
      <4>3. hi[x] < lo[y] /\ \E k \in hi[x] .. lo[y] : Divider(d, s[k])
        BY <4>2 DEF Follows
      <4> QED BY <2>7, <2>12, <3>1, <4>1, <4>3 DEF Follows
    <3>2. CASE x \in 1 .. l /\ y \notin 1 .. l
      <4>1. hi[x] \in 1 .. n /\ lo2[y] = n + (y - l) /\ n + (y - l) \in n + 1 .. N
        BY <2>6, <2>10, <2>12, <3>2
      <4>2. n > 0 /\ n \in hi[x] .. lo2[y] /\ hi[x] < lo2[y]
        BY <4>1
      <4>3. Divider(d, s[n])
        BY <1>2, <4>2 DEF Waiting
      <4> QED BY <2>7, <2>12, <3>2, <4>2, <4>3 DEF Follows
    <3>3. CASE x \notin 1 .. l /\ y \notin 1 .. l
      <4>1. /\ hi2[x] = n + (x - l) /\ lo2[x] = n + (x - l) /\ lo2[y] = n + (y - l)
            /\ n + (x - l) \in n + 1 .. N /\ n + (y - l) \in n + 1 .. N
        BY <2>6, <2>12, <3>3
      <4>2. hi2[x] < lo2[y]
        BY <2>14, <4>1
      <4>3. ~IsBlock(d, out[x]) /\ ~IsBlock(d, out[y])
        BY <2>8, <3>3 DEF Divider
      <4>4. ASSUME NEW k \in lo2[x] .. lo2[y]
            PROVE  ~Divider(d, s[k]) /\ \E z \in 1 .. Len(out) : lo2[z] = k
        <5>1. k \in n + 1 .. N /\ l + (k - n) \in 1 .. l + m /\ l + (k - n) \notin 1 .. l
          BY <2>5, <4>1
        <5>2. lo2[l + (k - n)] = n + ((l + (k - n)) - l) /\ n + ((l + (k - n)) - l) = k
          BY <2>12, <5>1
        <5>3. ~Divider(d, s[k])
          BY <1>2, <5>1 DEF Waiting
        <5> QED BY <2>4, <5>1, <5>2, <5>3
      <4> QED BY <4>2, <4>3, <4>4 DEF Follows
    <3> QED BY <2>14, <3>1, <3>2, <3>3
  <2>15. ASSUME NEW k \in 1 .. N, ~IsWhitespace(s[k]), ~IsBreakMarker(s[k])
         PROVE  \E x \in 1 .. l + m : lo2[x] <= k /\ k <= hi2[x]
    <3>1. CASE k \in 1 .. n
      <4>1. PICK x \in 1 .. l : lo[x] <= k /\ k <= hi[x]
        BY <2>3, <2>9, <2>15, <3>1 DEF Arranged
      <4> QED BY <2>6, <2>12, <4>1
    <3>2. CASE k \notin 1 .. n
      <4>1. PICK x \in 1 .. l + m : x = l + (k - n) /\ x \notin 1 .. l
        BY <2>5, <3>2
      <4>2. lo2[x] = n + (x - l) /\ hi2[x] = n + (x - l)
        BY <2>12, <4>1
      <4>3. n + (x - l) = k
        BY <4>1
      <4>4. lo2[x] = k /\ hi2[x] = k /\ k <= k
        BY <4>2, <4>3
      <4> QED BY <4>4
    <3> QED BY <3>1, <3>2
  <2>16. Arranged(d, s, out, lo2, hi2, N)
    BY <2>4, <2>11, <2>13, <2>14, <2>15 DEF Arranged
  <2>17. ~HasPara(out)
    <3> SUFFICES ASSUME NEW x \in 1 .. l + m PROVE ~IsPara(out[x])
      BY <2>4 DEF HasPara
    <3> QED BY <2>7, <2>8
  <2> QED BY <1>1, <2>4, <2>16, <2>17
<1> QED BY <1>4, <1>5

\* The ends of what trimming leaves of a paragraph.
LEMMA FirstAndFinal ==
  ASSUME NEW n \in Nat, NEW S, S \subseteq 1 .. n, S # {}
  PROVE  /\ First(S) \in S /\ \A j \in S : First(S) <= j
         /\ Final(S) \in S /\ \A j \in S : j <= Final(S)
<1>1. \A j \in S : j \in 1 .. n
  OBVIOUS
<1>2. PICK f \in S : \A j \in S : ~(j < f)
  <2>1. S \subseteq Nat
    BY <1>1
  <2> QED BY <2>1, LeastNumber
<1>3. \A j \in S : f <= j
  BY <1>1, <1>2
<1> DEFINE T == {k \in Nat : \E j \in S : k = n - j}
<1>4. T \subseteq Nat /\ T # {}
  <2>1. PICK j \in S : TRUE
    OBVIOUS
  <2>2. n - j \in Nat
    BY <1>1
  <2>3. n - j \in T
    BY <2>2
  <2> QED BY <2>3
<1>5. PICK m \in T : \A k \in T : ~(k < m)
  BY <1>4, LeastNumber
<1>6. PICK g \in S : m = n - g
  BY <1>5
<1>7. ASSUME NEW j \in S PROVE j <= g
  <2>1. n - j \in Nat
    BY <1>1, <1>7
  <2>2. n - j \in T
    BY <1>7, <2>1
  <2>3. ~(n - j < n - g)
    BY <1>5, <1>6, <2>2
  <2> QED BY <1>1, <2>3
<1>8. First(S) \in S /\ \A j \in S : First(S) <= j
  BY <1>3 DEF First
<1>9. Final(S) \in S /\ \A j \in S : j <= Final(S)
  BY <1>7 DEF Final
<1> QED BY <1>8, <1>9

TrimmedFrom(o, a) == IF IsPara(o) THEN a + (First(Content(o.elems)) - 1) ELSE a
TrimmedTo(o, a) == IF IsPara(o) THEN a + (Final(Content(o.elems)) - 1) ELSE a

\* A paragraph has content, at both of its ends.
Tidy(o) ==
  IsPara(o) => /\ o.elems # <<>> /\ Len(o.elems) \in 1 .. Len(o.elems)
               /\ ~IsWhitespace(o.elems[1]) /\ ~IsWhitespace(o.elems[Len(o.elems)])

\* t, the elements of o from a2 to b2, has all of its content.
Shrinks(d, s, o, a, b, t, a2, b2) ==
  /\ a <= a2 /\ a2 <= b2 /\ b2 <= b
  /\ Holds(d, s, t, a2, b2) /\ Tidy(t)
  /\ \A k \in a .. b : ~IsWhitespace(s[k]) => a2 <= k /\ k <= b2

LEMMA TrimmedHolds ==
  ASSUME NEW d, NEW s \in Seq(Objects \cup Markers), NEW o \in Objects \cup Paragraphs,
         NEW a \in Nat, NEW b \in Nat, Holds(d, s, o, a, b), NEW t, t = TrimPara(o)
  PROVE  /\ t \in Objects \cup Paragraphs /\ (IsPara(t) <=> IsPara(o)) /\ (~IsPara(o) => t = o)
         /\ IF IsNotEmptyPara(t)
            THEN Shrinks(d, s, o, a, b, t, TrimmedFrom(o, a), TrimmedTo(o, a))
            ELSE \A k \in a .. b : IsWhitespace(s[k])
<1>1. CASE ~IsPara(o)
  <2>1. t = o
    BY <1>1 DEF TrimPara
  <2>2. IsNotEmptyPara(t) /\ Tidy(t)
    BY <1>1, <2>1 DEF IsNotEmptyPara, Tidy
  <2>3. TrimmedFrom(o, a) = a /\ TrimmedTo(o, a) = a /\ a = b
    BY <1>1 DEF TrimmedFrom, TrimmedTo, Holds
  <2>4. \A k \in a .. b : a <= k /\ k <= a
    BY <2>3
  <2>5. Shrinks(d, s, o, a, b, t, a, a)
    BY <2>1, <2>2, <2>3, <2>4 DEF Shrinks
  <2> QED BY <2>1, <2>2, <2>3, <2>5
<1>2. CASE IsPara(o)
  <2>1. PICK E \in Seq(Objects) : E = o.elems
    BY <1>2 DEF Holds
  <2>2. PICK l \in Nat : l = Len(E) /\ DOMAIN E = 1 .. l
    BY LenProperties
  <2>3. l = (b - a) + 1 /\ a <= b
    BY <1>2, <2>1, <2>2 DEF Holds
  <2>4. \A k \in a .. b : E[(k - a) + 1] = s[k] /\ ~Divider(d, s[k])
    BY <1>2, <2>1 DEF Holds
  <2>5. PICK C : C = Content(E) /\ C \subseteq 1 .. l
    BY <2>2 DEF Content
  <2>6. \A k \in a .. b : ~IsWhitespace(s[k]) <=> (k - a) + 1 \in C
    <3> TAKE k \in a .. b
    <3>1. (k - a) + 1 \in 1 .. l
      BY <2>3
    <3>2. E[(k - a) + 1] = s[k]
      BY <2>4
    <3> QED BY <2>2, <2>5, <3>1, <3>2 DEF Content
  <2>7. PICK R : R = TrimmedEnds(E)
    OBVIOUS
  <2>8. t = MakePara(R)
    BY <1>2, <2>1, <2>7 DEF TrimPara
  <2>9. t.kind = "para" /\ t.elems = R /\ IsPara(t)
    BY <2>8, NewObjects DEF IsPara
  <2>10. CASE C = {}
    <3>1. R = <<>>
      BY <2>5, <2>7, <2>10 DEF TrimmedEnds
    <3>2. <<>> \in Seq(Objects)
      BY EmptySeq
    <3>3. t \in Paragraphs
      BY <2>8, <3>1, <3>2 DEF MakePara, Paragraphs
    <3>4. ~IsNotEmptyPara(t)
      BY <2>9, <3>1 DEF IsNotEmptyPara
    <3>5. \A k \in a .. b : IsWhitespace(s[k])
      BY <2>6, <2>10
    <3> QED BY <1>2, <2>9, <3>3, <3>4, <3>5
  <2>11. CASE C # {}
    <3>1. PICK f \in 1 .. l, g \in 1 .. l :
            /\ f = First(C) /\ g = Final(C) /\ f \in C /\ g \in C
            /\ \A j \in C : f <= j /\ j <= g
      BY <2>5, <2>11, FirstAndFinal
    <3>2. f <= g /\ f \in Int /\ g \in Int
      BY <3>1
    <3>3. R = SubSeq(E, f, g)
      BY <2>5, <2>7, <2>11, <3>1 DEF TrimmedEnds
    <3>4. \A i \in f .. g : E[i] \in Objects
      <4> TAKE i \in f .. g
      <4>1. i \in 1 .. l
        OBVIOUS
      <4> QED BY <2>2, <4>1, ElementOfSeq
    <3>5. /\ R \in Seq(Objects) /\ Len(R) = (g - f) + 1
          /\ \A i \in 1 .. (g - f) + 1 : R[i] = E[(f + i) - 1]
      BY <3>2, <3>3, <3>4, SubSeqProperties
    <3>6. t \in Paragraphs
      BY <2>8, <3>5 DEF MakePara, Paragraphs
    <3>7. (g - f) + 1 \in 1 .. (g - f) + 1 /\ 1 \in 1 .. (g - f) + 1 /\ (f + 1) - 1 = f
          /\ (f + ((g - f) + 1)) - 1 = g
      BY <3>2
    <3>8. ~IsWhitespace(E[f]) /\ ~IsWhitespace(E[g])
      BY <2>5, <3>1 DEF Content
    <3>9. R[1] = E[f] /\ R[Len(R)] = E[g] /\ Len(R) \in 1 .. Len(R)
      BY <3>5, <3>7
    <3>10. Len(R) # 0
      BY <3>2, <3>5
    <3>11. R # <<>>
      BY <3>10, EmptySeq
    <3>12. IsNotEmptyPara(t) /\ Tidy(t)
      BY <2>9, <3>8, <3>9, <3>11 DEF IsNotEmptyPara, Tidy
    <3>13. PICK p \in Nat, q \in Nat : p = a + (f - 1) /\ q = a + (g - 1)
      OBVIOUS
    <3>14. TrimmedFrom(o, a) = p /\ TrimmedTo(o, a) = q
      BY <1>2, <2>1, <2>5, <3>1, <3>13 DEF TrimmedFrom, TrimmedTo
    <3>15. a <= p /\ p <= q /\ q <= b /\ Len(R) = (q - p) + 1
      BY <2>3, <3>2, <3>5, <3>13
    <3>16. \A k \in p .. q : R[(k - p) + 1] = s[k] /\ ~Divider(d, s[k])
      <4> TAKE k \in p .. q
      <4>1. PICK i \in 1 .. (g - f) + 1 : i = (k - p) + 1
        BY <3>13, <3>15
      <4>3. k \in a .. b /\ (f + i) - 1 = (k - a) + 1
        BY <3>13, <3>15, <4>1
      <4>4. R[i] = E[(f + i) - 1]
        BY <3>5
      <4>2. R[(k - p) + 1] = E[(k - a) + 1]
        BY <4>1, <4>3, <4>4
      <4> QED BY <2>4, <4>2, <4>3
    <3>17. Len(s) \in Nat /\ a \in 1 .. Len(s) /\ b \in 1 .. Len(s)
      BY LenProperties DEF Holds
    <3>18. p \in 1 .. Len(s) /\ q \in 1 .. Len(s)
      BY <3>15, <3>17
    <3>19. Holds(d, s, t, p, q)
      BY <2>9, <3>5, <3>15, <3>16, <3>18 DEF Holds
    <3>20. \A k \in a .. b : ~IsWhitespace(s[k]) => p <= k /\ k <= q
      <4> SUFFICES ASSUME NEW k \in a .. b, ~IsWhitespace(s[k]) PROVE p <= k /\ k <= q
        OBVIOUS
      <4>1. (k - a) + 1 \in C
        BY <2>6
      <4>2. f <= (k - a) + 1 /\ (k - a) + 1 <= g
        BY <3>1, <4>1
      <4> QED BY <3>13, <4>2
    <3>21. Shrinks(d, s, o, a, b, t, p, q)
      BY <3>12, <3>15, <3>19, <3>20 DEF Shrinks
    <3> QED BY <1>2, <2>9, <3>6, <3>12, <3>14, <3>21
  <2> QED BY <2>10, <2>11
<1> QED BY <1>1, <1>2

LEMMA TrimArranged ==
  ASSUME NEW d, NEW s \in Seq(Objects \cup Markers), NEW out \in Seq(Objects \cup Paragraphs),
         NEW lo, NEW hi, Arranged(d, s, out, lo, hi, Len(s)), HasPara(out) => AllBlocks(d, out),
         NEW r, r = TrimParas(out)
  PROVE  /\ r \in Seq(Objects \cup Paragraphs) /\ (HasPara(r) => AllBlocks(d, r))
         /\ \A x \in 1 .. Len(r) : Tidy(r[x])
         /\ \E lo2, hi2 : Arranged(d, s, r, lo2, hi2, Len(s))
<1>1. PICK N \in Nat, l \in Nat : N = Len(s) /\ l = Len(out) /\ DOMAIN out = 1 .. l
  BY LenProperties
<1>2. \A x \in 1 .. l : out[x] \in Objects \cup Paragraphs
  BY <1>1, ElementOfSeq
<1> DEFINE T == [x \in DOMAIN out |-> TrimPara(out[x])]
           kept == {x \in DOMAIN out : IsNotEmptyPara(T[x])}
<1>3. r = Only(kept, T)
  BY DEF TrimParas
<1>4. /\ \A x \in 1 .. l : T[x] = TrimPara(out[x])
      /\ \A x \in 1 .. l : x \in kept <=> IsNotEmptyPara(T[x])
      /\ DOMAIN T = 1 .. l /\ T = [x \in 1 .. l |-> T[x]]
  BY <1>1
<1> HIDE DEF T, kept
<1>5. ASSUME NEW x \in 1 .. l
      PROVE  /\ lo[x] \in 1 .. N /\ hi[x] \in 1 .. N
             /\ T[x] \in Objects \cup Paragraphs /\ (IsPara(T[x]) <=> IsPara(out[x]))
             /\ ~IsPara(out[x]) => T[x] = out[x]
             /\ IF x \in kept
                THEN Shrinks(d, s, out[x], lo[x], hi[x], T[x],
                             TrimmedFrom(out[x], lo[x]), TrimmedTo(out[x], lo[x]))
                ELSE \A k \in lo[x] .. hi[x] : IsWhitespace(s[k])
  <2>1. PICK o, a, b : o = out[x] /\ a = lo[x] /\ b = hi[x]
    OBVIOUS
  <2>2. o \in Objects \cup Paragraphs /\ a \in 1 .. N /\ b \in 1 .. N /\ Holds(d, s, o, a, b)
    BY <1>1, <1>2, <2>1 DEF Arranged
  <2>3. a \in Nat /\ b \in Nat
    BY <2>2
  <2>4. PICK t : t = TrimPara(o) /\ t = T[x]
    BY <1>4, <2>1
  <2>5. /\ t \in Objects \cup Paragraphs /\ (IsPara(t) <=> IsPara(o)) /\ (~IsPara(o) => t = o)
        /\ IF IsNotEmptyPara(t)
           THEN Shrinks(d, s, o, a, b, t, TrimmedFrom(o, a), TrimmedTo(o, a))
           ELSE \A k \in a .. b : IsWhitespace(s[k])
    BY <2>2, <2>3, <2>4, TrimmedHolds
  <2>6. x \in kept <=> IsNotEmptyPara(t)
    BY <1>4, <2>4
  <2> QED BY <2>1, <2>2, <2>4, <2>5, <2>6
<1>6. T \in [1 .. l -> Objects \cup Paragraphs]
  BY <1>4, <1>5
<1>7. T \in Seq(Objects \cup Paragraphs) /\ Len(T) = l
  <2>1. T \in Seq(Objects \cup Paragraphs)
    BY <1>6, SeqDef
  <2> QED BY <1>1, <1>4, <2>1, LenProperties
<1>8. r \in Seq(Objects \cup Paragraphs) /\ \E at : PicksOut(at, r, kept, T, l)
  BY <1>3, <1>7, OnlyFacts
<1>9. PICK at : PicksOut(at, r, kept, T, l)
  BY <1>8
<1>10. PICK m \in Nat : m = Len(r)
  BY <1>8, LenProperties
<1>11. \A x \in 1 .. m : at[x] \in 1 .. l /\ at[x] \in kept /\ r[x] = T[at[x]]
  BY <1>9, <1>10 DEF PicksOut
<1> DEFINE lo2 == [x \in 1 .. m |-> TrimmedFrom(out[at[x]], lo[at[x]])]
           hi2 == [x \in 1 .. m |-> TrimmedTo(out[at[x]], lo[at[x]])]
<1>12. \A x \in 1 .. m : lo2[x] = TrimmedFrom(out[at[x]], lo[at[x]]) /\ hi2[x] = TrimmedTo(out[at[x]], lo[at[x]])
  OBVIOUS
<1>13. lo2 = [x \in 1 .. m |-> lo2[x]] /\ hi2 = [x \in 1 .. m |-> hi2[x]]
  OBVIOUS
<1> HIDE DEF lo2, hi2
<1>14. ASSUME NEW x \in 1 .. m
       PROVE  /\ Shrinks(d, s, out[at[x]], lo[at[x]], hi[at[x]], r[x], lo2[x], hi2[x])
              /\ IsPara(r[x]) <=> IsPara(out[at[x]])
              /\ ~IsPara(out[at[x]]) => r[x] = out[at[x]] /\ lo2[x] = lo[at[x]]
  <2>1. PICK X \in 1 .. l : X = at[x] /\ X \in kept /\ r[x] = T[X]
    BY <1>11
  <2>2. lo2[x] = TrimmedFrom(out[X], lo[X]) /\ hi2[x] = TrimmedTo(out[X], lo[X])
    BY <1>12, <2>1
  <2>3. Shrinks(d, s, out[X], lo[X], hi[X], r[x], lo2[x], hi2[x])
    BY <1>5, <2>1, <2>2
  <2>4. ~IsPara(out[X]) => r[x] = out[X] /\ lo2[x] = lo[X]
    BY <1>5, <2>1, <2>2 DEF TrimmedFrom
  <2> QED BY <1>5, <2>1, <2>3, <2>4
<1>15. \A x \in 1 .. m : lo2[x] \in 1 .. N /\ hi2[x] \in 1 .. N
  BY <1>1, <1>14 DEF Shrinks, Holds
<1>16. lo2 \in [1 .. m -> 1 .. N] /\ hi2 \in [1 .. m -> 1 .. N]
  BY <1>13, <1>15
<1>17. \A x \in 1 .. m : Holds(d, s, r[x], lo2[x], hi2[x]) /\ Tidy(r[x])
  BY <1>14 DEF Shrinks
<1>18. \A x \in 1 .. m : IsBlock(d, r[x]) <=> IsBlock(d, out[at[x]])
  <2> TAKE x \in 1 .. m
  <2>1. CASE IsPara(out[at[x]])
    BY <1>14, <2>1 DEF IsBlock
  <2>2. CASE ~IsPara(out[at[x]])
    BY <1>14, <2>2
  <2> QED BY <2>1, <2>2
<1>19. HasPara(r) => AllBlocks(d, r)
  <2> SUFFICES ASSUME NEW x \in 1 .. m, IsPara(r[x]), NEW y \in 1 .. m PROVE IsBlock(d, r[y])
    BY <1>10 DEF HasPara, AllBlocks
  <2>1. HasPara(out)
    BY <1>1, <1>11, <1>14 DEF HasPara
  <2>2. IsBlock(d, out[at[y]])
    BY <1>1, <1>11, <2>1 DEF AllBlocks
  <2> QED BY <1>18, <2>2
<1>20. ASSUME NEW x \in 1 .. m, NEW y \in 1 .. m, x < y PROVE Follows(d, s, r, lo2, hi2, x, y)
  <2>1. PICK X \in 1 .. l, Y \in 1 .. l : X = at[x] /\ Y = at[y]
    BY <1>11
  <2>2. X < Y
    BY <1>9, <1>10, <1>20, <2>1 DEF PicksOut
  <2>3. Follows(d, s, out, lo, hi, X, Y)
    BY <1>1, <2>2 DEF Arranged
  <2>4. hi2[x] <= hi[X] /\ lo[Y] <= lo2[y]
    BY <1>14, <2>1 DEF Shrinks
  <2>5. lo[Y] \in Nat /\ hi[X] \in Nat /\ lo2[y] \in Nat /\ hi2[x] \in Nat
    BY <1>5, <1>15
  <2>6. hi2[x] < lo2[y]
    BY <2>3, <2>4, <2>5 DEF Follows
  <2>7. CASE IsBlock(d, out[X]) \/ IsBlock(d, out[Y])
    <3>1. PICK k \in hi[X] .. lo[Y] : Divider(d, s[k])
      BY <2>3, <2>7 DEF Follows
    <3>2. k \in hi2[x] .. lo2[y]
      BY <2>4, <2>5
    <3>3. IsBlock(d, r[x]) \/ IsBlock(d, r[y])
      BY <1>18, <2>1, <2>7
    <3> QED BY <2>6, <3>1, <3>2, <3>3 DEF Follows
  <2>8. CASE ~IsBlock(d, out[X]) /\ ~IsBlock(d, out[Y])
    <3>1. \A k \in lo[X] .. lo[Y] :
            ~Divider(d, s[k]) /\ \E z \in 1 .. l : lo[z] = k
      BY <1>1, <2>3, <2>8 DEF Follows
    <3>2. ~HasPara(out)
      BY <1>1, <2>8 DEF AllBlocks
    <3>3. \A z \in 1 .. l : ~IsPara(out[z])
      BY <1>1, <3>2 DEF HasPara
    <3>4. lo2[x] = lo[X] /\ lo2[y] = lo[Y]
      BY <1>14, <2>1, <3>3
    <3>5. ~IsBlock(d, r[x]) /\ ~IsBlock(d, r[y])
      BY <1>18, <2>1, <2>8
    <3>6. ASSUME NEW k \in lo2[x] .. lo2[y]
          PROVE  ~Divider(d, s[k]) /\ \E z \in 1 .. Len(r) : lo2[z] = k
      <4>1. ~Divider(d, s[k]) /\ \E z \in 1 .. l : lo[z] = k
        BY <3>1, <3>4
      <4>2. PICK Z \in 1 .. l : lo[Z] = k
        BY <4>1
      <4>3. ~IsPara(out[Z]) /\ T[Z] = out[Z]
        BY <1>5, <3>3
      <4>4. Z \in kept
        BY <1>4, <4>3 DEF IsNotEmptyPara
      <4>5. PICK z \in 1 .. m : at[z] = Z
        BY <1>9, <1>10, <4>4 DEF PicksOut
      <4>6. lo2[z] = k
        BY <1>14, <4>2, <4>3, <4>5
      <4> QED BY <1>10, <4>1, <4>6
    <3> QED BY <2>6, <3>5, <3>6 DEF Follows
  <2> QED BY <2>7, <2>8
<1>21. ASSUME NEW k \in 1 .. N, ~IsWhitespace(s[k]), ~IsBreakMarker(s[k])
       PROVE  \E x \in 1 .. m : lo2[x] <= k /\ k <= hi2[x]
  <2>1. PICK X \in 1 .. l : lo[X] <= k /\ k <= hi[X]
    BY <1>1, <1>21 DEF Arranged
  <2>2. k \in lo[X] .. hi[X]
    BY <1>5, <2>1
  <2>3. X \in kept
    BY <1>5, <1>21, <2>2
  <2>4. PICK x \in 1 .. m : at[x] = X
    BY <1>9, <1>10, <2>3 DEF PicksOut
  <2> QED BY <1>14, <1>21, <2>2, <2>4 DEF Shrinks
<1>22. Arranged(d, s, r, lo2, hi2, N)
  BY <1>10, <1>16, <1>17, <1>20, <1>21 DEF Arranged
<1> QED BY <1>1, <1>8, <1>10, <1>17, <1>19, <1>22

\* What a node's elements become in the last pass.
Settled(d, s, r) ==
  /\ r \in Seq(Objects \cup Paragraphs) /\ (HasPara(r) => AllBlocks(d, r))
  /\ \A x \in 1 .. Len(r) : Tidy(r[x])
  /\ \E lo, hi : Arranged(d, s, r, lo, hi, Len(s))

LEMMA ParasSettled ==
  ASSUME NEW d, NEW b, NEW s \in Seq(Objects \cup Markers),
         \A k \in 1 .. Len(s) : IsBlock(d, s[k]) <=> IsBlock(b, s[k])
  PROVE  Settled(b, s, Paras(d, s))
<1>1. PICK a : a = Gathered(d, s)
  OBVIOUS
<1>2. GatheredInv(b, s, a, Len(s))
  BY <1>1, GatheredFacts
<1>3. PICK out : out = Finish(a)
  OBVIOUS
<1>4. /\ out \in Seq(Objects \cup Paragraphs) /\ (HasPara(out) => AllBlocks(b, out))
      /\ \E lo, hi : Arranged(b, s, out, lo, hi, Len(s))
  BY <1>2, <1>3, FinishArranged
<1>5. PICK lo, hi : Arranged(b, s, out, lo, hi, Len(s))
  BY <1>4
<1>6. PICK r : r = TrimParas(out)
  OBVIOUS
<1>7. r = Paras(d, s)
  BY <1>1, <1>3, <1>6 DEF Paras
<1>8. /\ r \in Seq(Objects \cup Paragraphs) /\ (HasPara(r) => AllBlocks(b, r))
      /\ \A x \in 1 .. Len(r) : Tidy(r[x])
      /\ \E lo2, hi2 : Arranged(b, s, r, lo2, hi2, Len(s))
  BY <1>4, <1>5, <1>6, TrimArranged
<1> QED BY <1>7, <1>8 DEF Settled

-----------------------------------------------------------------------------
(* Places in the result, and the elements of s that stand there.            *)

Index(lo, p) == IF p[2] = 0 THEN lo[p[1]] ELSE (lo[p[1]] + p[2]) - 1

\* r is what the elements of s have become.
Became(d, s, r, lo, hi) ==
  /\ s \in Seq(Objects \cup Markers) /\ r \in Seq(Objects \cup Paragraphs)
  /\ Arranged(d, s, r, lo, hi, Len(s))

LEMMA PlaceCases ==
  ASSUME NEW r \in Seq(Objects \cup Paragraphs)
  PROVE  \A p : p \in Places(r) <=>
           \E x \in 1 .. Len(r) :
             \/ ~IsPara(r[x]) /\ p = <<x, 0>>
             \/ IsPara(r[x]) /\ \E y \in 1 .. Len(r[x].elems) : p = <<x, y>>
<1>1. DOMAIN r = 1 .. Len(r) /\ \A x \in 1 .. Len(r) : r[x] \in Objects \cup Paragraphs
  BY LenProperties, ElementOfSeq
<1>2. ASSUME NEW x \in 1 .. Len(r), IsPara(r[x]) PROVE DOMAIN r[x].elems = 1 .. Len(r[x].elems)
  <2>1. r[x] \in Paragraphs
    BY <1>1, <1>2, Kinds
  <2>2. r[x].elems \in Seq(Objects)
    BY <2>1, Kinds
  <2> QED BY <2>2, LenProperties
<1> QED BY <1>1, <1>2 DEF Places

LEMMA PlaceIndex ==
  ASSUME NEW d, NEW s, NEW r, NEW lo, NEW hi, Became(d, s, r, lo, hi), NEW p \in Places(r)
  PROVE  /\ p[1] \in 1 .. Len(r) /\ lo[p[1]] \in 1 .. Len(s) /\ hi[p[1]] \in 1 .. Len(s)
         /\ Index(lo, p) \in lo[p[1]] .. hi[p[1]] /\ Index(lo, p) \in 1 .. Len(s)
         /\ ObjectAt(r, p) = s[Index(lo, p)] /\ ~IsBreakMarker(ObjectAt(r, p))
         /\ IF IsPara(r[p[1]]) THEN p[2] \in 1 .. Len(r[p[1]].elems) ELSE p[2] = 0
<1>1. r \in Seq(Objects \cup Paragraphs) /\ Len(s) \in Nat
  BY LenProperties DEF Became
<1>2. PICK x \in 1 .. Len(r) :
        \/ ~IsPara(r[x]) /\ p = <<x, 0>>
        \/ IsPara(r[x]) /\ \E y \in 1 .. Len(r[x].elems) : p = <<x, y>>
  BY <1>1, PlaceCases
<1>3. PICK a, b : a = lo[x] /\ b = hi[x]
  OBVIOUS
<1>4. a \in 1 .. Len(s) /\ b \in 1 .. Len(s) /\ a <= b /\ Holds(d, s, r[x], a, b)
  BY <1>3 DEF Became, Arranged, Holds
<1>5. CASE ~IsPara(r[x]) /\ p = <<x, 0>>
  <2>1. p[1] = x /\ p[2] = 0
    BY <1>5
  <2>2. Index(lo, p) = a /\ ObjectAt(r, p) = r[x]
    BY <1>3, <2>1 DEF Index, ObjectAt
  <2>3. a = b /\ r[x] = s[a] /\ ~IsBreakMarker(r[x]) /\ a \in a .. a
    BY <1>4, <1>5 DEF Holds
  <2> QED BY <1>3, <1>4, <1>5, <2>1, <2>2, <2>3
<1>6. CASE IsPara(r[x]) /\ \E y \in 1 .. Len(r[x].elems) : p = <<x, y>>
  <2>1. PICK y \in 1 .. Len(r[x].elems) : p = <<x, y>>
    BY <1>6
  <2>2. p[1] = x /\ p[2] = y
    BY <2>1
  <2>3. Len(r[x].elems) = (b - a) + 1
    BY <1>4, <1>6 DEF Holds
  <2>4. PICK k \in a .. b : k = (a + y) - 1 /\ (k - a) + 1 = y /\ y # 0
    BY <1>4, <2>3
  <2>5. Index(lo, p) = k /\ ObjectAt(r, p) = r[x].elems[y]
    BY <1>3, <2>2, <2>4 DEF Index, ObjectAt
  <2>6. r[x].elems[(k - a) + 1] = s[k] /\ ~Divider(d, s[k])
    BY <1>4, <1>6 DEF Holds
  <2>7. r[x].elems[y] = s[k] /\ ~IsBreakMarker(s[k])
    BY <2>4, <2>6 DEF Divider
  <2>8. k \in 1 .. Len(s)
    BY <1>4
  <2> QED BY <1>3, <1>4, <1>6, <2>2, <2>5, <2>7, <2>8
<1> QED BY <1>2, <1>5, <1>6

LEMMA PlaceOf ==
  ASSUME NEW d, NEW s, NEW r, NEW lo, NEW hi, Became(d, s, r, lo, hi),
         NEW x \in 1 .. Len(r), NEW k \in lo[x] .. hi[x]
  PROVE  \E p \in Places(r) : p[1] = x /\ Index(lo, p) = k
<1>1. r \in Seq(Objects \cup Paragraphs) /\ Len(s) \in Nat
  BY LenProperties DEF Became
<1>2. PICK a, b : a = lo[x] /\ b = hi[x]
  OBVIOUS
<1>3. a \in 1 .. Len(s) /\ b \in 1 .. Len(s) /\ a <= b /\ Holds(d, s, r[x], a, b)
  BY <1>2 DEF Became, Arranged, Holds
<1>4. CASE ~IsPara(r[x])
  <2>1. PICK p : p = <<x, 0>>
    OBVIOUS
  <2>2. p \in Places(r) /\ p[1] = x /\ p[2] = 0
    BY <1>1, <1>4, <2>1, PlaceCases
  <2>3. a = b
    BY <1>3, <1>4 DEF Holds
  <2>4. k = a
    BY <1>2, <1>3, <2>3
  <2> QED BY <1>2, <2>2, <2>4 DEF Index
<1>5. CASE IsPara(r[x])
  <2>1. Len(r[x].elems) = (b - a) + 1
    BY <1>3, <1>5 DEF Holds
  <2>2. PICK y \in 1 .. Len(r[x].elems) : k = (a + y) - 1 /\ y # 0
    <3>1. (k - a) + 1 \in 1 .. Len(r[x].elems) /\ k = (a + ((k - a) + 1)) - 1 /\ (k - a) + 1 # 0
      BY <1>2, <1>3, <2>1
    <3> QED BY <3>1
  <2>3. PICK p : p = <<x, y>>
    OBVIOUS
  <2>4. p[1] = x /\ p[2] = y
    BY <2>3
  <2>5. p \in Places(r)
    BY <1>1, <1>5, <2>3, PlaceCases
  <2> QED BY <1>2, <2>2, <2>4, <2>5 DEF Index
<1> QED BY <1>4, <1>5

LEMMA PlacesOrdered ==
  ASSUME NEW d, NEW s, NEW r, NEW lo, NEW hi, Became(d, s, r, lo, hi),
         NEW p \in Places(r), NEW q \in Places(r)
  PROVE  Before(p, q) <=> Index(lo, p) < Index(lo, q)
<1>1. PICK x, y, u, v : x = p[1] /\ y = q[1] /\ u = p[2] /\ v = q[2]
  OBVIOUS
<1>2. PICK i, j : i = Index(lo, p) /\ j = Index(lo, q)
  OBVIOUS
<1>3. /\ x \in 1 .. Len(r) /\ lo[x] \in 1 .. Len(s) /\ hi[x] \in 1 .. Len(s)
      /\ i \in lo[x] .. hi[x] /\ i \in 1 .. Len(s)
      /\ IF IsPara(r[x]) THEN u \in 1 .. Len(r[x].elems) ELSE u = 0
  BY <1>1, <1>2, PlaceIndex
<1>4. /\ y \in 1 .. Len(r) /\ lo[y] \in 1 .. Len(s) /\ hi[y] \in 1 .. Len(s)
      /\ j \in lo[y] .. hi[y] /\ j \in 1 .. Len(s)
      /\ IF IsPara(r[y]) THEN v \in 1 .. Len(r[y].elems) ELSE v = 0
  BY <1>1, <1>2, PlaceIndex
<1>5. Len(s) \in Nat /\ Len(r) \in Nat
  BY LenProperties DEF Became
<1>6. CASE x < y
  <2>1. hi[x] < lo[y]
    BY <1>3, <1>4, <1>6 DEF Became, Arranged, Follows
  <2>2. i < j
    BY <1>3, <1>4, <2>1
  <2> QED BY <1>1, <1>2, <1>6, <2>2 DEF Before
<1>7. CASE y < x
  <2>1. hi[y] < lo[x]
    BY <1>3, <1>4, <1>7 DEF Became, Arranged, Follows
  <2>2. ~(i < j)
    BY <1>3, <1>4, <2>1
  <2>3. ~(x < y) /\ x # y
    BY <1>3, <1>4, <1>7
  <2> QED BY <1>1, <1>2, <2>2, <2>3 DEF Before
<1>8. CASE x = y
  <2>1. PICK a \in Nat : a = lo[x]
    BY <1>3
  <2>2. i = IF u = 0 THEN a ELSE (a + u) - 1
    BY <1>1, <1>2, <2>1 DEF Index
  <2>3. j = IF v = 0 THEN a ELSE (a + v) - 1
    BY <1>1, <1>2, <1>8, <2>1 DEF Index
  <2>4. ~(x < y)
    BY <1>3, <1>8
  <2>5. Before(p, q) <=> u < v
    BY <1>1, <1>8, <2>4 DEF Before
  <2>6. CASE IsPara(r[x])
    <3>1. r[x].elems \in Seq(Objects)
      BY <1>3, <2>6 DEF Became, Arranged, Holds
    <3>2. Len(r[x].elems) \in Nat
      BY <3>1, LenProperties
    <3>3. u \in Nat /\ v \in Nat /\ u # 0 /\ v # 0
      BY <1>3, <1>4, <1>8, <2>6, <3>2
    <3>4. i = (a + u) - 1 /\ j = (a + v) - 1
      BY <2>2, <2>3, <3>3
    <3>5. u < v <=> i < j
      BY <3>3, <3>4
    <3> QED BY <1>2, <2>5, <3>5
  <2>7. CASE ~IsPara(r[x])
    <3>1. u = 0 /\ v = 0 /\ i = a /\ j = a
      BY <1>3, <1>4, <1>8, <2>2, <2>3, <2>7
    <3> QED BY <1>2, <2>1, <2>5, <3>1
  <2> QED BY <2>6, <2>7
<1> QED BY <1>3, <1>4, <1>5, <1>6, <1>7, <1>8

-----------------------------------------------------------------------------
(* What this means for a node whose elements were before *)

\* The content at p is that at its own position in the input.
LEMMA ContentPlace ==
  ASSUME NEW before, NEW d, NEW s, NEW r, NEW lo, NEW hi,
         Broken(before, s), Became(d, s, r, lo, hi), NEW p \in ContentPlaces(r)
  PROVE  /\ p \in Places(r) /\ Index(lo, p) \in 1 .. Len(s)
         /\ ObjectAt(r, p) = s[Index(lo, p)] /\ ~IsWhitespace(ObjectAt(r, p))
         /\ ObjectAt(r, p).at \in 1 .. Len(before)
         /\ ObjectAt(r, p) = before[ObjectAt(r, p).at]
<1>1. p \in Places(r) /\ ~IsWhitespace(ObjectAt(r, p))
  BY DEF ContentPlaces
<1>2. PICK k \in 1 .. Len(s) : k = Index(lo, p) /\ ObjectAt(r, p) = s[k] /\ ~IsBreakMarker(s[k])
  BY <1>1, PlaceIndex
<1>3. s[k].at \in 1 .. Len(before) /\ s[k] = before[s[k].at]
  BY <1>1, <1>2 DEF Broken
<1> QED BY <1>1, <1>2, <1>3

LEMMA ContentOrdered ==
  ASSUME NEW before, NEW d, NEW s, NEW r, NEW lo, NEW hi,
         Broken(before, s), Became(d, s, r, lo, hi),
         NEW p \in ContentPlaces(r), NEW q \in ContentPlaces(r), Before(p, q)
  PROVE  Index(lo, p) < Index(lo, q) /\ ObjectAt(r, p).at < ObjectAt(r, q).at
<1>1. p \in Places(r) /\ q \in Places(r)
  BY DEF ContentPlaces
<1>2. Index(lo, p) < Index(lo, q)
  BY <1>1, PlacesOrdered
<1>3. ObjectAt(r, p) = s[Index(lo, p)] /\ Index(lo, p) \in 1 .. Len(s)
  BY ContentPlace
<1>4. ObjectAt(r, q) = s[Index(lo, q)] /\ Index(lo, q) \in 1 .. Len(s)
  BY ContentPlace
<1> QED BY <1>2, <1>3, <1>4 DEF Broken, Ordered

SameContent(before, r) ==
  {ObjectAt(r, p) : p \in ContentPlaces(r)} = {before[i] : i \in Content(before)}

LEMMA ContentKept ==
  ASSUME NEW before, NEW d, NEW s, NEW r, NEW lo, NEW hi,
         IsSource(before), Broken(before, s), Became(d, s, r, lo, hi)
  PROVE  SameContent(before, r)
<1>1. Len(before) \in Nat /\ DOMAIN before = 1 .. Len(before) /\ Len(s) \in Nat
  BY LenProperties DEF IsSource, Became
<1>2. ASSUME NEW p \in ContentPlaces(r)
      PROVE  \E i \in Content(before) : before[i] = ObjectAt(r, p)
  <2>1. PICK o, i : o = ObjectAt(r, p) /\ i = o.at
    OBVIOUS
  <2>2. i \in 1 .. Len(before) /\ o = before[i] /\ ~IsWhitespace(o)
    BY <2>1, ContentPlace
  <2>3. i \in Content(before)
    BY <1>1, <2>2 DEF Content
  <2> QED BY <2>1, <2>2, <2>3
<1>3. ASSUME NEW i \in Content(before)
      PROVE  \E p \in ContentPlaces(r) : ObjectAt(r, p) = before[i]
  <2>1. i \in 1 .. Len(before) /\ ~IsWhitespace(before[i])
    BY <1>1 DEF Content
  <2>2. PICK k \in 1 .. Len(s) : s[k] = before[i]
    BY <2>1 DEF Broken
  <2>3. ~IsBreakMarker(s[k])
    <3>1. before[i] \in Objects
      BY <2>1, ElementOfSeq DEF IsSource
    <3> QED BY <2>2, <3>1, Kinds
  <2>4. PICK x \in 1 .. Len(r) : lo[x] <= k /\ k <= hi[x]
    BY <2>1, <2>2, <2>3 DEF Became, Arranged
  <2>5. lo[x] \in 1 .. Len(s) /\ hi[x] \in 1 .. Len(s)
    BY DEF Became, Arranged
  <2>6. k \in lo[x] .. hi[x]
    BY <2>4, <2>5
  <2>7. PICK p \in Places(r) : Index(lo, p) = k
    BY <2>6, PlaceOf
  <2>8. ObjectAt(r, p) = s[k]
    BY <2>7, PlaceIndex
  <2>9. p \in ContentPlaces(r)
    BY <2>1, <2>2, <2>8 DEF ContentPlaces
  <2> QED BY <2>2, <2>8, <2>9
<1> QED BY <1>2, <1>3 DEF SameContent

\* There is a divider between two elements exactly when there was a blank line or
\* a block in the input.
LEMMA DividedIffApart ==
  ASSUME NEW before, NEW d, NEW s, IsSource(before), Broken(before, s), KeepsBreaks(before, s),
         NEW x \in 1 .. Len(s), NEW y \in 1 .. Len(s), x < y,
         NEW i \in 1 .. Len(before), NEW j \in 1 .. Len(before), i = s[x].at, j = s[y].at,
         ~IsWhitespace(before[i]), ~IsWhitespace(before[j])
  PROVE  (\E k \in x .. y : Divider(d, s[k])) <=> Apart(d, before, i, j)
<1>1. s \in Seq(Objects \cup Markers) /\ Ordered(s) /\ Len(s) \in Nat /\ Len(before) \in Nat
  BY LenProperties DEF Broken, IsSource
<1>2. i < j
  BY <1>1, OrderedIndex
<1>3. ASSUME NEW k \in x .. y, IsBreakMarker(s[k]) PROVE Blank(before, i, j)
  <2>1. k \in 1 .. Len(s)
    BY <1>1
  <2>2. PICK a : a = s[k].at
    OBVIOUS
  <2>3. a \in 1 .. Len(before)
    BY <2>1, <2>2 DEF Broken
  <2>4. PICK l \in 1 .. Len(before) : BlankFrom(before, a, l)
    BY <1>3, <2>1, <2>2 DEF KeepsBreaks
  <2>5. i <= a /\ a <= j
    <3>1. k = x \/ x < k
      OBVIOUS
    <3>2. k = y \/ k < y
      OBVIOUS
    <3>3. i \in Nat /\ j \in Nat
      OBVIOUS
    <3>4. x < k => i < a
      BY <1>1, <2>1, <2>2, OrderedIndex
    <3>5. k < y => a < j
      BY <1>1, <2>1, <2>2, OrderedIndex
    <3>6. a \in Nat
      BY <1>1, <2>1, <2>2, OrderedIndex
    <3>7. i <= a
      BY <2>2, <3>1, <3>3, <3>4, <3>6
    <3> QED BY <2>2, <3>2, <3>3, <3>5, <3>6, <3>7
  <2>6. a < l /\ IsNewline(before[a]) /\ IsNewline(before[l]) /\ \A z \in a .. l : IsWhitespace(before[z])
    BY <2>4 DEF BlankFrom
  <2>7. l < j
    <3> SUFFICES ASSUME ~(l < j) PROVE FALSE
      OBVIOUS
    <3>1. j \in a .. l
      BY <2>3, <2>5
    <3> QED BY <2>6, <3>1
  <2>8. a \in i .. j /\ l \in i .. j
    BY <2>3, <2>5, <2>6, <2>7
  <2> QED BY <2>6, <2>8 DEF Blank
<1>4. ASSUME NEW k \in x .. y, IsBlock(d, s[k]) PROVE \E z \in i .. j : IsBlock(d, before[z])
  <2>1. k \in 1 .. Len(s)
    BY <1>1
  <2>2. s[k] \in Objects \cup Markers
    BY <1>1, <2>1, ElementOfSeq
  <2>3. ~IsBreakMarker(s[k]) /\ ~IsWhitespace(s[k])
    BY <1>4, <2>2, Kinds DEF IsBlock, IsPara, IsWhitespace, IsText, IsBreakMarker
  <2>4. PICK a : a = s[k].at
    OBVIOUS
  <2>5. a \in 1 .. Len(before) /\ s[k] = before[a]
    BY <2>1, <2>3, <2>4 DEF Broken
  <2>6. i <= a /\ a <= j
    <3>1. k = x \/ x < k
      OBVIOUS
    <3>2. k = y \/ k < y
      OBVIOUS
    <3>3. i \in Nat /\ j \in Nat
      OBVIOUS
    <3>4. x < k => i < a
      BY <1>1, <2>1, <2>4, OrderedIndex
    <3>5. k < y => a < j
      BY <1>1, <2>1, <2>4, OrderedIndex
    <3>6. a \in Nat
      BY <1>1, <2>1, <2>4, OrderedIndex
    <3>7. i <= a
      BY <2>4, <3>1, <3>3, <3>4, <3>6
    <3> QED BY <2>4, <3>2, <3>3, <3>5, <3>6, <3>7
  <2>7. a \in i .. j
    BY <2>5, <2>6
  <2> QED BY <1>4, <2>5, <2>7
<1>5. ASSUME Blank(before, i, j) PROVE \E k \in x .. y : IsBreakMarker(s[k])
  <2>1. PICK k \in 1 .. Len(s) : IsBreakMarker(s[k]) /\ i < s[k].at /\ s[k].at < j
    BY <1>2, <1>5 DEF KeepsBreaks
  <2>2. x < k /\ k < y
    BY <1>1, <2>1, OrderedIndex
  <2>3. k \in x .. y
    BY <2>2
  <2> QED BY <2>1, <2>3
<1>6. ASSUME NEW z \in i .. j, IsBlock(d, before[z]) PROVE \E k \in x .. y : IsBlock(d, s[k])
  <2>1. z \in 1 .. Len(before)
    BY <1>1
  <2>2. ~IsWhitespace(before[z])
    <3>1. before[z] \in Objects
      BY <2>1, ElementOfSeq DEF IsSource
    <3> QED BY <1>6, <3>1, Kinds DEF IsBlock, IsWhitespace, IsText
  <2>3. PICK k \in 1 .. Len(s) : s[k] = before[z]
    BY <2>1, <2>2 DEF Broken
  <2>4. s[k].at = z
    BY <2>1, <2>3 DEF IsSource
  <2>5. ~(k < x) /\ ~(y < k)
    <3>1. ~(s[k].at < i) /\ ~(j < s[k].at)
      BY <2>4
    <3> QED BY <1>1, <3>1, OrderedIndex
  <2>6. k \in x .. y
    BY <2>5
  <2> QED BY <1>6, <2>3, <2>6
<1>7. ASSUME NEW k \in x .. y, Divider(d, s[k]) PROVE Apart(d, before, i, j)
  BY <1>3, <1>4, <1>7 DEF Divider, Apart
<1>8. ASSUME Apart(d, before, i, j) PROVE \E k \in x .. y : Divider(d, s[k])
  BY <1>5, <1>6, <1>8 DEF Divider, Apart
<1> QED BY <1>7, <1>8

\* Two places are in one paragraph, or in none, exactly when no divider is between
\* what stands there.
LEMMA TogetherIffUndivided ==
  ASSUME NEW d, NEW s, NEW r, NEW lo, NEW hi, Became(d, s, r, lo, hi),
         NEW p \in Places(r), NEW q \in Places(r), Before(p, q)
  PROVE  Together(d, r, p, q) <=> ~\E k \in Index(lo, p) .. Index(lo, q) : Divider(d, s[k])
<1>1. PICK x, y, i, j : x = p[1] /\ y = q[1] /\ i = Index(lo, p) /\ j = Index(lo, q)
  OBVIOUS
<1>2. /\ x \in 1 .. Len(r) /\ lo[x] \in 1 .. Len(s) /\ hi[x] \in 1 .. Len(s)
      /\ i \in lo[x] .. hi[x] /\ (~IsPara(r[x]) => p[2] = 0)
  BY <1>1, PlaceIndex
<1>3. /\ y \in 1 .. Len(r) /\ lo[y] \in 1 .. Len(s) /\ hi[y] \in 1 .. Len(s)
      /\ j \in lo[y] .. hi[y] /\ (~IsPara(r[y]) => q[2] = 0)
  BY <1>1, PlaceIndex
<1>4. i < j
  BY <1>1, PlacesOrdered
<1>5. Len(s) \in Nat /\ Len(r) \in Nat
  BY LenProperties DEF Became
<1>6. x < y \/ x = y
  BY <1>1 DEF Before
<1>7. CASE x = y
  <2>1. Together(d, r, p, q)
    BY <1>1, <1>7 DEF Together
  <2>2. Holds(d, s, r[x], lo[x], hi[x])
    BY <1>2 DEF Became, Arranged
  <2>3. IsPara(r[x])
    <3> SUFFICES ASSUME ~IsPara(r[x]) PROVE FALSE
      OBVIOUS
    <3>1. lo[x] = hi[x]
      BY <2>2 DEF Holds
    <3> QED BY <1>2, <1>3, <1>4, <1>7, <3>1
  <2>4. \A k \in lo[x] .. hi[x] : ~Divider(d, s[k])
    BY <2>2, <2>3 DEF Holds
  <2>5. \A k \in i .. j : k \in lo[x] .. hi[x]
    BY <1>2, <1>3, <1>7
  <2> QED BY <1>1, <2>1, <2>4, <2>5
<1>8. CASE x < y
  <2>1. Follows(d, s, r, lo, hi, x, y)
    BY <1>2, <1>3, <1>8 DEF Became, Arranged
  <2>2. CASE IsBlock(d, r[x]) \/ IsBlock(d, r[y])
    <3>1. ~Together(d, r, p, q)
      BY <1>1, <1>2, <1>3, <1>8, <2>2 DEF Together
    <3>2. PICK k \in hi[x] .. lo[y] : Divider(d, s[k])
      BY <2>1, <2>2 DEF Follows
    <3>3. k \in i .. j
      BY <1>2, <1>3
    <3> QED BY <1>1, <3>1, <3>2, <3>3
  <2>3. CASE ~IsBlock(d, r[x]) /\ ~IsBlock(d, r[y])
    <3>1. ~IsPara(r[x]) /\ ~IsPara(r[y])
      BY <2>3 DEF IsBlock
    <3>2. Together(d, r, p, q)
      BY <1>1, <1>2, <1>3, <2>3, <3>1 DEF Together
    <3>3. \A k \in lo[x] .. lo[y] : ~Divider(d, s[k])
      BY <2>1, <2>3 DEF Follows
    <3>4. lo[x] = hi[x] /\ lo[y] = hi[y]
      BY <1>2, <1>3, <3>1 DEF Became, Arranged, Holds
    <3>5. \A k \in i .. j : k \in lo[x] .. lo[y]
      BY <1>2, <1>3, <3>4
    <3> QED BY <1>1, <3>2, <3>3, <3>5
  <2> QED BY <2>2, <2>3
<1> QED BY <1>6, <1>7, <1>8

\* Between two places without a divider, each element has a place of its own.
LEMMA PlacesBetween ==
  ASSUME NEW d, NEW s, NEW r, NEW lo, NEW hi, Became(d, s, r, lo, hi),
         NEW p \in Places(r), NEW q \in Places(r), Before(p, q), Together(d, r, p, q),
         NEW k \in Index(lo, p) .. Index(lo, q)
  PROVE  \E w \in Places(r) : Index(lo, w) = k
<1>1. PICK x, y, i, j : x = p[1] /\ y = q[1] /\ i = Index(lo, p) /\ j = Index(lo, q)
  OBVIOUS
<1>2. /\ x \in 1 .. Len(r) /\ lo[x] \in 1 .. Len(s) /\ hi[x] \in 1 .. Len(s) /\ i \in lo[x] .. hi[x]
  BY <1>1, PlaceIndex
<1>3. /\ y \in 1 .. Len(r) /\ lo[y] \in 1 .. Len(s) /\ hi[y] \in 1 .. Len(s) /\ j \in lo[y] .. hi[y]
  BY <1>1, PlaceIndex
<1>4. CASE x = y
  <2>1. k \in lo[x] .. hi[x]
    BY <1>1, <1>2, <1>3, <1>4
  <2> QED BY <1>2, <2>1, PlaceOf
<1>5. CASE x # y
  <2>1. ~IsBlock(d, r[x]) /\ ~IsBlock(d, r[y])
    BY <1>1, <1>5 DEF Together
  <2>2. x < y
    BY <1>1, <1>5 DEF Before
  <2>3. Follows(d, s, r, lo, hi, x, y)
    BY <1>2, <1>3, <2>2 DEF Became, Arranged
  <2>4. ~IsPara(r[x]) /\ ~IsPara(r[y])
    BY <2>1 DEF IsBlock
  <2>5. lo[x] = hi[x] /\ lo[y] = hi[y]
    BY <1>2, <1>3, <2>4 DEF Became, Arranged, Holds
  <2>6. k \in lo[x] .. lo[y]
    BY <1>1, <1>2, <1>3, <2>5
  <2>7. PICK z \in 1 .. Len(r) : lo[z] = k
    BY <2>1, <2>3, <2>6 DEF Follows
  <2>8. lo[z] \in 1 .. Len(s) /\ hi[z] \in 1 .. Len(s) /\ lo[z] <= hi[z]
    BY DEF Became, Arranged, Holds
  <2>9. k \in lo[z] .. hi[z]
    BY <2>7, <2>8
  <2> QED BY <2>9, PlaceOf
<1> QED BY <1>4, <1>5

LEMMA SpacesFromLines ==
  ASSUME NEW before, NEW d, NEW s, NEW r, NEW lo, NEW hi,
         IsSource(before), Broken(before, s), KeepsBreaks(before, s), Became(d, s, r, lo, hi),
         NEW p \in ContentPlaces(r), NEW q \in ContentPlaces(r),
         Before(p, q), Together(d, r, p, q)
  PROVE  (\E k \in ObjectAt(r, p).at .. ObjectAt(r, q).at : IsNewline(before[k])) <=>
         (\E w \in Places(r) : IsWhitespace(ObjectAt(r, w)) /\ Before(p, w) /\ Before(w, q))
<1>1. PICK x, i : x = Index(lo, p) /\ i = ObjectAt(r, p).at
  OBVIOUS
<1>2. /\ p \in Places(r) /\ x \in 1 .. Len(s) /\ i = s[x].at
      /\ i \in 1 .. Len(before) /\ ~IsWhitespace(before[i])
  BY <1>1, ContentPlace
<1>3. PICK y, j : y = Index(lo, q) /\ j = ObjectAt(r, q).at
  OBVIOUS
<1>4. /\ q \in Places(r) /\ y \in 1 .. Len(s) /\ j = s[y].at
      /\ j \in 1 .. Len(before) /\ ~IsWhitespace(before[j])
  BY <1>3, ContentPlace
<1>5. s \in Seq(Objects \cup Markers) /\ Ordered(s) /\ Len(s) \in Nat /\ Len(before) \in Nat
  BY LenProperties DEF Broken, IsSource
<1>6. x < y /\ i < j
  BY <1>1, <1>3, ContentOrdered
<1>7. \A k \in x .. y : ~Divider(d, s[k])
  BY <1>1, <1>2, <1>3, <1>4, TogetherIffUndivided
<1>8. ASSUME NEW k \in i .. j, IsNewline(before[k])
      PROVE  \E w \in Places(r) : IsWhitespace(ObjectAt(r, w)) /\ Before(p, w) /\ Before(w, q)
  <2>1. k # i /\ k # j
    BY <1>2, <1>4, <1>8 DEF IsNewline, IsWhitespace
  <2>2. k \in 1 .. Len(before) /\ i < k /\ k < j
    BY <1>2, <1>4, <1>5, <2>1
  <2>3. PICK z \in 1 .. Len(s) : /\ IsBreakMarker(s[z]) \/ IsWhitespace(s[z])
                                 /\ i < s[z].at /\ s[z].at < j
    BY <1>2, <1>4, <1>8, <2>2 DEF KeepsBreaks
  <2>4. x < z /\ z < y
    BY <1>2, <1>4, <1>5, <2>3, OrderedIndex
  <2>5. z \in x .. y
    BY <1>2, <1>4, <1>5, <2>4
  <2>6. IsWhitespace(s[z])
    BY <1>7, <2>3, <2>5 DEF Divider
  <2>7. PICK w \in Places(r) : Index(lo, w) = z
    BY <1>1, <1>2, <1>3, <1>4, <2>5, PlacesBetween
  <2>8. ObjectAt(r, w) = s[z]
    BY <2>7, PlaceIndex
  <2>9. Before(p, w) /\ Before(w, q)
    BY <1>1, <1>2, <1>3, <1>4, <2>4, <2>7, PlacesOrdered
  <2> QED BY <2>6, <2>8, <2>9
<1>9. ASSUME NEW w \in Places(r), IsWhitespace(ObjectAt(r, w)), Before(p, w), Before(w, q)
      PROVE  \E k \in i .. j : IsNewline(before[k])
  <2>1. PICK z \in 1 .. Len(s) : z = Index(lo, w) /\ ObjectAt(r, w) = s[z]
    BY PlaceIndex
  <2>2. x < z /\ z < y
    BY <1>1, <1>2, <1>3, <1>4, <1>9, <2>1, PlacesOrdered
  <2>3. PICK k : k = s[z].at
    OBVIOUS
  <2>4. IsNewline(before[k]) /\ k \in 1 .. Len(before)
    BY <1>9, <2>1, <2>3 DEF KeepsBreaks, Broken
  <2>5. i < k /\ k < j
    BY <1>2, <1>4, <1>5, <2>2, <2>3, OrderedIndex
  <2>6. k \in i .. j
    BY <1>2, <1>4, <2>4, <2>5
  <2> QED BY <2>4, <2>6
<1> QED BY <1>1, <1>3, <1>8, <1>9

LEMMA SettledWellFormed ==
  ASSUME NEW d, NEW s \in Seq(Objects \cup Markers), NEW r, Settled(d, s, r)
  PROVE  /\ \A p \in Places(r) : ~IsBreakMarker(ObjectAt(r, p))
         /\ (\E x \in DOMAIN r : IsPara(r[x])) => \A x \in DOMAIN r : IsBlock(d, r[x])
         /\ \A x \in DOMAIN r : IsPara(r[x]) =>
              LET para == r[x].elems
              IN /\ para # <<>> /\ ~IsWhitespace(para[1]) /\ ~IsWhitespace(para[Len(para)])
                 /\ \A y \in DOMAIN para : ~IsBlock(d, para[y])
<1>1. r \in Seq(Objects \cup Paragraphs) /\ DOMAIN r = 1 .. Len(r)
  BY LenProperties DEF Settled
<1>2. PICK lo, hi : Arranged(d, s, r, lo, hi, Len(s))
  BY DEF Settled
<1>3. Became(d, s, r, lo, hi)
  BY <1>1, <1>2 DEF Became
<1>4. \A p \in Places(r) : ~IsBreakMarker(ObjectAt(r, p))
  BY <1>3, PlaceIndex
<1>5. (\E x \in DOMAIN r : IsPara(r[x])) => \A x \in DOMAIN r : IsBlock(d, r[x])
  BY <1>1 DEF Settled, HasPara, AllBlocks
<1>6. ASSUME NEW x \in 1 .. Len(r), IsPara(r[x])
      PROVE  LET para == r[x].elems
             IN /\ para # <<>> /\ ~IsWhitespace(para[1]) /\ ~IsWhitespace(para[Len(para)])
                /\ \A y \in DOMAIN para : ~IsBlock(d, para[y])
  <2>1. PICK a, b : a = lo[x] /\ b = hi[x]
    OBVIOUS
  <2>2. a \in 1 .. Len(s) /\ b \in 1 .. Len(s) /\ a <= b /\ Holds(d, s, r[x], a, b)
    BY <1>2, <2>1 DEF Arranged, Holds
  <2>3. PICK para : para = r[x].elems
    OBVIOUS
  <2>4. para \in Seq(Objects) /\ Len(para) = (b - a) + 1 /\ DOMAIN para = 1 .. Len(para)
    BY <1>6, <2>2, <2>3, LenProperties DEF Holds
  <2>5. ASSUME NEW y \in 1 .. Len(para) PROVE ~IsBlock(d, para[y])
    <3>1. PICK k \in a .. b : k = (a + y) - 1 /\ (k - a) + 1 = y
      BY <2>2, <2>4
    <3>2. para[(k - a) + 1] = s[k] /\ ~Divider(d, s[k])
      BY <1>6, <2>2, <2>3 DEF Holds
    <3> QED BY <3>1, <3>2 DEF Divider
  <2>6. para # <<>> /\ ~IsWhitespace(para[1]) /\ ~IsWhitespace(para[Len(para)])
    BY <1>6, <2>3 DEF Settled, Tidy
  <2> QED BY <2>3, <2>4, <2>5, <2>6
<1> QED BY <1>1, <1>4, <1>5, <1>6

-----------------------------------------------------------------------------
(* The inductive invariant: what the passes so far have made of each node.
   Root loses more than whitespace lines in the first, so where its lines
   end means nothing.                                                       *)

Elements == Objects \cup Markers \cup Paragraphs

Stage(k, d, n, before, elems) ==
  /\ k = 0 => elems = before
  /\ k = 1 => Filtered(before, elems) /\ (n # Root => elems = before)
  /\ k = 2 => Filtered(before, elems) /\ (n # Root => KeepsLines(before, elems))
  /\ k = 3 => Broken(before, elems) /\ (n # Root => KeepsBreaks(before, elems))
  /\ k = 4 => \E s : /\ Broken(before, s) /\ (n # Root => KeepsBreaks(before, s))
                     /\ Settled(d, s, elems)

IInv ==
  /\ TypeOK /\ input \in Documents
  /\ \A n \in DOMAIN input : Stage(pass, input, n, input[n].elems, doc[n].elems)

\* What is known of a document.
LEMMA DocumentFacts ==
  ASSUME NEW d \in Documents
  PROVE  /\ Root \in DOMAIN d
         /\ \A n \in DOMAIN d :
              /\ d[n] \in NodeRecords(Objects) /\ IsSource(d[n].elems)
              /\ \A i \in 1 .. Len(d[n].elems) :
                   d[n].elems[i].kind = "node" => d[n].elems[i].node \in DOMAIN d
<1>1. IsDocument(d)
  BY DocumentsAssumption
<1>2. Root \in DOMAIN d
  BY <1>1 DEF IsDocument
<1>3. ASSUME NEW n \in DOMAIN d
      PROVE  /\ d[n] \in NodeRecords(Objects) /\ IsSource(d[n].elems)
             /\ \A i \in 1 .. Len(d[n].elems) :
                  d[n].elems[i].kind = "node" => d[n].elems[i].node \in DOMAIN d
  <2>1. d[n] \in NodeRecords(Objects)
    BY <1>1 DEF IsDocument
  <2>2. PICK e : e = d[n].elems
    OBVIOUS
  <2>3. e \in Seq(Objects)
    BY <2>1, <2>2 DEF NodeRecords
  <2>4. DOMAIN e = 1 .. Len(e)
    BY <2>3, LenProperties
  <2>5. \A i \in 1 .. Len(e) : e[i].at = i /\ (e[i].kind = "node" => e[i].node \in DOMAIN d)
    BY <1>1, <2>2, <2>4 DEF IsDocument
  <2> QED BY <2>1, <2>2, <2>3, <2>5 DEF IsSource
<1> QED BY <1>2, <1>3

LEMMA RecordWithElems ==
  ASSUME NEW X, NEW Y, NEW n \in NodeRecords(X), NEW e \in Seq(Y)
  PROVE  /\ WithElems(n, e) \in NodeRecords(Y) /\ WithElems(n, e).elems = e
         /\ WithElems(n, e).tag = n.tag /\ WithElems(n, e).isBlock = n.isBlock
BY DEF NodeRecords, WithElems

\* d is the input with other elements.
Revised(d, new) ==
  /\ d \in [DOMAIN input -> NodeRecords(Elements)]
  /\ \A n \in DOMAIN input : /\ d[n].elems = new[n] /\ d[n].tag = input[n].tag
                             /\ d[n].isBlock = input[n].isBlock

LEMMA Rebuilt ==
  ASSUME TypeOK, NEW new \in [DOMAIN input -> Seq(Elements)], NEW d,
         d = [n \in DOMAIN input |-> WithElems(doc[n], new[n])]
  PROVE  Revised(d, new)
<1>1. ASSUME NEW n \in DOMAIN input
      PROVE  /\ d[n] \in NodeRecords(Elements) /\ d[n].elems = new[n] /\ d[n].tag = input[n].tag
             /\ d[n].isBlock = input[n].isBlock
  <2>1. doc[n] \in NodeRecords(Elements) /\ doc[n].tag = input[n].tag /\ doc[n].isBlock = input[n].isBlock
    BY DEF TypeOK, Elements
  <2>2. new[n] \in Seq(Elements) /\ d[n] = WithElems(doc[n], new[n])
    OBVIOUS
  <2> QED BY <2>1, <2>2, RecordWithElems
<1> QED BY <1>1 DEF Revised

\* The step of a pass, which leaves of each node what the next stage asks for.
LEMMA NextStage ==
  ASSUME IInv, NEW new, NEW k \in 0 .. 3, pass' = k + 1, input' = input, failed' = failed,
         doc' = [n \in DOMAIN input |-> WithElems(doc[n], new[n])],
         \A n \in DOMAIN input :
           new[n] \in Seq(Elements) /\ Stage(k + 1, input, n, input[n].elems, new[n]),
         new = [n \in DOMAIN input |-> new[n]]
  PROVE  IInv'
<1>1. TypeOK /\ input \in Documents
  BY DEF IInv
<1>2. new \in [DOMAIN input -> Seq(Elements)]
  OBVIOUS
<1>3. /\ doc' \in [DOMAIN input -> NodeRecords(Elements)]
      /\ \A n \in DOMAIN input : /\ doc'[n].elems = new[n] /\ doc'[n].tag = input[n].tag
                                 /\ doc'[n].isBlock = input[n].isBlock
  <2>1. PICK d : d = doc'
    OBVIOUS
  <2>2. d = [n \in DOMAIN input |-> WithElems(doc[n], new[n])]
    BY <2>1
  <2>3. Revised(d, new)
    BY <1>1, <1>2, <2>2, Rebuilt
  <2> QED BY <2>1, <2>3, Zenon DEF Revised
<1>4. pass' \in 0 .. 4 /\ failed' \in BOOLEAN
  BY <1>1 DEF TypeOK
<1>5. TypeOK'
  BY <1>3, <1>4 DEF TypeOK, Elements
<1> QED BY <1>1, <1>3, <1>5 DEF IInv

LEMMA InitIInv == Init => IInv
<1> SUFFICES ASSUME Init PROVE IInv
  OBVIOUS
<1>1. input \in Documents /\ doc = input /\ pass = 0 /\ failed = FALSE
  BY DEF Init
<1>2. \A n \in DOMAIN input : input[n] \in NodeRecords(Elements)
  <2> TAKE n \in DOMAIN input
  <2>1. input[n] \in NodeRecords(Objects)
    BY <1>1, DocumentFacts
  <2>2. PICK e \in Seq(Objects) : e = input[n].elems
    BY <2>1 DEF NodeRecords
  <2>3. e \in Seq(Elements)
    BY SeqMonotonic DEF Elements
  <2> QED BY <2>1, <2>2, <2>3 DEF NodeRecords
<1>3. \A n \in DOMAIN input : input[n] = doc[n]
  BY <1>1
<1>4. doc = [n \in DOMAIN input |-> doc[n]]
  <2>1. IsDocument(input)
    BY <1>1, DocumentsAssumption
  <2> QED BY <1>1, <2>1 DEF IsDocument
<1>5. doc \in [DOMAIN input -> NodeRecords(Elements)]
  BY <1>2, <1>3, <1>4
<1>6. \A n \in DOMAIN input : doc[n].tag = input[n].tag /\ doc[n].isBlock = input[n].isBlock
  BY <1>1
<1>7. pass \in 0 .. 4 /\ failed \in BOOLEAN
  <2>1. pass = 0
    BY <1>1
  <2>2. pass \in 0 .. 4
    BY <2>1
  <2>3. failed \in BOOLEAN
    BY <1>1, Zenon
  <2> QED BY <2>2, <2>3
<1>8. TypeOK
  BY <1>5, <1>6, <1>7 DEF TypeOK, Elements
<1> QED BY <1>1, <1>3, <1>8 DEF IInv, Stage

\* What the elements of a node are, pass by pass.
LEMMA NodeFacts ==
  ASSUME IInv, NEW n \in DOMAIN input
  PROVE  /\ IsSource(input[n].elems) /\ Root \in DOMAIN input
         /\ Stage(pass, input, n, input[n].elems, doc[n].elems)
         /\ doc = [m \in DOMAIN input |-> doc[m]] /\ DOMAIN doc = DOMAIN input
         /\ doc[n] \in NodeRecords(Elements)
<1>1. input \in Documents /\ TypeOK
  BY DEF IInv
<1>2. doc \in [DOMAIN input -> NodeRecords(Elements)]
  BY <1>1 DEF TypeOK, Elements
<1> QED BY <1>1, <1>2, DocumentFacts DEF IInv

LEMMA Widen ==
  /\ \A e \in Seq(Objects) : e \in Seq(Elements) /\ e \in Seq(Objects \cup Markers)
  /\ \A e \in Seq(Objects \cup Markers) : e \in Seq(Elements)
  /\ \A e \in Seq(Objects \cup Paragraphs) : e \in Seq(Elements)
<1>1. Objects \subseteq Elements /\ Objects \subseteq Objects \cup Markers
      /\ Objects \cup Markers \subseteq Elements /\ Objects \cup Paragraphs \subseteq Elements
  BY DEF Elements
<1> QED BY <1>1, SeqMonotonic

\* An action that fails, or leaves everything alone.
LEMMA Unmoved ==
  ASSUME IInv, input' = input, doc' = doc, pass' = pass, failed' \in BOOLEAN
  PROVE  IInv'
<1>1. TypeOK'
  BY DEF IInv, TypeOK
<1>2. \A n \in DOMAIN input : Stage(pass, input, n, input[n].elems, doc[n].elems)'
  BY DEF IInv, Stage
<1> QED BY <1>1, <1>2 DEF IInv

LEMMA ProcessRootStep == IInv /\ ProcessRoot => IInv'
<1> SUFFICES ASSUME IInv, ProcessRoot PROVE IInv'
  OBVIOUS
<1> DEFINE ok == doc[Root].tag = "__root" /\ RootIsClean(doc)
<1>1. pass = 0 /\ input' = input
  BY DEF ProcessRoot, Pass
<1>2. CASE ~ok
  BY <1>1, <1>2, Unmoved DEF ProcessRoot, Pass
<1>3. CASE ok
  <2>1. doc' = KeepDocs(doc) /\ pass' = 0 + 1 /\ failed' = failed
    BY <1>3 DEF ProcessRoot, Pass
  <2>2. Root \in DOMAIN input
    BY DocumentFacts DEF IInv
  <2>0. PICK new : new = [n \in DOMAIN input |-> IF n = Root THEN Docs(doc) ELSE doc[n].elems]
    OBVIOUS
  <2>3. doc' = [n \in DOMAIN input |-> WithElems(doc[n], new[n])]
    <3>1. doc = [m \in DOMAIN input |-> doc[m]]
      BY <2>2, NodeFacts
    <3>2. \A n \in DOMAIN input : doc[n] = WithElems(doc[n], doc[n].elems)
      <4> TAKE n \in DOMAIN input
      <4>1. doc[n] \in NodeRecords(Elements)
        BY NodeFacts
      <4> QED BY <4>1 DEF WithElems, NodeRecords
    <3> HIDE DEF ok
    <3> QED BY <2>0, <2>1, <2>2, <3>1, <3>2 DEF KeepDocs
  <2>4. \A n \in DOMAIN input : n # Root => new[n] = doc[n].elems
    BY <2>0
  <2>5. new[Root] = Docs(doc) /\ new = [n \in DOMAIN input |-> new[n]]
    BY <2>0, <2>2
  <2>6. \A n \in DOMAIN input : doc[n].elems = input[n].elems /\ IsSource(input[n].elems)
    BY <1>1, NodeFacts DEF Stage
  <2>7. Filtered(input[Root].elems, new[Root])
    <3>1. PICK e : e = input[Root].elems /\ e = doc[Root].elems /\ IsSource(e)
      BY <2>2, <2>6
    <3> DEFINE kept == {i \in DOMAIN e : HasTag(doc, e[i], "__doc")}
    <3>2. Docs(doc) = Only(kept, e)
      BY <3>1 DEF Docs
    <3>3. DOMAIN e = 1 .. Len(e)
      BY <3>1, LenProperties DEF IsSource
    <3>4. \A z \in 1 .. Len(e) : ~IsWhitespace(e[z]) => z \in kept
      BY <1>3, <3>1, <3>3 DEF RootIsClean
    <3> HIDE DEF kept
    <3>5. Filtered(e, e)
      BY <3>1, SourceFiltered
    <3>6. Filtered(e, Only(kept, e))
      BY <3>1, <3>4, <3>5, OnlyFiltered
    <3> QED BY <2>5, <3>1, <3>2, <3>6
  <2>8. ASSUME NEW n \in DOMAIN input
        PROVE  Filtered(input[n].elems, new[n]) /\ (n # Root => new[n] = input[n].elems)
    <3>1. CASE n = Root
      BY <2>7, <3>1
    <3>2. CASE n # Root
      BY <2>4, <2>6, <3>2, SourceFiltered
    <3> QED BY <3>1, <3>2
  <2>9. \A n \in DOMAIN input : new[n] \in Seq(Elements)
    BY <2>8, Widen DEF Filtered
  <2>10. pass' = 1
    BY <2>1
  <2>11. \A n \in DOMAIN input : Stage(0 + 1, input, n, input[n].elems, new[n])
    BY <1>1, <2>8, <2>10 DEF Stage
  <2> QED BY <1>1, <2>1, <2>3, <2>5, <2>9, <2>11, NextStage
<1> QED BY <1>2, <1>3

LEMMA RemoveWhitespaceStep == IInv /\ RemoveWhitespaceLines => IInv'
<1> SUFFICES ASSUME IInv, RemoveWhitespaceLines PROVE IInv'
  OBVIOUS
<1>1. /\ pass = 1 /\ input' = input /\ doc' = RemWhitespace(doc)
      /\ pass' = 1 + 1 /\ failed' = failed
  BY DEF RemoveWhitespaceLines, Pass
<1>2. Root \in DOMAIN input
  BY DocumentFacts DEF IInv
<1>3. DOMAIN doc = DOMAIN input
  BY <1>2, NodeFacts
<1>0. PICK new : new = [n \in DOMAIN input |-> WithoutSpaces(doc[n].elems)]
  OBVIOUS
<1>4. doc' = [n \in DOMAIN input |-> WithElems(doc[n], new[n])]
  BY <1>0, <1>1, <1>3 DEF RemWhitespace
<1>5. new = [n \in DOMAIN input |-> new[n]] /\ \A n \in DOMAIN input : new[n] = WithoutSpaces(doc[n].elems)
  BY <1>0
<1>6. ASSUME NEW n \in DOMAIN input
      PROVE  Filtered(input[n].elems, new[n]) /\ (n # Root => KeepsLines(input[n].elems, new[n]))
  <2>1. PICK before, e : before = input[n].elems /\ e = doc[n].elems
    OBVIOUS
  <2>2. IsSource(before) /\ Filtered(before, e) /\ (n # Root => e = before)
    BY <1>1, <2>1, NodeFacts DEF Stage
  <2>3. Filtered(before, WithoutSpaces(e)) /\ (e = before => KeepsLines(before, WithoutSpaces(e)))
    BY <2>2, SpacesGone
  <2> QED BY <1>5, <2>1, <2>2, <2>3
<1>7. \A n \in DOMAIN input : new[n] \in Seq(Elements)
  BY <1>6, Widen DEF Filtered
<1>8. \A n \in DOMAIN input : Stage(1 + 1, input, n, input[n].elems, new[n])
  BY <1>1, <1>6 DEF Stage
<1> QED BY <1>1, <1>4, <1>5, <1>7, <1>8, NextStage

LEMMA ProcessLinebreaksStep == IInv /\ ProcessLinebreaks => IInv'
<1> SUFFICES ASSUME IInv, ProcessLinebreaks PROVE IInv'
  OBVIOUS
<1>1. /\ pass = 2 /\ input' = input /\ doc' = Linebreaks(doc)
      /\ pass' = 2 + 1 /\ failed' = failed
  BY DEF ProcessLinebreaks, Pass
<1>2. Root \in DOMAIN input
  BY DocumentFacts DEF IInv
<1>3. DOMAIN doc = DOMAIN input
  BY <1>2, NodeFacts
<1>0. PICK new : new = [n \in DOMAIN input |-> Breaks(doc[n].elems)]
  OBVIOUS
<1>4. doc' = [n \in DOMAIN input |-> WithElems(doc[n], new[n])]
  BY <1>0, <1>1, <1>3 DEF Linebreaks
<1>5. new = [n \in DOMAIN input |-> new[n]] /\ \A n \in DOMAIN input : new[n] = Breaks(doc[n].elems)
  BY <1>0
<1>6. ASSUME NEW n \in DOMAIN input
      PROVE  Broken(input[n].elems, new[n]) /\ (n # Root => KeepsBreaks(input[n].elems, new[n]))
  <2>1. PICK before, e : before = input[n].elems /\ e = doc[n].elems
    OBVIOUS
  <2>2. IsSource(before) /\ Filtered(before, e) /\ (n # Root => KeepsLines(before, e))
    BY <1>1, <2>1, NodeFacts DEF Stage
  <2>3. Broken(before, Breaks(e)) /\ (KeepsLines(before, e) => KeepsBreaks(before, Breaks(e)))
    BY <2>2, BreaksBroken
  <2> QED BY <1>5, <2>1, <2>2, <2>3
<1>7. \A n \in DOMAIN input : new[n] \in Seq(Elements)
  BY <1>6, Widen DEF Broken
<1>8. \A n \in DOMAIN input : Stage(2 + 1, input, n, input[n].elems, new[n])
  BY <1>1, <1>6 DEF Stage
<1> QED BY <1>1, <1>4, <1>5, <1>7, <1>8, NextStage

LEMMA ProcessParagraphsStep == IInv /\ ProcessParagraphs => IInv'
<1> SUFFICES ASSUME IInv, ProcessParagraphs PROVE IInv'
  OBVIOUS
<1>1. pass = 3 /\ input' = input
  BY DEF ProcessParagraphs, Pass
<1>2. CASE ~BlocksAreBoolean(doc)
  BY <1>1, <1>2, Unmoved DEF ProcessParagraphs, Pass
<1>3. CASE BlocksAreBoolean(doc)
  <2>1. doc' = WithParagraphs(doc) /\ pass' = 3 + 1 /\ failed' = failed
    BY <1>3 DEF ProcessParagraphs, Pass
  <2>2. Root \in DOMAIN input
    BY DocumentFacts DEF IInv
  <2>3. DOMAIN doc = DOMAIN input
    BY <2>2, NodeFacts
  <2>0. PICK new : new = [n \in DOMAIN input |-> Paras(doc, doc[n].elems)]
    OBVIOUS
  <2>4. doc' = [n \in DOMAIN input |-> WithElems(doc[n], new[n])]
    BY <2>0, <2>1, <2>3 DEF WithParagraphs
  <2>5. new = [n \in DOMAIN input |-> new[n]] /\ \A n \in DOMAIN input : new[n] = Paras(doc, doc[n].elems)
    BY <2>0
  <2>6. ASSUME NEW n \in DOMAIN input
        PROVE  /\ Broken(input[n].elems, doc[n].elems)
               /\ n # Root => KeepsBreaks(input[n].elems, doc[n].elems)
               /\ Settled(input, doc[n].elems, new[n])
    <3>1. PICK before, s : before = input[n].elems /\ s = doc[n].elems
      OBVIOUS
    <3>2. IsSource(before) /\ Broken(before, s) /\ (n # Root => KeepsBreaks(before, s))
      BY <1>1, <3>1, NodeFacts DEF Stage
    <3>3. s \in Seq(Objects \cup Markers)
      BY <3>2 DEF Broken
    <3>4. ASSUME NEW k \in 1 .. Len(s) PROVE IsBlock(doc, s[k]) <=> IsBlock(input, s[k])
      <4>1. PICK o : o = s[k]
        OBVIOUS
      <4>2. ~IsPara(o)
        BY <3>3, <4>1, ElementOfSeq, Kinds
      <4>3. o.kind = "node" => o.node \in DOMAIN input
        <5> SUFFICES ASSUME o.kind = "node" PROVE o.node \in DOMAIN input
          OBVIOUS
        <5>1. ~IsWhitespace(o) /\ ~IsBreakMarker(o)
          BY DEF IsWhitespace, IsText, IsBreakMarker
        <5>2. o.at \in 1 .. Len(before) /\ o = before[o.at]
          BY <3>2, <4>1, <5>1 DEF Broken
        <5>3. input \in Documents
          BY DEF IInv
        <5> QED BY <3>1, <5>2, <5>3, DocumentFacts
      <4>4. \A m \in DOMAIN input : doc[m].isBlock = input[m].isBlock
        BY DEF IInv, TypeOK
      <4>5. IsBlock(doc, o) <=> IsBlock(input, o)
        BY <4>2, <4>3, <4>4 DEF IsBlock
      <4> QED BY <4>1, <4>5
    <3>5. Settled(input, s, Paras(doc, s))
      BY <3>3, <3>4, ParasSettled
    <3> QED BY <2>5, <3>1, <3>2, <3>5
  <2>7. \A n \in DOMAIN input : new[n] \in Seq(Elements)
    BY <2>6, Widen DEF Settled
  <2>8. \A n \in DOMAIN input : Stage(3 + 1, input, n, input[n].elems, new[n])
    BY <1>1, <2>1, <2>6 DEF Stage
  <2> QED BY <1>1, <2>1, <2>4, <2>5, <2>7, <2>8, NextStage
<1> QED BY <1>2, <1>3

LEMMA NextIInv == IInv /\ [Next]_vars => IInv'
<1> SUFFICES ASSUME IInv, [Next]_vars PROVE IInv'
  OBVIOUS
<1>1. CASE ProcessRoot
  BY <1>1, ProcessRootStep
<1>2. CASE RemoveWhitespaceLines
  BY <1>2, RemoveWhitespaceStep
<1>3. CASE ProcessLinebreaks
  BY <1>3, ProcessLinebreaksStep
<1>4. CASE ProcessParagraphs
  BY <1>4, ProcessParagraphsStep
<1>5. CASE UNCHANGED vars
  <2>1. failed \in BOOLEAN
    BY DEF IInv, TypeOK
  <2> QED BY <1>5, <2>1, Unmoved DEF vars
<1> QED BY <1>1, <1>2, <1>3, <1>4, <1>5 DEF Next

LEMMA AlwaysIInv == Spec => []IInv
<1> QED BY InitIInv, NextIInv, PTL DEF Spec

-----------------------------------------------------------------------------
(* What holds of a processed file *)

LEMMA ProcessedNode ==
  ASSUME IInv, Processed, NEW n \in DOMAIN input
  PROVE  /\ IsSource(input[n].elems)
         /\ \E s, lo, hi : /\ Broken(input[n].elems, s)
                           /\ n # Root => KeepsBreaks(input[n].elems, s)
                           /\ Settled(input, s, doc[n].elems)
                           /\ Became(input, s, doc[n].elems, lo, hi)
<1>1. IsSource(input[n].elems) /\ Stage(pass, input, n, input[n].elems, doc[n].elems) /\ pass = 4
  BY NodeFacts DEF Processed
<1>2. PICK s : /\ Broken(input[n].elems, s) /\ (n # Root => KeepsBreaks(input[n].elems, s))
               /\ Settled(input, s, doc[n].elems)
  BY <1>1 DEF Stage
<1>3. PICK lo, hi : Arranged(input, s, doc[n].elems, lo, hi, Len(s))
  BY <1>2 DEF Settled
<1>4. Became(input, s, doc[n].elems, lo, hi)
  BY <1>2, <1>3 DEF Became, Settled, Broken
<1> QED BY <1>1, <1>2, <1>4

\* The passes keep the nodes of a file, their tags and what they say of being a
\* block; only elements change, and only into those that a pass may make.
THEOREM TypeCorrect == Spec => []TypeOK
<1>1. IInv => TypeOK
  BY DEF IInv
<1> QED BY <1>1, AlwaysIInv, PTL

\* Whatever a file holds, the four passes neither lose nor repeat nor reorder
\* content of any node, Root included.
THEOREM ContentStaysInOrder == Spec => []TextInOrder
<1>1. IInv => TextInOrder
  <2> SUFFICES ASSUME IInv, Processed, NEW n \in DOMAIN input
               PROVE  LET before == input[n].elems
                          after == doc[n].elems
                      IN /\ {ObjectAt(after, p) : p \in ContentPlaces(after)} = {before[i] : i \in Content(before)}
                         /\ \A p, q \in ContentPlaces(after) :
                              Before(p, q) => ObjectAt(after, p).at < ObjectAt(after, q).at
    BY DEF TextInOrder
  <2>1. PICK before, r : before = input[n].elems /\ r = doc[n].elems
    OBVIOUS
  <2>2. IsSource(before)
    BY <2>1, ProcessedNode
  <2>3. PICK s, lo, hi : Broken(before, s) /\ Became(input, s, r, lo, hi)
    BY <2>1, ProcessedNode
  <2>4. SameContent(before, r)
    BY <2>2, <2>3, ContentKept
  <2>5. \A p, q \in ContentPlaces(r) : Before(p, q) => ObjectAt(r, p).at < ObjectAt(r, q).at
    BY <2>3, ContentOrdered
  <2> QED BY <2>1, <2>4, <2>5 DEF SameContent
<1> QED BY <1>1, AlwaysIInv, PTL

\* Whatever a node holds, two pieces of its content share a paragraph exactly when
\* no block and no blank line is between them.
THEOREM BlankLinesDecide == Spec => []BlankLinesSeparate
<1>1. IInv => BlankLinesSeparate
  <2> SUFFICES ASSUME IInv, Processed, NEW n \in DOMAIN input \ {Root},
                      NEW p \in ContentPlaces(doc[n].elems), NEW q \in ContentPlaces(doc[n].elems),
                      Before(p, q)
               PROVE  Together(input, doc[n].elems, p, q) <=>
                        ~Apart(input, input[n].elems, ObjectAt(doc[n].elems, p).at,
                               ObjectAt(doc[n].elems, q).at)
    BY DEF BlankLinesSeparate
  <2>1. PICK before, r : before = input[n].elems /\ r = doc[n].elems
    OBVIOUS
  <2>2. IsSource(before)
    BY <2>1, ProcessedNode
  <2>3. PICK s, lo, hi : Broken(before, s) /\ KeepsBreaks(before, s) /\ Became(input, s, r, lo, hi)
    BY <2>1, ProcessedNode
  <2>4. PICK x, i : x = Index(lo, p) /\ i = ObjectAt(r, p).at
    OBVIOUS
  <2>5. PICK y, j : y = Index(lo, q) /\ j = ObjectAt(r, q).at
    OBVIOUS
  <2>6. /\ p \in Places(r) /\ x \in 1 .. Len(s) /\ i = s[x].at
        /\ i \in 1 .. Len(before) /\ ~IsWhitespace(before[i])
    BY <2>1, <2>3, <2>4, ContentPlace
  <2>7. /\ q \in Places(r) /\ y \in 1 .. Len(s) /\ j = s[y].at
        /\ j \in 1 .. Len(before) /\ ~IsWhitespace(before[j])
    BY <2>1, <2>3, <2>5, ContentPlace
  <2>8. x < y
    BY <2>1, <2>3, <2>4, <2>5, ContentOrdered
  <2>9. (\E k \in x .. y : Divider(input, s[k])) <=> Apart(input, before, i, j)
    BY <2>2, <2>3, <2>6, <2>7, <2>8, DividedIffApart
  <2>10. Together(input, r, p, q) <=> ~\E k \in x .. y : Divider(input, s[k])
    BY <2>3, <2>4, <2>5, <2>6, <2>7, TogetherIffUndivided
  <2> QED BY <2>1, <2>4, <2>5, <2>9, <2>10
<1> QED BY <1>1, AlwaysIInv, PTL

\* Whatever a node holds, its paragraphs are not empty, have content at both ends
\* and no block inside; with one of them, nothing is left outside; and no marker
\* reaches the outputters.
THEOREM ParagraphsAreWellFormed == Spec => []ParagraphsWellFormed
<1>1. IInv => ParagraphsWellFormed
  <2> SUFFICES ASSUME IInv, Processed, NEW n \in DOMAIN input
               PROVE  LET after == doc[n].elems
                      IN /\ \A p \in Places(after) : ~IsBreakMarker(ObjectAt(after, p))
                         /\ (\E x \in DOMAIN after : IsPara(after[x])) =>
                              \A x \in DOMAIN after : IsBlock(input, after[x])
                         /\ \A x \in DOMAIN after : IsPara(after[x]) =>
                              LET para == after[x].elems
                              IN /\ para # <<>> /\ ~IsWhitespace(para[1]) /\ ~IsWhitespace(para[Len(para)])
                                 /\ \A y \in DOMAIN para : ~IsBlock(input, para[y])
    BY DEF ParagraphsWellFormed
  <2>1. PICK r : r = doc[n].elems
    OBVIOUS
  <2>2. PICK s : s \in Seq(Objects \cup Markers) /\ Settled(input, s, r)
    BY <2>1, ProcessedNode DEF Broken
  <2> QED BY <2>1, <2>2, SettledWellFormed
<1> QED BY <1>1, AlwaysIInv, PTL

\* Whatever a node holds, there is a space between two pieces of content of one
\* paragraph exactly when a line ended between them.
THEOREM LineEndsAreSpaces == Spec => []LinesStayApart
<1>1. IInv => LinesStayApart
  <2> SUFFICES ASSUME IInv, Processed, NEW n \in DOMAIN input \ {Root},
                      NEW p \in ContentPlaces(doc[n].elems), NEW q \in ContentPlaces(doc[n].elems),
                      Before(p, q), Together(input, doc[n].elems, p, q)
               PROVE  (\E k \in ObjectAt(doc[n].elems, p).at .. ObjectAt(doc[n].elems, q).at :
                         IsNewline(input[n].elems[k])) <=>
                      (\E w \in Places(doc[n].elems) :
                         /\ IsWhitespace(ObjectAt(doc[n].elems, w))
                         /\ Before(p, w) /\ Before(w, q))
    BY DEF LinesStayApart
  <2>1. PICK before, r : before = input[n].elems /\ r = doc[n].elems
    OBVIOUS
  <2>2. IsSource(before)
    BY <2>1, ProcessedNode
  <2>3. PICK s, lo, hi : Broken(before, s) /\ KeepsBreaks(before, s) /\ Became(input, s, r, lo, hi)
    BY <2>1, ProcessedNode
  <2>4. (\E k \in ObjectAt(r, p).at .. ObjectAt(r, q).at : IsNewline(before[k])) <=>
        (\E w \in Places(r) : IsWhitespace(ObjectAt(r, w)) /\ Before(p, w) /\ Before(w, q))
    BY <2>1, <2>2, <2>3, SpacesFromLines
  <2> QED BY <2>1, <2>4
<1> QED BY <1>1, AlwaysIInv, PTL
=============================================================================
