------------------------------ MODULE ParserProofs ------------------------------
(* The parser keeps its types on inputs of any length, the tree has the text *)
(* of the source in order, divided as the middle pass wants it, and brackets *)
(* match in what is accepted.                                                *)
EXTENDS Parser, Induction, SequenceTheorems, FiniteSetTheorems, TLAPS

-----------------------------------------------------------------------------
(* Sequences *)

LEMMA NonEmpty ==
  ASSUME NEW s, Len(s) \in Nat, Len(s) >= 1
  PROVE  s # <<>>
<1>1. Len(<<>>) = 0
  OBVIOUS
<1> QED BY <1>1

LEMMA PushFacts ==
  ASSUME NEW T, NEW s \in Seq(T), NEW f \in T
  PROVE  /\ <<f>> \o s \in Seq(T) /\ <<f>> \o s # <<>>
         /\ Len(<<f>> \o s) = Len(s) + 1 /\ Len(s) \in Nat
         /\ Head(<<f>> \o s) = f /\ (<<f>> \o s)[1] = f
         /\ \A i \in 1 .. Len(s) : (<<f>> \o s)[i + 1] = s[i]
         /\ \A i \in 2 .. Len(s) + 1 : (<<f>> \o s)[i] = s[i - 1]
<1>1. <<f>> \in Seq(T) /\ Len(<<f>>) = 1 /\ <<f>>[1] = f
  OBVIOUS
<1> DEFINE t == <<f>> \o s
<1>2. t \in Seq(T) /\ Len(t) = Len(s) + 1 /\ Len(s) \in Nat
  BY <1>1, ConcatProperties, LenProperties
<1>3. \A i \in 1 .. Len(s) + 1 : t[i] = IF i <= 1 THEN f ELSE s[i - 1]
  BY <1>1, <1>2, ConcatProperties
<1>4. t # <<>> /\ Head(t) = t[1]
  BY <1>2, HeadTailProperties
<1> HIDE DEF t
<1>5. \A i \in 1 .. Len(s) : t[i + 1] = s[i]
  BY <1>2, <1>3
<1>6. t[1] = f /\ \A i \in 2 .. Len(s) + 1 : t[i] = s[i - 1]
  BY <1>2, <1>3
<1> QED BY <1>2, <1>4, <1>5, <1>6 DEF t

LEMMA PopFacts ==
  ASSUME NEW T, NEW s \in Seq(T), s # <<>>
  PROVE  /\ Head(s) = s[1] /\ s[1] \in T
         /\ Tail(s) \in Seq(T) /\ Len(Tail(s)) = Len(s) - 1
         /\ Len(s) \in Nat /\ Len(s) >= 1
         /\ \A i \in 1 .. Len(s) - 1 : Tail(s)[i] = s[i + 1]
<1>1. Len(s) \in Nat /\ Len(s) >= 1
  BY EmptySeq, LenProperties
<1>2. s[1] \in T
  BY <1>1, ElementOfSeq
<1>3. Head(s) = s[1] /\ Tail(s) \in Seq(T) /\ Len(Tail(s)) = Len(s) - 1
  BY HeadTailProperties
<1>4. \A i \in 1 .. Len(s) - 1 : Tail(s)[i] = s[i + 1]
  BY <1>3, HeadTailProperties
<1> QED BY <1>1, <1>2, <1>3, <1>4

LEMMA PrefixFacts ==
  ASSUME NEW T, NEW s \in Seq(T), NEW n \in Nat, n <= Len(s)
  PROVE  /\ SubSeq(s, 1, n) \in Seq(T) /\ Len(SubSeq(s, 1, n)) = n
         /\ \A i \in 1 .. n : SubSeq(s, 1, n)[i] = s[i]
<1>1. Len(s) \in Nat
  BY LenProperties
<1>2. \A i \in 1 .. n : i \in 1 .. Len(s)
  BY <1>1
<1>3. \A i \in 1 .. n : s[i] \in T
  BY <1>2, ElementOfSeq
<1>4. 1 \in Int /\ n \in Int
  OBVIOUS
<1>5. /\ SubSeq(s, 1, n) \in Seq(T)
      /\ Len(SubSeq(s, 1, n)) = IF 1 <= n THEN n - 1 + 1 ELSE 0
      /\ \A i \in 1 .. n - 1 + 1 : SubSeq(s, 1, n)[i] = s[1 + i - 1]
  BY <1>3, <1>4, SubSeqProperties
<1> QED BY <1>5

\* Where the elements of a concatenation come from.
LEMMA ConcatElements ==
  ASSUME NEW T, NEW c \in Seq(T), NEW a \in Seq(T)
  PROVE  \A k \in 1 .. Len(c \o a) :
           \/ \E h \in 1 .. Len(c) : (c \o a)[k] = c[h]
           \/ \E h \in 1 .. Len(a) : (c \o a)[k] = a[h]
<1>1. Len(c) \in Nat /\ Len(a) \in Nat
  BY LenProperties
<1> DEFINE d == c \o a
<1>2. /\ Len(d) = Len(c) + Len(a)
      /\ \A k \in 1 .. Len(c) + Len(a) : d[k] = IF k <= Len(c) THEN c[k] ELSE a[k - Len(c)]
  BY ConcatProperties
<1> HIDE DEF d
<1>3. ASSUME NEW k \in 1 .. Len(d)
      PROVE  (\E h \in 1 .. Len(c) : d[k] = c[h]) \/ (\E h \in 1 .. Len(a) : d[k] = a[h])
  <2>1. CASE k <= Len(c)
    <3>1. k \in 1 .. Len(c) /\ d[k] = c[k]
      BY <1>1, <1>2, <2>1
    <3> QED BY <3>1
  <2>2. CASE ~(k <= Len(c))
    <3>1. k - Len(c) \in 1 .. Len(a) /\ d[k] = a[k - Len(c)]
      BY <1>1, <1>2, <2>2
    <3> QED BY <3>1
  <2> QED BY <2>1, <2>2
<1> QED BY <1>3 DEF d

-----------------------------------------------------------------------------
(* The stack *)

Escapes == Openers \cup {"|"}

\* A call of text: its escape consists of symbols that have a mirror image,
\* if there are any in the input; it has an open bracket; and what it may go
\* back to was there before it.
FrameOK(f, n) ==
  f.kind \in {"root", "arg"} =>
    /\ f.escape \in Seq(Escapes) /\ f.balance > 0
    /\ f.escape # <<>> => \E p \in 1 .. Len(input) : Tok(p) = "|"
    /\ f.kind = "arg" => f.kept < n /\ f.mark \in Positions

\* The calls of a stack, when the tree has n events: text() is called for the
\* file or by command_contents, square_args by command_contents, and this one
\* by either; the deeper an argument, the less of the tree was there before.
StackOK(s, n) ==
  /\ s \in Seq(Frames) /\ s # <<>>
  /\ \A i \in 1 .. Len(s) : FrameOK(s[i], n)
  /\ \A i \in 1 .. Len(s) :
       s[i].kind \in {"arg", "square"} => i < Len(s) /\ s[i + 1].kind = "command"
  /\ \A i \in 1 .. Len(s) : s[i].kind = "command" => i < Len(s)
  /\ \A i, j \in 1 .. Len(s) :
       i < j /\ s[i].kind = "arg" /\ s[j].kind = "arg" => s[j].kept < s[i].kept

LEMMA FrameFacts ==
  ASSUME NEW f \in Frames
  PROVE  /\ f.kind \in {"root", "arg", "command", "square"}
         /\ f.kind \in {"root", "arg"} => f \in TextFrames
         /\ f.kind = "command" => f \in CommandFrames
         /\ f.kind = "square" => f \in SquareFrames
BY DEF Frames, TextFrames, CommandFrames, SquareFrames

LEMMA GrowOK ==
  ASSUME NEW s, NEW n \in Nat, NEW m \in Nat, n <= m, StackOK(s, n)
  PROVE  StackOK(s, m)
<1>1. ASSUME NEW i \in 1 .. Len(s) PROVE FrameOK(s[i], m)
  <2>1. FrameOK(s[i], n) /\ s[i] \in Frames
    BY ElementOfSeq DEF StackOK
  <2>2. s[i].kind = "arg" => s[i].kept \in Nat
    BY <2>1, FrameFacts DEF TextFrames
  <2> QED BY <2>1, <2>2 DEF FrameOK
<1> QED BY <1>1 DEF StackOK

LEMMA PopOK ==
  ASSUME NEW s, NEW n \in Nat, StackOK(s, n), Head(s).kind # "root"
  PROVE  StackOK(Tail(s), n)
<1>1. s \in Seq(Frames) /\ s # <<>>
  BY DEF StackOK
<1>2. /\ Head(s) = s[1] /\ s[1] \in Frames
      /\ Tail(s) \in Seq(Frames) /\ Len(Tail(s)) = Len(s) - 1
      /\ Len(s) \in Nat /\ Len(s) >= 1
      /\ \A i \in 1 .. Len(s) - 1 : Tail(s)[i] = s[i + 1]
  BY <1>1, PopFacts
<1>3. Len(s) > 1
  <2>1. 1 \in 1 .. Len(s) /\ s[1].kind \in {"arg", "command", "square"}
    BY <1>2, FrameFacts
  <2>2. 1 < Len(s)
    BY <2>1 DEF StackOK
  <2> QED BY <1>2, <2>2
<1>4. Tail(s) # <<>>
  <2>1. Len(Tail(s)) \in Nat /\ Len(Tail(s)) >= 1
    BY <1>2, <1>3
  <2> QED BY <2>1, NonEmpty, Zenon
<1> DEFINE t == Tail(s)
<1>5. \A i \in 1 .. Len(t) : i + 1 \in 1 .. Len(s) /\ t[i] = s[i + 1]
  BY <1>2
<1>6. \A i \in 1 .. Len(t) : i < Len(t) => t[i + 1] = s[i + 2]
  BY <1>2
<1> HIDE DEF t
<1>7. \A i \in 1 .. Len(t) : FrameOK(t[i], n)
  BY <1>5 DEF StackOK
<1>8. \A i \in 1 .. Len(t) :
        /\ t[i].kind \in {"arg", "square"} => i < Len(t) /\ t[i + 1].kind = "command"
        /\ t[i].kind = "command" => i < Len(t)
  <2> TAKE i \in 1 .. Len(t)
  <2>1. Len(t) = Len(s) - 1
    BY <1>2 DEF t
  <2>2. i + 1 \in 1 .. Len(s) /\ t[i] = s[i + 1]
    BY <1>5
  <2>3. PICK k \in 1 .. Len(s) : k = i + 1
    BY <2>2
  <2>4. /\ s[k].kind \in {"arg", "square"} => k < Len(s) /\ s[k + 1].kind = "command"
        /\ s[k].kind = "command" => k < Len(s)
    BY DEF StackOK
  <2> QED BY <1>2, <1>6, <2>1, <2>2, <2>3, <2>4
<1>9. ASSUME NEW i \in 1 .. Len(t), NEW j \in 1 .. Len(t), i < j,
             t[i].kind = "arg", t[j].kind = "arg"
      PROVE  t[j].kept < t[i].kept
  <2>1. /\ i + 1 \in 1 .. Len(s) /\ t[i] = s[i + 1]
        /\ j + 1 \in 1 .. Len(s) /\ t[j] = s[j + 1]
        /\ i + 1 < j + 1
    BY <1>5, <1>9
  <2> QED BY <1>9, <2>1 DEF StackOK
<1> QED BY <1>2, <1>4, <1>7, <1>8, <1>9 DEF StackOK, t

\* The innermost call goes on.
LEMMA ReplaceOK ==
  ASSUME NEW s, NEW n \in Nat, StackOK(s, n), NEW f \in Frames, FrameOK(f, n),
         f.kind = Head(s).kind, f.kind = "arg" => f.kept = Head(s).kept
  PROVE  StackOK(<<f>> \o Tail(s), n)
<1>1. s \in Seq(Frames) /\ s # <<>>
  BY DEF StackOK
<1>2. /\ Head(s) = s[1] /\ Tail(s) \in Seq(Frames) /\ Len(Tail(s)) = Len(s) - 1
      /\ Len(s) \in Nat /\ Len(s) >= 1
      /\ \A i \in 1 .. Len(s) - 1 : Tail(s)[i] = s[i + 1]
  BY <1>1, PopFacts
<1> DEFINE t == <<f>> \o Tail(s)
<1>3. /\ t \in Seq(Frames) /\ t # <<>>
      /\ Len(t) = Len(s) /\ t[1] = f
      /\ \A i \in 2 .. Len(s) : t[i] = Tail(s)[i - 1]
  BY <1>2, PushFacts
<1>4. \A i \in 2 .. Len(s) : t[i] = s[i]
  BY <1>2, <1>3
<1> HIDE DEF t
<1>5. \A i \in 1 .. Len(s) : /\ t[i].kind = s[i].kind
                            /\ t[i].kind = "arg" => t[i].kept = s[i].kept
  BY <1>2, <1>3, <1>4
<1>6. \A i \in 1 .. Len(t) : FrameOK(t[i], n)
  <2> TAKE i \in 1 .. Len(t)
  <2>1. CASE i = 1
    BY <1>3, <2>1
  <2>2. CASE i # 1
    BY <1>2, <1>3, <1>4, <2>2 DEF StackOK
  <2> QED BY <2>1, <2>2
<1>7. \A i \in 1 .. Len(t) :
        /\ t[i].kind \in {"arg", "square"} => i < Len(t) /\ t[i + 1].kind = "command"
        /\ t[i].kind = "command" => i < Len(t)
  <2> TAKE i \in 1 .. Len(t)
  <2>1. /\ s[i].kind \in {"arg", "square"} => i < Len(s) /\ s[i + 1].kind = "command"
        /\ s[i].kind = "command" => i < Len(s)
    BY <1>3 DEF StackOK
  <2> QED BY <1>2, <1>3, <1>5, <2>1
<1>8. \A i, j \in 1 .. Len(t) :
        i < j /\ t[i].kind = "arg" /\ t[j].kind = "arg" => t[j].kept < t[i].kept
  BY <1>3, <1>5 DEF StackOK
<1> QED BY <1>3, <1>6, <1>7, <1>8 DEF StackOK, t

\* A command may be called by every other call, an argument or the square
\* arguments by a command only.
LEMMA PushOK ==
  ASSUME NEW s, NEW n \in Nat, StackOK(s, n), NEW f \in Frames, FrameOK(f, n),
         \/ f.kind = "command"
         \/ f.kind \in {"arg", "square"} /\ Head(s).kind = "command",
         f.kind = "arg" =>
           \A i \in 1 .. Len(s) : s[i].kind = "arg" => s[i].kept < f.kept
  PROVE  StackOK(<<f>> \o s, n)
<1>1. s \in Seq(Frames) /\ s # <<>>
  BY DEF StackOK
<1>2. Head(s) = s[1] /\ Len(s) \in Nat /\ Len(s) >= 1
  BY <1>1, PopFacts
<1> DEFINE t == <<f>> \o s
<1>3. /\ t \in Seq(Frames) /\ t # <<>>
      /\ Len(t) = Len(s) + 1 /\ t[1] = f
      /\ \A i \in 1 .. Len(s) : t[i + 1] = s[i]
      /\ \A i \in 2 .. Len(s) + 1 : t[i] = s[i - 1]
  BY <1>1, PushFacts
<1> HIDE DEF t
<1>4. \A i \in 1 .. Len(t) : FrameOK(t[i], n)
  <2> TAKE i \in 1 .. Len(t)
  <2>1. CASE i = 1
    BY <1>3, <2>1
  <2>2. CASE i # 1
    <3>1. i - 1 \in 1 .. Len(s) /\ t[i] = s[i - 1]
      BY <1>2, <1>3, <2>2
    <3>2. FrameOK(s[i - 1], n)
      BY <3>1 DEF StackOK
    <3> QED BY <3>1, <3>2
  <2> QED BY <2>1, <2>2
<1>5. \A i \in 1 .. Len(t) :
        /\ t[i].kind \in {"arg", "square"} => i < Len(t) /\ t[i + 1].kind = "command"
        /\ t[i].kind = "command" => i < Len(t)
  <2> TAKE i \in 1 .. Len(t)
  <2>1. CASE i = 1
    <3>1. t[2] = s[1]
      BY <1>2, <1>3
    <3> QED BY <1>2, <1>3, <2>1, <3>1
  <2>2. CASE i # 1
    <3>1. PICK k \in 1 .. Len(s) : k = i - 1 /\ t[i] = s[k]
      BY <1>2, <1>3, <2>2
    <3>2. /\ s[k].kind \in {"arg", "square"} => k < Len(s) /\ s[k + 1].kind = "command"
          /\ s[k].kind = "command" => k < Len(s)
      BY DEF StackOK
    <3>3. k < Len(s) => t[i + 1] = s[k + 1]
      BY <1>2, <1>3, <3>1
    <3> QED BY <1>2, <1>3, <3>1, <3>2, <3>3
  <2> QED BY <2>1, <2>2
<1>6. ASSUME NEW i \in 1 .. Len(t), NEW j \in 1 .. Len(t), i < j,
             t[i].kind = "arg", t[j].kind = "arg"
      PROVE  t[j].kept < t[i].kept
  <2>1. j - 1 \in 1 .. Len(s) /\ t[j] = s[j - 1]
    BY <1>2, <1>3, <1>6
  <2>2. CASE i = 1
    BY <1>3, <1>6, <2>1, <2>2
  <2>3. CASE i # 1
    <3>1. i - 1 \in 1 .. Len(s) /\ t[i] = s[i - 1] /\ i - 1 < j - 1
      BY <1>2, <1>3, <1>6, <2>3
    <3> QED BY <1>6, <2>1, <3>1 DEF StackOK
  <2> QED BY <2>2, <2>3
<1> QED BY <1>3, <1>4, <1>5, <1>6 DEF StackOK, t

\* An argument without an end is given up, and the command it belongs to ends.
LEMMA ShrinkOK ==
  ASSUME NEW s, NEW n \in Nat, StackOK(s, n), Head(s).kind = "arg"
  PROVE  /\ StackOK(Tail(Tail(s)), Head(s).kept)
         /\ Head(s).kept \in Nat /\ Head(s).kept < n /\ Head(s).mark \in Positions
<1>1. s \in Seq(Frames) /\ s # <<>>
  BY DEF StackOK
<1>2. /\ Head(s) = s[1] /\ s[1] \in Frames
      /\ Tail(s) \in Seq(Frames) /\ Len(Tail(s)) = Len(s) - 1
      /\ Len(s) \in Nat /\ Len(s) >= 1
      /\ \A i \in 1 .. Len(s) - 1 : Tail(s)[i] = s[i + 1]
  BY <1>1, PopFacts
<1>3. 1 \in 1 .. Len(s) /\ FrameOK(s[1], n) /\ Len(s) > 1 /\ s[2].kind = "command"
  BY <1>2 DEF StackOK
<1>4. s[1].kept \in Nat /\ s[1].kept < n /\ s[1].mark \in Positions
  BY <1>2, <1>3, FrameFacts DEF FrameOK, TextFrames
<1> DEFINE u == Tail(s)
           t == Tail(u)
<1>5. StackOK(u, n) /\ Head(u).kind = "command" /\ u # <<>> /\ u \in Seq(Frames)
  <2>1. StackOK(u, n)
    BY <1>2, PopOK
  <2>2. u # <<>> /\ Head(u) = u[1] /\ u[1] = s[2]
    BY <1>2, <1>3, <2>1, PopFacts DEF StackOK
  <2> QED BY <1>2, <1>3, <2>1, <2>2
<1>6. StackOK(t, n)
  BY <1>5, PopOK
<1>7. Len(t) = Len(s) - 2 /\ \A i \in 1 .. Len(t) : t[i] = s[i + 2]
  <2>1. Len(t) = Len(u) - 1 /\ \A i \in 1 .. Len(u) - 1 : t[i] = u[i + 1]
    BY <1>5, PopFacts
  <2> QED BY <1>2, <2>1
<1> HIDE DEF t, u
<1>8. \A i \in 1 .. Len(t) : FrameOK(t[i], s[1].kept)
  <2> TAKE i \in 1 .. Len(t)
  <2>1. FrameOK(t[i], n)
    BY <1>6 DEF StackOK
  <2>2. PICK k \in 1 .. Len(s) : 1 < k /\ t[i] = s[k]
    BY <1>2, <1>7
  <2>3. s[k].kind = "arg" => s[k].kept < s[1].kept
    BY <1>2, <1>3, <2>2 DEF StackOK
  <2> QED BY <2>1, <2>2, <2>3 DEF FrameOK
<1>9. StackOK(t, s[1].kept)
  BY <1>6, <1>8 DEF StackOK
<1> QED BY <1>2, <1>4, <1>9 DEF t, u

-----------------------------------------------------------------------------
(* Reading the input *)

InputOK == input \in Seq(Tokens) /\ pos \in Positions

LEMMA TokFacts ==
  ASSUME InputOK
  PROVE  /\ Len(input) \in Nat /\ pos \in Nat /\ pos >= 1 /\ pos <= Len(input) + 1
         /\ \A p \in 1 .. Len(input) : Tok(p) = input[p] /\ Tok(p) \in Tokens
         /\ \A p : Tok(p) # "eof" => p \in 1 .. Len(input)
         /\ \A p : Tok(p) \in Tokens \cup {"eof"}
<1>1. Len(input) \in Nat /\ \A p \in 1 .. Len(input) : input[p] \in Tokens
  BY LenProperties, ElementOfSeq DEF InputOK
<1>2. pos \in Nat /\ pos >= 1 /\ pos <= Len(input) + 1
  BY <1>1 DEF InputOK, Positions
<1> QED BY <1>1, <1>2 DEF Tok

\* What is found at p ends within the input.
LEMMA HasAtFacts ==
  ASSUME InputOK, NEW p \in Nat, p >= 1, NEW s \in Seq(Tokens), s # <<>>, HasAt(p, s)
  PROVE  /\ Len(s) \in Nat /\ Len(s) >= 1 /\ p + Len(s) \in Positions
         /\ \A k \in p .. p + Len(s) - 1 : Tok(k) = s[k - p + 1]
<1>1. Len(s) \in Nat /\ Len(s) >= 1 /\ \A k \in 1 .. Len(s) : s[k] \in Tokens
  BY EmptySeq, LenProperties, ElementOfSeq
<1>2. Tok(p + Len(s) - 1) \in Tokens
  BY <1>1 DEF HasAt
<1>3. p + Len(s) - 1 \in 1 .. Len(input)
  BY <1>2, TokFacts DEF Tokens, Words, Spaces
<1>4. ASSUME NEW k \in p .. p + Len(s) - 1 PROVE Tok(k) = s[k - p + 1]
  <2>1. PICK j \in 1 .. Len(s) : j = k - p + 1
    BY <1>1
  <2>2. Tok(p + j - 1) = s[j]
    BY DEF HasAt
  <2> QED BY <1>1, <2>1, <2>2
<1> QED BY <1>1, <1>3, <1>4, TokFacts DEF Positions

\* The symbols of an escape and their mirror images are no white space and no
\* part of a word; a bracket consists of them and a brace.
Symbols == {"<", ">", "[", "]", "|", "{", "}"}

LEMMA BracketFacts ==
  ASSUME NEW e \in Seq(Escapes)
  PROVE  \A s \in {Opening(e), Closing(e)} : s \in Seq(Symbols) /\ s \in Seq(Tokens) /\ s # <<>>
<1>1. Symbols \subseteq Tokens
  BY DEF Symbols, Tokens
<1>2. Len(e) \in Nat /\ \A k \in 1 .. Len(e) : e[k] \in Escapes
  BY LenProperties, ElementOfSeq
<1>3. \A c \in Escapes : c \in Symbols /\ Mirrored[c] \in Symbols
  BY DEF Escapes, Openers, Mirrored, Symbols
<1>4. e \in Seq(Symbols)
  BY <1>2, <1>3
<1>5. Opening(e) \in Seq(Symbols) /\ Opening(e) # <<>>
  <2>1. "{" \in Symbols
    BY DEF Symbols
  <2> QED BY <1>4, <2>1, AppendProperties, Zenon DEF Opening
<1> DEFINE m == [k \in 1 .. Len(e) |-> Mirrored[e[Len(e) + 1 - k]]]
<1>6. m \in Seq(Symbols)
  <2>1. \A k \in 1 .. Len(e) : Len(e) + 1 - k \in 1 .. Len(e)
    BY <1>2
  <2>2. \A k \in 1 .. Len(e) : Mirrored[e[Len(e) + 1 - k]] \in Symbols
    BY <1>2, <1>3, <2>1
  <2> QED BY <1>2, <2>2
<1>7. Closing(e) \in Seq(Symbols) /\ Closing(e) # <<>>
  <2> HIDE DEF m
  <2>1. "}" \in Symbols
    BY DEF Symbols
  <2>2. <<"}">> \o m \in Seq(Symbols) /\ <<"}">> \o m # <<>>
    BY <1>6, <2>1, PushFacts, Zenon
  <2> QED BY <2>2 DEF Closing, m
<1>8. \A s \in Seq(Symbols) : s \in Seq(Tokens)
  BY <1>1
<1> QED BY <1>5, <1>7, <1>8

\* An escape has a mirror image.
LEMMA EscapeFacts ==
  ASSUME InputOK, NEW p \in Positions, NEW n \in Nat, OpensAt(p, n)
  PROVE  /\ Escape(p, n) \in Seq(Escapes) /\ p + n \in 1 .. Len(input)
         /\ Escape(p, n) # <<>> => Tok(p) = "|"
<1>1. p \in Nat /\ p >= 1 /\ Len(input) \in Nat
  BY TokFacts DEF Positions
<1>2. p + n \in 1 .. Len(input)
  BY TokFacts DEF OpensAt
<1>3. \A k \in p .. p + n - 1 : input[k] \in Escapes
  <2> TAKE k \in p .. p + n - 1
  <2>1. k \in 1 .. Len(input) /\ Tok(k) = input[k]
    BY <1>1, <1>2, TokFacts
  <2>2. CASE k = p
    <3>1. n > 0
      BY <1>1, <2>2
    <3>2. Tok(p) = "|"
      BY <3>1 DEF OpensAt
    <3> QED BY <2>1, <2>2, <3>2 DEF Escapes
  <2>3. CASE k # p
    <3>1. PICK j \in 1 .. n - 1 : k = p + j
      BY <1>1, <2>3
    <3>2. Tok(p + j) \in Openers
      BY DEF OpensAt
    <3> QED BY <2>1, <3>1, <3>2 DEF Escapes
  <2> QED BY <2>2, <2>3
<1>6. Escape(p, n) \in Seq(Escapes) /\ (Len(Escape(p, n)) = 0 \/ n > 0)
  <2>1. p \in Int /\ p + n - 1 \in Int
    BY <1>1
  <2>2. /\ SubSeq(input, p, p + n - 1) \in Seq(Escapes)
        /\ Len(SubSeq(input, p, p + n - 1)) = IF p <= p + n - 1 THEN p + n - 1 - p + 1 ELSE 0
    BY <1>3, <2>1, SubSeqProperties
  <2> QED BY <1>1, <2>2 DEF Escape
<1>7. Escape(p, n) # <<>> => n > 0
  BY <1>6, EmptySeq
<1> QED BY <1>2, <1>6, <1>7 DEF OpensAt

-----------------------------------------------------------------------------
(* What arguments may go back to *)

\* The length of the tree and the position that each argument keeps.
ArgsOf(s) == {<<s[i].kept, s[i].mark>> : i \in {j \in 1 .. Len(s) : s[j].kind = "arg"}}

LEMMA PopArgs ==
  ASSUME NEW s \in Seq(Frames), s # <<>>
  PROVE  ArgsOf(Tail(s)) \subseteq ArgsOf(s)
<1>1. /\ Len(Tail(s)) = Len(s) - 1 /\ Len(s) \in Nat
      /\ \A i \in 1 .. Len(s) - 1 : Tail(s)[i] = s[i + 1]
  BY PopFacts
<1>2. \A i \in 1 .. Len(Tail(s)) : i + 1 \in 1 .. Len(s) /\ Tail(s)[i] = s[i + 1]
  BY <1>1
<1> QED BY <1>2 DEF ArgsOf

LEMMA PushArgs ==
  ASSUME NEW s \in Seq(Frames), NEW f \in Frames
  PROVE  /\ f.kind # "arg" => ArgsOf(<<f>> \o s) \subseteq ArgsOf(s)
         /\ ArgsOf(<<f>> \o s) \subseteq ArgsOf(s) \cup {<<f.kept, f.mark>>}
<1> DEFINE t == <<f>> \o s
<1>1. /\ Len(t) = Len(s) + 1 /\ t[1] = f /\ Len(s) \in Nat
      /\ \A i \in 2 .. Len(s) + 1 : t[i] = s[i - 1]
  BY PushFacts
<1> HIDE DEF t
<1>2. ASSUME NEW i \in 1 .. Len(t), t[i].kind = "arg"
      PROVE  \/ t[i] = f
             \/ <<t[i].kept, t[i].mark>> \in ArgsOf(s)
  <2>1. CASE i = 1
    BY <1>1, <2>1
  <2>2. CASE i # 1
    <3>1. PICK k \in 1 .. Len(s) : t[i] = s[k]
      BY <1>1, <2>2
    <3> QED BY <1>2, <3>1 DEF ArgsOf
  <2> QED BY <2>1, <2>2
<1>3. \A a \in ArgsOf(t) : \E i \in 1 .. Len(t) : t[i].kind = "arg" /\ a = <<t[i].kept, t[i].mark>>
  BY DEF ArgsOf
<1> QED BY <1>2, <1>3 DEF t

LEMMA ReplaceArgs ==
  ASSUME NEW s \in Seq(Frames), s # <<>>, NEW f \in Frames, f.kind = Head(s).kind,
         f.kind = "arg" => f.kept = Head(s).kept /\ f.mark = Head(s).mark
  PROVE  ArgsOf(<<f>> \o Tail(s)) \subseteq ArgsOf(s)
<1>1. Head(s) = s[1] /\ 1 \in 1 .. Len(s) /\ Tail(s) \in Seq(Frames)
  BY PopFacts
<1>2. ArgsOf(Tail(s)) \subseteq ArgsOf(s)
  BY PopArgs
<1>3. f.kind = "arg" => <<f.kept, f.mark>> \in ArgsOf(s)
  BY <1>1 DEF ArgsOf
<1> QED BY <1>1, <1>2, <1>3, PushArgs

\* What arguments keep is a part of the tree.
LEMMA ArgsFacts ==
  ASSUME NEW s, NEW n, StackOK(s, n), NEW a \in ArgsOf(s)
  PROVE  a[1] \in Nat /\ a[1] < n
<1>1. PICK i \in 1 .. Len(s) : s[i].kind = "arg" /\ a = <<s[i].kept, s[i].mark>>
  BY DEF ArgsOf
<1>2. s[i] \in Frames /\ FrameOK(s[i], n)
  BY ElementOfSeq DEF StackOK
<1> QED BY <1>1, <1>2, FrameFacts DEF FrameOK, TextFrames

-----------------------------------------------------------------------------
(* The tree *)

LEMMA SpanFacts ==
  ASSUME NEW p \in Nat, NEW q \in Nat, p <= q
  PROVE  /\ Span(p, q) \in Seq(Nat) /\ Len(Span(p, q)) = q - p
         /\ \A k \in 1 .. q - p : Span(p, q)[k] = p + k - 1
<1>1. q - p \in Nat /\ \A k \in 1 .. q - p : p + k - 1 \in Nat
  OBVIOUS
<1> QED BY <1>1 DEF Span

LEMMA EmitFacts ==
  ASSUME out \in Seq(Events), NEW p \in Nat,
         NEW kind \in {"command", "arg", "endArg", "square", "entry", "endSquare"}
  PROVE  /\ Emit(kind, p) \in Seq(Events)
         /\ Len(Emit(kind, p)) = Len(out) + 1 /\ Len(out) \in Nat
         /\ \A i \in 1 .. Len(out) : Emit(kind, p)[i] = out[i]
         /\ Emit(kind, p)[Len(out) + 1] = [kind |-> kind, at |-> <<p>>]
<1>1. Event(kind, p) \in Events
  <2>1. <<p>> \in Seq(Nat)
    OBVIOUS
  <2> QED BY <2>1 DEF Event, Events
<1> QED BY <1>1, AppendProperties, LenProperties DEF Emit, Event

\* A text is a node of its own, or the end of the last node.
LEMMA AddTextFacts ==
  ASSUME out \in Seq(Events), NEW at \in Seq(Nat)
  PROVE  /\ AddText(at) \in Seq(Events) /\ Len(out) \in Nat
         /\ Merges(at) =>
              /\ Len(out) >= 1 /\ Len(AddText(at)) = Len(out)
              /\ \A i \in 1 .. Len(out) - 1 : AddText(at)[i] = out[i]
              /\ AddText(at)[Len(out)].kind = "text"
              /\ AddText(at)[Len(out)].at = out[Len(out)].at \o at
              /\ out[Len(out)].kind = "text" /\ out[Len(out)].at \in Seq(Nat)
         /\ ~Merges(at) =>
              /\ Len(AddText(at)) = Len(out) + 1
              /\ \A i \in 1 .. Len(out) : AddText(at)[i] = out[i]
              /\ AddText(at)[Len(out) + 1] = [kind |-> "text", at |-> at]
<1>1. Len(out) \in Nat
  BY LenProperties
<1>2. CASE Merges(at)
  <2>1. Len(out) \in 1 .. Len(out) /\ Len(out) >= 1
    BY <1>1, <1>2, EmptySeq DEF Merges
  <2>2. out[Len(out)] \in Events /\ out[Len(out)].kind = "text"
    BY <1>2, <2>1, ElementOfSeq DEF Merges
  <2> DEFINE e == [out[Len(out)] EXCEPT !.at = @ \o at]
  <2>3. out[Len(out)].at \in Seq(Nat) /\ out[Len(out)].at \o at \in Seq(Nat)
    BY <2>2, ConcatProperties DEF Events
  <2>4. e \in Events /\ e.kind = "text" /\ e.at = out[Len(out)].at \o at
    BY <2>2, <2>3 DEF Events
  <2>5. AddText(at) = [out EXCEPT ![Len(out)] = e]
    BY <1>2 DEF AddText
  <2> HIDE DEF e
  <2>6. /\ AddText(at) \in Seq(Events) /\ Len(AddText(at)) = Len(out)
        /\ \A j \in 1 .. Len(out) : AddText(at)[j] = IF j = Len(out) THEN e ELSE out[j]
    BY <2>1, <2>4, <2>5, ExceptSeq
  <2>7. ASSUME NEW i \in 1 .. Len(out) - 1 PROVE AddText(at)[i] = out[i]
    <3>1. i \in 1 .. Len(out) /\ i # Len(out)
      BY <1>1
    <3> QED BY <2>6, <3>1
  <2> QED BY <1>1, <1>2, <2>1, <2>2, <2>3, <2>4, <2>6, <2>7
<1>3. CASE ~Merges(at)
  <2>1. [kind |-> "text", at |-> at] \in Events
    BY DEF Events
  <2> QED BY <1>1, <1>3, <2>1, AppendProperties DEF AddText
<1> QED BY <1>2, <1>3

-----------------------------------------------------------------------------
(* What a step does to the position, the stack and the tree *)

Machine == InputOK /\ out \in Seq(Events) /\ StackOK(stack, Len(out))

\* A text from pos to q: a newline, or no newline in it; and without escapes
\* an "@" in it does not start a command.
TextUpTo(q) ==
  /\ q \in pos + 1 .. Len(input) + 1
  /\ \/ q = pos + 1 /\ Tok(pos) = "nl"
     \/ \A k \in pos .. q - 1 : Tok(k) # "nl"
  /\ (\A p \in 1 .. Len(input) : Tok(p) # "|") =>
       \A k \in pos .. q - 1 : Tok(k) = "@" => Tok(k + 1) \in {"%", "{", "eof"}

Keeps == out' = out /\ pos' >= pos
Emits ==
  \E p \in Nat, kind \in {"command", "arg", "endArg", "square", "entry", "endSquare"} :
    p >= pos /\ p < pos' /\ out' = Emit(kind, p)
Writes == TextUpTo(pos') /\ out' = AddText(Span(pos, pos'))
Retracts == Top.kind = "arg" /\ out' = Retracted /\ pos' = Resumed

Step ==
  /\ input' = input /\ pos' \in Positions /\ out' \in Seq(Events)
  /\ StackOK(stack', Len(out'))
  /\ ArgsOf(stack') \subseteq ArgsOf(stack) \cup {<<Len(out), pos>>}
  /\ Keeps \/ Emits \/ Writes \/ Retracts

LEMMA TopFacts ==
  ASSUME Machine
  PROVE  /\ stack \in Seq(Frames) /\ stack # <<>> /\ Len(out) \in Nat
         /\ Top = Head(stack) /\ Top = stack[1] /\ Top \in Frames /\ FrameOK(Top, Len(out))
         /\ Top.kind \in {"root", "arg"} =>
              /\ Top \in TextFrames /\ Top.escape \in Seq(Escapes) /\ Top.balance > 0
              /\ Len(Top.escape) \in Nat
              /\ \A b \in {Opening(Top.escape), Closing(Top.escape)} :
                   b \in Seq(Symbols) /\ b \in Seq(Tokens) /\ b # <<>>
<1>1. stack \in Seq(Frames) /\ stack # <<>> /\ Len(out) \in Nat
  BY LenProperties DEF Machine, StackOK
<1>2. Top = Head(stack) /\ Top = stack[1] /\ Top \in Frames /\ 1 \in 1 .. Len(stack)
  BY <1>1, PopFacts DEF Top
<1>3. FrameOK(Top, Len(out))
  BY <1>2 DEF Machine, StackOK
<1>4. ASSUME Top.kind \in {"root", "arg"}
      PROVE  /\ Top \in TextFrames /\ Top.escape \in Seq(Escapes) /\ Top.balance > 0
             /\ Len(Top.escape) \in Nat
  BY <1>2, <1>3, <1>4, FrameFacts, LenProperties DEF FrameOK
<1> QED BY <1>1, <1>2, <1>3, <1>4, BracketFacts

\* Nothing happens to the stack or the tree.
LEMMA SameStack ==
  ASSUME Machine, out' = out, stack' = stack, input' = input, pos' \in Positions, pos' >= pos
  PROVE  Step
BY DEF Machine, Step, Keeps

\* A text is added.
LEMMA WritesText ==
  ASSUME Machine, input' = input, pos' \in Positions, Writes,
         StackOK(stack', Len(out)), ArgsOf(stack') \subseteq ArgsOf(stack)
  PROVE  Step
<1>1. pos \in Nat /\ pos' \in Nat /\ pos <= pos'
  <2>1. pos \in Nat /\ Len(input) \in Nat
    BY TokFacts DEF Machine
  <2>2. pos' \in pos + 1 .. Len(input) + 1
    BY DEF Writes, TextUpTo
  <2> QED BY <2>1, <2>2
<1>2. Span(pos, pos') \in Seq(Nat)
  BY <1>1, SpanFacts
<1>3. out' \in Seq(Events) /\ Len(out') \in Nat /\ Len(out) \in Nat /\ Len(out) <= Len(out')
  <2>1. out' = AddText(Span(pos, pos')) /\ out \in Seq(Events)
    BY DEF Machine, Writes
  <2>2. out' \in Seq(Events) /\ Len(out) \in Nat
        /\ (Len(out') = Len(out) \/ Len(out') = Len(out) + 1)
    BY <1>2, <2>1, AddTextFacts
  <2> QED BY <2>2
<1>4. StackOK(stack', Len(out'))
  BY <1>3, GrowOK
<1> QED BY <1>3, <1>4 DEF Step

LEMMA BraceStep ==
  ASSUME Machine, ParsesText, NEW b \in {Opening(Top.escape), Closing(Top.escape)},
         HasAt(pos, b), NEW n \in Nat, n > 0, Brace(b, n)
  PROVE  Step
<1>1. Top.kind \in {"root", "arg"}
  BY DEF ParsesText, Parses
<1>2. b \in Seq(Symbols) /\ b \in Seq(Tokens) /\ b # <<>> /\ Top \in TextFrames
  BY <1>1, TopFacts
<1>3. InputOK /\ pos \in Nat /\ pos >= 1 /\ Len(input) \in Nat
  BY TokFacts DEF Machine
<1>4. /\ Len(b) \in Nat /\ Len(b) >= 1 /\ pos + Len(b) \in Positions
      /\ \A k \in pos .. pos + Len(b) - 1 : Tok(k) = b[k - pos + 1]
  BY <1>2, <1>3, HasAtFacts
<1>5. pos' = pos + Len(b) /\ out' = AddText(Span(pos, pos')) /\ input' = input
  BY DEF Brace
<1>6. \A k \in pos .. pos' - 1 : Tok(k) # "nl" /\ Tok(k) # "@"
  <2> TAKE k \in pos .. pos' - 1
  <2>1. Tok(k) = b[k - pos + 1] /\ k - pos + 1 \in 1 .. Len(b)
    BY <1>3, <1>4, <1>5
  <2>2. Tok(k) \in Symbols
    BY <1>2, <2>1, ElementOfSeq
  <2> QED BY <2>2 DEF Symbols
<1>7. Writes
  <2>1. pos' \in pos + 1 .. Len(input) + 1
    BY <1>3, <1>4, <1>5 DEF Positions
  <2> QED BY <1>5, <1>6, <2>1 DEF Writes, TextUpTo
<1> DEFINE f == [Top EXCEPT !.balance = n]
<1>8. f \in TextFrames /\ f \in Frames /\ f.kind = Top.kind /\ f.escape = Top.escape
      /\ f.balance = n /\ f.mark = Top.mark /\ f.kept = Top.kept
  BY <1>2 DEF TextFrames, Frames
<1>9. FrameOK(f, Len(out))
  BY <1>8, TopFacts DEF FrameOK
<1>10. stack' = <<f>> \o Tail(stack)
  BY DEF Brace, Below
<1> HIDE DEF f
<1>11. StackOK(stack', Len(out))
  BY <1>8, <1>9, <1>10, TopFacts, ReplaceOK DEF Machine
<1>12. ArgsOf(stack') \subseteq ArgsOf(stack)
  BY <1>8, <1>10, TopFacts, ReplaceArgs
<1> QED BY <1>4, <1>5, <1>7, <1>11, <1>12, WritesText

\* An event of the tree, with a token that is consumed.
LEMMA EmitsEvent ==
  ASSUME Machine, input' = input, pos' \in Positions, Emits,
         StackOK(stack', Len(out) + 1),
         ArgsOf(stack') \subseteq ArgsOf(stack) \cup {<<Len(out), pos>>}
  PROVE  Step
<1>1. out' \in Seq(Events) /\ Len(out') = Len(out) + 1
  BY EmitFacts DEF Machine, Emits
<1> QED BY <1>1 DEF Step

\* An event when a call returns.
LEMMA EmitsAndPops ==
  ASSUME Machine, input' = input, pos' \in Positions, Emits,
         stack' = Below, Top.kind # "root"
  PROVE  Step
<1>1. Len(out) \in Nat /\ StackOK(stack, Len(out) + 1)
  BY TopFacts, GrowOK DEF Machine
<1>2. StackOK(stack', Len(out) + 1)
  BY <1>1, TopFacts, PopOK DEF Below
<1>3. ArgsOf(stack') \subseteq ArgsOf(stack)
  BY TopFacts, PopArgs DEF Below
<1> QED BY <1>2, <1>3, EmitsEvent

\* A command starts, in the call that s leaves as the innermost one.
LEMMA CommandStarts ==
  ASSUME Machine, NEW name \in Nat, name >= pos, NEW s, StackOK(s, Len(out)),
         ArgsOf(s) \subseteq ArgsOf(stack), StartCommand(name, s)
  PROVE  Step
<1>1. pos \in Positions /\ input \in Seq(Tokens)
  BY DEF Machine, InputOK
<1>2. CASE Panic
  BY <1>1, <1>2, TokFacts, SameStack DEF Panic, Machine
<1>3. CASE ~Panic
  <2>1. /\ IsIdentifier(name) /\ pos' = name + 1 /\ input' = input
        /\ stack' = <<[kind |-> "command", square |-> TRUE]>> \o s
        /\ out' = Emit("command", name)
    BY <1>3 DEF StartCommand
  <2>2. name \in 1 .. Len(input) /\ Len(input) \in Nat
    BY <2>1, TokFacts DEF IsIdentifier, Machine
  <2>3. pos' \in Positions /\ Emits
    BY <2>1, <2>2 DEF Positions, Emits
  <2> DEFINE f == [kind |-> "command", square |-> TRUE]
  <2>4. f \in Frames /\ f.kind = "command" /\ FrameOK(f, Len(out) + 1)
    BY DEF Frames, CommandFrames, FrameOK
  <2>5. Len(out) \in Nat /\ StackOK(s, Len(out) + 1) /\ s \in Seq(Frames)
    BY TopFacts, GrowOK DEF StackOK
  <2>6. stack' = <<f>> \o s
    BY <2>1
  <2> HIDE DEF f
  <2>7. StackOK(stack', Len(out) + 1)
    BY <2>4, <2>5, <2>6, PushOK
  <2>8. ArgsOf(stack') \subseteq ArgsOf(s)
    BY <2>4, <2>5, <2>6, PushArgs
  <2> QED BY <2>1, <2>3, <2>7, <2>8, EmitsEvent
<1> QED BY <1>2, <1>3

-----------------------------------------------------------------------------
(* text() *)

LEMMA BracesInText ==
  ASSUME Machine, OpenBrace \/ CloseBrace
  PROVE  Step
<1>1. ParsesText
  BY DEF OpenBrace, CloseBrace
<1>2. Top.balance \in Nat /\ Top.balance > 0
  <2>1. Top \in TextFrames
    BY <1>1, TopFacts DEF ParsesText, Parses
  <2> QED BY <1>1, <2>1, TopFacts DEF TextFrames, ParsesText, Parses
<1>3. CASE OpenBrace
  <2>1. HasAt(pos, Opening(Top.escape)) /\ Brace(Opening(Top.escape), Top.balance + 1)
    BY <1>3 DEF OpenBrace, AtOpening
  <2> QED BY <1>1, <1>2, <2>1, BraceStep
<1>4. CASE CloseBrace
  <2>1. HasAt(pos, Closing(Top.escape)) /\ Brace(Closing(Top.escape), Top.balance - 1)
        /\ Top.balance - 1 > 0
    BY <1>4 DEF CloseBrace, AtClosing, IsInner
  <2> QED BY <1>1, <1>2, <2>1, BraceStep
<1> QED BY <1>3, <1>4

LEMMA EndArgumentStep ==
  ASSUME Machine, EndArgument
  PROVE  Step
<1>1. Top.kind = "arg" /\ HasAt(pos, Closing(Top.escape))
  BY DEF EndArgument, Parses, AtClosing
<1>2. InputOK /\ pos \in Nat /\ pos >= 1
  BY TokFacts DEF Machine
<1>3. Closing(Top.escape) \in Seq(Tokens) /\ Closing(Top.escape) # <<>>
  BY <1>1, TopFacts
<1>4. /\ Len(Closing(Top.escape)) \in Nat /\ Len(Closing(Top.escape)) >= 1
      /\ pos + Len(Closing(Top.escape)) \in Positions
  BY <1>1, <1>2, <1>3, HasAtFacts
<1>5. /\ pos' = pos + Len(Closing(Top.escape)) /\ out' = Emit("endArg", pos)
      /\ stack' = Below /\ input' = input
  BY DEF EndArgument
<1>6. Emits
  BY <1>2, <1>4, <1>5 DEF Emits
<1> QED BY <1>1, <1>4, <1>5, <1>6, EmitsAndPops

LEMMA NewlineStep ==
  ASSUME Machine, NewlineNode
  PROVE  Step
<1>1. /\ Tok(pos) = "nl" /\ pos' = pos + 1 /\ out' = AddText(Span(pos, pos + 1))
      /\ stack' = stack /\ input' = input
  BY DEF NewlineNode
<1>2. InputOK /\ pos \in 1 .. Len(input) /\ Len(input) \in Nat
  BY <1>1, TokFacts DEF Machine
<1>4. pos' \in Positions /\ pos' \in pos + 1 .. Len(input) + 1
  BY <1>1, <1>2 DEF Positions
<1>5. \A k \in pos .. pos' - 1 : Tok(k) = "nl"
  BY <1>1, <1>2
<1>6. Writes
  BY <1>1, <1>4, <1>5 DEF Writes, TextUpTo
<1>7. StackOK(stack', Len(out)) /\ ArgsOf(stack') \subseteq ArgsOf(stack)
  BY <1>1 DEF Machine
<1> QED BY <1>1, <1>4, <1>6, <1>7, WritesText

LEMMA CommentStep ==
  ASSUME Machine, Comment
  PROVE  Step
<1>1. pos \in Nat /\ pos >= 1 /\ Len(input) \in Nat /\ Len(Top.escape) \in Nat
  BY TokFacts, TopFacts DEF Machine, Comment, InContent, ParsesText, Parses
<1>2. pos' \in pos + 1 .. Len(input) + 1 \/ pos' \in pos + Len(Top.escape) + 2 + 2 .. Len(input) + 1
  BY DEF Comment, Comments, BlockComments, LineComments
<1>3. pos' \in Positions /\ pos' >= pos
  BY <1>1, <1>2 DEF Positions
<1> QED BY <1>3, SameStack DEF Comment

LEMMA TextCommandStep ==
  ASSUME Machine, TextCommand
  PROVE  Step
<1>1. pos \in Nat /\ Len(Top.escape) \in Nat
  BY TokFacts, TopFacts DEF Machine, TextCommand, InContent, ParsesText, Parses
<1>2. NameAt(pos, Top.escape) \in Nat /\ NameAt(pos, Top.escape) >= pos
  BY <1>1 DEF NameAt
<1>3. StartCommand(NameAt(pos, Top.escape), stack)
  BY DEF TextCommand
<1>4. StackOK(stack, Len(out))
  BY DEF Machine
<1> QED BY <1>2, <1>3, <1>4, CommandStarts

\* What the parser takes for text without escapes holds no start of a command.
LEMMA NoCommandInText ==
  ASSUME Machine, ParsesText, ~CommandAt(pos, Top.escape), Tok(pos) = "@",
         \A p \in 1 .. Len(input) : Tok(p) # "|"
  PROVE  Tok(pos + 1) \in {"%", "{", "eof"}
<1>1. Top.escape = <<>> /\ pos \in Nat
  BY TopFacts, TokFacts DEF FrameOK, ParsesText, Parses, Machine
<1>2. HasAt(pos, Append(Top.escape, "@"))
  <2>1. Append(<<>>, "@") = <<"@">> /\ Len(<<"@">>) = 1 /\ <<"@">>[1] = "@"
    OBVIOUS
  <2>2. \A k \in 1 .. 1 : Tok(pos + k - 1) = <<"@">>[k]
    BY <1>1, <2>1
  <2> QED BY <1>1, <2>1, <2>2 DEF HasAt
<1>3. Len(<<>>) = 0
  OBVIOUS
<1>4. NameAt(pos, Top.escape) = pos + 1
  BY <1>1, <1>3 DEF NameAt
<1>5. Tok(pos + 1) \in {"eof", "%", "|", "{"}
  BY <1>2, <1>4 DEF CommandAt
<1>6. Tok(pos + 1) # "|"
  BY TokFacts DEF Machine
<1> QED BY <1>5, <1>6

LEMMA GenericTextWrites ==
  ASSUME Machine, GenericText
  PROVE  Writes /\ pos' \in Positions
<1>1. /\ ParsesText /\ Tok(pos) # "nl" /\ ~CommandAt(pos, Top.escape)
      /\ pos' \in TextEnds(pos) /\ out' = AddText(Span(pos, pos'))
      /\ stack' = stack /\ input' = input
  BY DEF GenericText, InContent
<1>2. pos \in Nat /\ pos >= 1 /\ Len(input) \in Nat
  BY TokFacts DEF Machine
<1>3. pos' \in pos + 1 .. Len(input) + 1
  BY <1>1 DEF TextEnds
<1>4. \A k \in pos + 1 .. pos' - 1 : Tok(k) # "nl" /\ Tok(k) # "@"
  BY <1>1 DEF TextEnds, Special
<1>5. \A k \in pos .. pos' - 1 : k = pos \/ k \in pos + 1 .. pos' - 1
  <2>1. PICK q \in pos + 1 .. Len(input) + 1 : q = pos'
    BY <1>3
  <2>2. \A k \in pos .. q - 1 : k = pos \/ k \in pos + 1 .. q - 1
    BY <1>2
  <2> QED BY <2>1, <2>2
<1>6. \A k \in pos .. pos' - 1 : Tok(k) # "nl"
  BY <1>1, <1>4, <1>5
<1>7. ASSUME \A p \in 1 .. Len(input) : Tok(p) # "|", NEW k \in pos .. pos' - 1, Tok(k) = "@"
      PROVE  Tok(k + 1) \in {"%", "{", "eof"}
  <2>1. k = pos
    BY <1>4, <1>5, <1>7
  <2> QED BY <1>1, <1>7, <2>1, NoCommandInText
<1>8. Writes
  BY <1>1, <1>3, <1>6, <1>7 DEF Writes, TextUpTo
<1>9. pos' \in Positions
  BY <1>2, <1>3 DEF Positions
<1> QED BY <1>8, <1>9

LEMMA GenericTextStep ==
  ASSUME Machine, GenericText
  PROVE  Step
<1>1. input' = input /\ stack' = stack
  BY DEF GenericText
<1>2. StackOK(stack', Len(out)) /\ ArgsOf(stack') \subseteq ArgsOf(stack)
  BY <1>1 DEF Machine
<1> QED BY <1>1, <1>2, GenericTextWrites, WritesText

LEMMA PanicStep ==
  ASSUME Machine, Panic
  PROVE  Step
<1>1. pos' = pos /\ pos \in Positions /\ pos \in Nat
  BY TokFacts DEF Panic, Machine, InputOK
<1>2. out' = out /\ stack' = stack /\ input' = input
  BY DEF Panic
<1> QED BY <1>1, <1>2, SameStack

LEMMA UnclosedStep ==
  ASSUME Machine, UnclosedArgument
  PROVE  Step
<1>1. CASE Panic
  BY <1>1, PanicStep
<1>2. CASE ~Panic
  <2>1. /\ Top.kind = "arg" /\ pos' = Top.mark /\ out' = SubSeq(out, 1, Top.kept)
        /\ stack' = Tail(Tail(stack)) /\ input' = input
    BY <1>2 DEF UnclosedArgument, Parses, Resumed, Retracted, Callers, Below
  <2>2. /\ StackOK(Tail(Tail(stack)), Top.kept)
        /\ Top.kept \in Nat /\ Top.kept < Len(out) /\ Top.mark \in Positions
    BY <2>1, TopFacts, ShrinkOK DEF Machine
  <2>3. /\ SubSeq(out, 1, Top.kept) \in Seq(Events)
        /\ Len(SubSeq(out, 1, Top.kept)) = Top.kept
    BY <2>2, TopFacts, PrefixFacts DEF Machine
  <2>4. ArgsOf(stack') \subseteq ArgsOf(stack)
    <3>1. StackOK(Tail(stack), Len(out))
      BY <2>1, TopFacts, PopOK DEF Machine
    <3> QED BY <2>1, <3>1, TopFacts, PopArgs DEF StackOK
  <2>5. Retracts
    BY <2>1 DEF Retracts, Retracted, Resumed
  <2> QED BY <2>1, <2>2, <2>3, <2>4, <2>5 DEF Step
<1> QED BY <1>1, <1>2

LEMMA TextPartStep ==
  ASSUME Machine, TextPart
  PROVE  Step
<1>1. CASE OpenBrace \/ CloseBrace
  BY <1>1, BracesInText
<1>2. CASE EndArgument
  BY <1>2, EndArgumentStep
<1>3. CASE ExtraBrace
  BY <1>3, PanicStep DEF ExtraBrace
<1>4. CASE NewlineNode
  BY <1>4, NewlineStep
<1>5. CASE Comment
  BY <1>5, CommentStep
<1>6. CASE TextCommand
  BY <1>6, TextCommandStep
<1>7. CASE GenericText
  BY <1>7, GenericTextStep
<1>8. CASE EndOfFile
  <2>1. CASE Panic
    BY <2>1, PanicStep
  <2>2. CASE ~Panic
    <3>1. pos' = pos /\ out' = out /\ stack' = stack /\ input' = input
      BY <1>8, <2>2 DEF EndOfFile
    <3>2. pos' \in Positions /\ pos' >= pos
      BY <3>1, TokFacts DEF Machine, InputOK
    <3> QED BY <3>1, <3>2, SameStack
  <2> QED BY <2>1, <2>2
<1>9. CASE UnclosedArgument
  BY <1>9, UnclosedStep
<1> QED BY <1>1, <1>2, <1>3, <1>4, <1>5, <1>6, <1>7, <1>8, <1>9 DEF TextPart

-----------------------------------------------------------------------------
(* command_contents() and square_args() *)

\* A call inside a command starts: f, with the event that it leaves.
LEMMA CallStarts ==
  ASSUME Machine, Top.kind = "command", NEW p \in 1 .. Len(input), p >= pos,
         NEW f \in Frames, f.kind \in {"arg", "square"}, FrameOK(f, Len(out) + 1),
         f.kind = "arg" => f.kept = Len(out) /\ f.mark = pos,
         NEW kind \in {"arg", "square"},
         input' = input, pos' \in Positions, p < pos', out' = Emit(kind, p),
         stack' = <<f>> \o PastSquare
  PROVE  Step
<1> DEFINE g == [Top EXCEPT !.square = FALSE]
           s == <<g>> \o Tail(stack)
<1>1. Len(out) \in Nat /\ stack \in Seq(Frames) /\ stack # <<>> /\ Top = Head(stack)
      /\ Top \in CommandFrames
  BY TopFacts, FrameFacts
<1>2. g \in Frames /\ g.kind = "command"
  BY <1>1 DEF CommandFrames, Frames
<1>3. FrameOK(g, Len(out))
  BY <1>2 DEF FrameOK
<1> HIDE DEF g
<1>4. StackOK(s, Len(out)) /\ Head(s) = g /\ s \in Seq(Frames)
  <2>1. StackOK(s, Len(out))
    BY <1>1, <1>2, <1>3, ReplaceOK DEF Machine
  <2>2. Head(s) = g
    BY <1>1, <1>2, PopFacts, PushFacts
  <2> QED BY <2>1, <2>2 DEF StackOK
<1>5. ArgsOf(s) \subseteq ArgsOf(stack)
  BY <1>1, <1>2, ReplaceArgs
<1>6. stack' = <<f>> \o s
  BY DEF PastSquare, Below, g
<1> HIDE DEF s
<1>7. ASSUME NEW i \in 1 .. Len(s), s[i].kind = "arg" PROVE s[i].kept < Len(out)
  <2>1. FrameOK(s[i], Len(out))
    BY <1>4 DEF StackOK
  <2> QED BY <1>7, <2>1 DEF FrameOK
<1>8. StackOK(s, Len(out) + 1)
  BY <1>1, <1>4, GrowOK
<1>9. StackOK(stack', Len(out) + 1)
  <2>1. f.kind \in {"arg", "square"} /\ Head(s).kind = "command"
    BY <1>2, <1>4
  <2>2. f.kind = "arg" => \A i \in 1 .. Len(s) : s[i].kind = "arg" => s[i].kept < f.kept
    BY <1>7
  <2>3. Len(out) + 1 \in Nat
    BY <1>1
  <2> QED BY <1>6, <1>8, <2>1, <2>2, <2>3, PushOK
<1>10. ArgsOf(stack') \subseteq ArgsOf(stack) \cup {<<Len(out), pos>>}
  BY <1>4, <1>5, <1>6, PushArgs
<1>11. Emits
  <2>1. p \in Nat
    BY TokFacts DEF Machine
  <2> QED BY <2>1 DEF Emits
<1> QED BY <1>9, <1>10, <1>11, EmitsEvent

LEMMA CommandPartStep ==
  ASSUME Machine, CommandPart
  PROVE  Step
<1>1. PICK p \in Skipped(pos) :
        \/ Semicolon(p) \/ StartSquare(p)
        \/ \E n \in 0 .. Len(input) : StartArgument(p, n)
        \/ EndCommand(p)
  BY DEF CommandPart
<1>2. Top.kind = "command" /\ status = "parsing"
  BY DEF CommandPart, Parses
<1>3. InputOK /\ pos \in Nat /\ pos >= 1 /\ Len(input) \in Nat /\ pos \in Positions
  BY TokFacts DEF Machine, InputOK
<1>4. p \in pos .. Len(input) + 1
  BY DEF Skipped
<1>5. p \in Positions /\ p >= pos /\ p \in Nat
  BY <1>3, <1>4 DEF Positions
<1>6. ASSUME Tok(p) # "eof" PROVE p \in 1 .. Len(input) /\ p + 1 \in Positions
  BY <1>3, <1>6, TokFacts DEF Positions
<1>7. /\ stack \in Seq(Frames) /\ stack # <<>> /\ Top = Head(stack) /\ Top \in CommandFrames
      /\ Tail(stack) \in Seq(Frames)
  BY <1>2, TopFacts, FrameFacts, PopFacts
<1>8. StackOK(Below, Len(out)) /\ ArgsOf(Below) \subseteq ArgsOf(stack)
  BY <1>2, <1>7, TopFacts, PopOK, PopArgs DEF Machine, Below
<1>9. CASE Semicolon(p)
  <2>1. Tok(p) # "eof" /\ pos' = p + 1 /\ stack' = Below /\ out' = out /\ input' = input
    BY <1>9 DEF Semicolon
  <2>2. pos' \in Positions /\ pos' >= pos
    BY <1>3, <1>5, <1>6, <2>1
  <2> QED BY <1>8, <2>1, <2>2 DEF Step, Keeps, Machine
<1>10. CASE EndCommand(p)
  <2>1. pos' = pos /\ stack' = Below /\ out' = out /\ input' = input
    BY <1>10 DEF EndCommand
  <2> QED BY <1>3, <1>8, <2>1 DEF Step, Keeps, Machine
<1>11. CASE StartSquare(p)
  <2> DEFINE f == [kind |-> "square", stage |-> "start"]
  <2>1. /\ Tok(p) # "eof" /\ pos' = p + 1 /\ out' = Emit("square", p) /\ input' = input
        /\ stack' = <<f>> \o PastSquare
    BY <1>11 DEF StartSquare
  <2>2. f \in Frames /\ f.kind = "square" /\ FrameOK(f, Len(out) + 1)
    BY DEF Frames, SquareFrames, SquareStages, FrameOK
  <2> HIDE DEF f
  <2>3. p \in 1 .. Len(input) /\ pos' \in Positions /\ p < pos'
    BY <1>5, <1>6, <2>1
  <2> QED BY <1>2, <1>5, <2>1, <2>2, <2>3, CallStarts
<1>12. ASSUME NEW n \in 0 .. Len(input), StartArgument(p, n) PROVE Step
  <2> DEFINE f == [kind |-> "arg", escape |-> Escape(p, n), balance |-> 1,
                   mark |-> pos, kept |-> Len(out)]
  <2>1. /\ OpensAt(p, n) /\ pos' = p + n + 1 /\ out' = Emit("arg", p) /\ input' = input
        /\ stack' = <<f>> \o PastSquare
    BY <1>12 DEF StartArgument
  <2>2. n \in Nat /\ Len(out) \in Nat
    BY <1>3, TopFacts
  <2>3. /\ Escape(p, n) \in Seq(Escapes) /\ p + n \in 1 .. Len(input)
        /\ Escape(p, n) # <<>> => Tok(p) = "|"
    BY <1>3, <1>5, <2>1, <2>2, EscapeFacts
  <2>4. p \in 1 .. Len(input) /\ pos' \in Positions /\ p < pos'
    BY <1>3, <1>5, <2>1, <2>2, <2>3 DEF Positions
  <2>5. Escape(p, n) \in Seq(Tokens)
    <3>1. Escapes \subseteq Tokens
      BY DEF Escapes, Openers, Tokens
    <3> QED BY <2>3, <3>1, SeqMonotonic
  <2>6. f \in Frames
    BY <1>3, <2>2, <2>5 DEF Frames, TextFrames
  <2>7. FrameOK(f, Len(out) + 1)
    BY <1>3, <2>2, <2>3, <2>4 DEF FrameOK
  <2>8. f.kind = "arg" /\ f.kept = Len(out) /\ f.mark = pos
    OBVIOUS
  <2> HIDE DEF f
  <2> QED BY <1>2, <1>5, <2>1, <2>4, <2>6, <2>7, <2>8, CallStarts
<1> QED BY <1>1, <1>9, <1>10, <1>11, <1>12

LEMMA SquarePartStep ==
  ASSUME Machine, SquarePart
  PROVE  Step
<1>1. PICK p \in Spaced(pos) :
        \/ SimpleEntry(p) \/ CommandEntry(p) \/ Equals(p) \/ Comma(p)
        \/ EndSquare(p) \/ Malformed(p)
  BY DEF SquarePart
<1>2. Top.kind = "square"
  BY DEF SquarePart, Parses
<1>3. InputOK /\ pos \in Nat /\ pos >= 1 /\ Len(input) \in Nat /\ pos \in Positions
  BY TokFacts DEF Machine, InputOK
<1>4. p \in pos .. Len(input) + 1
  BY DEF Spaced
<1>5. p >= pos /\ p \in Nat
  BY <1>3, <1>4
<1>6. ASSUME Tok(p) # "eof" PROVE p + 1 \in Positions
  BY <1>3, <1>6, TokFacts DEF Positions
<1>7. /\ stack \in Seq(Frames) /\ stack # <<>> /\ Top = Head(stack) /\ Top \in SquareFrames
      /\ Len(out) \in Nat
  BY <1>2, TopFacts, FrameFacts
<1>8. ASSUME NEW stage \in SquareStages
      PROVE  StackOK(Moved(stage), Len(out)) /\ ArgsOf(Moved(stage)) \subseteq ArgsOf(stack)
  <2> DEFINE f == [Top EXCEPT !.stage = stage]
  <2>1. f \in Frames /\ f.kind = "square"
    BY <1>7 DEF SquareFrames, Frames
  <2>2. FrameOK(f, Len(out))
    BY <2>1 DEF FrameOK
  <2>3. Moved(stage) = <<f>> \o Tail(stack)
    BY DEF Moved, Below
  <2> HIDE DEF f
  <2> QED BY <1>2, <1>7, <2>1, <2>2, <2>3, ReplaceOK, ReplaceArgs DEF Machine
<1>9. AfterEntry \in SquareStages
  BY DEF AfterEntry, SquareStages
<1>10. CASE SimpleEntry(p)
  <2>1. /\ Tok(p) # "eof" /\ pos' = p + 1 /\ out' = Emit("entry", p) /\ input' = input
        /\ stack' = Moved(AfterEntry)
    BY <1>10 DEF SimpleEntry, Consume
  <2>2. pos' \in Positions /\ Emits
    BY <1>5, <1>6, <2>1 DEF Emits
  <2>3. StackOK(stack', Len(out) + 1)
    BY <1>7, <1>8, <1>9, <2>1, GrowOK
  <2> QED BY <1>8, <1>9, <2>1, <2>2, <2>3, EmitsEvent
<1>11. CASE CommandEntry(p)
  <2>1. StartCommand(NameAt(p, <<>>), Moved(AfterEntry))
    BY <1>11 DEF CommandEntry
  <2>2. NameAt(p, <<>>) \in Nat /\ NameAt(p, <<>>) >= pos
    BY <1>3, <1>5 DEF NameAt
  <2> QED BY <1>8, <1>9, <2>1, <2>2, CommandStarts
<1>12. CASE Equals(p) \/ Comma(p)
  <2>1. PICK stage \in SquareStages :
           Tok(p) # "eof" /\ pos' = p + 1 /\ out' = out /\ input' = input /\ stack' = Moved(stage)
    BY <1>12 DEF Equals, Comma, Consume, SquareStages
  <2>2. pos' \in Positions /\ pos' >= pos
    BY <1>3, <1>5, <1>6, <2>1
  <2> QED BY <1>8, <2>1, <2>2 DEF Step, Keeps, Machine
<1>13. CASE EndSquare(p)
  <2>1. /\ Tok(p) # "eof" /\ pos' = p + 1 /\ out' = Emit("endSquare", p) /\ input' = input
        /\ stack' = Below
    BY <1>13 DEF EndSquare, MayEnd
  <2>2. pos' \in Positions /\ Emits
    BY <1>5, <1>6, <2>1 DEF Emits
  <2> QED BY <1>2, <2>1, <2>2, EmitsAndPops
<1>14. CASE Malformed(p)
  BY <1>14, PanicStep DEF Malformed
<1> QED BY <1>1, <1>10, <1>11, <1>12, <1>13, <1>14

LEMMA NextStep ==
  ASSUME Machine, Next
  PROVE  Step \/ UNCHANGED vars
BY TextPartStep, CommandPartStep, SquarePartStep DEF Next, Stopped

-----------------------------------------------------------------------------
(* Type correctness *)

LEMMA MachineInit == Init => Machine /\ ArgsOf(stack) = {}
<1> SUFFICES ASSUME Init PROVE Machine /\ ArgsOf(stack) = {}
  OBVIOUS
<1>1. input \in Seq(Tokens) /\ Len(input) \in Nat /\ pos = 1 /\ out = <<>>
  BY InputsAssumption, LenProperties DEF Init
<1>2. InputOK
  BY <1>1 DEF InputOK, Positions
<1>3. out \in Seq(Events) /\ Len(out) = 0
  BY <1>1
<1> DEFINE f == [kind |-> "root", escape |-> <<>>, balance |-> 1, mark |-> 1, kept |-> 0]
<1>4. stack = <<f>>
  BY DEF Init
<1>5. f \in Frames /\ f.kind = "root" /\ f.escape = <<>> /\ f.balance = 1
  BY DEF Frames, TextFrames
<1>6. FrameOK(f, 0)
  BY <1>5 DEF FrameOK
<1> HIDE DEF f
<1>7. stack \in Seq(Frames) /\ stack # <<>> /\ Len(stack) = 1 /\ stack[1] = f
  BY <1>4, <1>5
<1>8. StackOK(stack, 0)
  BY <1>5, <1>6, <1>7 DEF StackOK
<1>9. ArgsOf(stack) = {}
  BY <1>5, <1>7 DEF ArgsOf
<1> QED BY <1>2, <1>3, <1>8, <1>9 DEF Machine

LEMMA MachineStep ==
  ASSUME Machine, [Next]_vars
  PROVE  Machine'
<1>1. CASE UNCHANGED vars
  BY <1>1 DEF vars, Machine, InputOK, Positions, StackOK, FrameOK, Tok
<1>2. CASE Step
  <2>1. /\ input' = input /\ pos' \in Positions /\ out' \in Seq(Events)
        /\ StackOK(stack', Len(out'))
    BY <1>2 DEF Step
  <2>2. InputOK'
    BY <2>1 DEF Machine, InputOK, Positions
  <2>3. \A f, n : FrameOK(f, n)' <=> FrameOK(f, n)
    BY <2>1 DEF FrameOK, Positions, Tok
  <2>4. StackOK(stack, Len(out))'
    BY <2>1, <2>3 DEF StackOK
  <2> QED BY <2>1, <2>2, <2>4 DEF Machine
<1> QED BY <1>1, <1>2, NextStep

Statuses == {"parsing", "done", "panicked"}

LEMMA StatusStep ==
  ASSUME status \in Statuses, Next
  PROVE  status' \in Statuses /\ debug' = debug
<1> USE DEF Statuses
<1>1. ASSUME Panic PROVE status' \in Statuses /\ debug' = debug
  BY <1>1 DEF Panic
<1>2. ASSUME NEW name, NEW s, StartCommand(name, s)
      PROVE  status' \in Statuses /\ debug' = debug
  BY <1>1, <1>2 DEF StartCommand
<1>3. CASE TextPart
  BY <1>1, <1>2, <1>3 DEF TextPart, OpenBrace, CloseBrace, EndArgument, ExtraBrace, NewlineNode,
                          Comment, TextCommand, GenericText, EndOfFile, UnclosedArgument, Brace
<1>4. CASE CommandPart
  BY <1>4 DEF CommandPart, Semicolon, StartSquare, StartArgument, EndCommand
<1>5. CASE SquarePart
  BY <1>1, <1>2, <1>5 DEF SquarePart, SimpleEntry, CommandEntry, Equals, Comma, EndSquare,
                          Malformed, Consume
<1> QED BY <1>3, <1>4, <1>5 DEF Next, Stopped, vars

\* Type correctness for inputs of any length: the position stays within the
\* input, the stack never runs empty, and every open text has an open bracket.
THEOREM TypeCorrect == Spec => []TypeOK
<1> DEFINE IInv == Machine /\ status \in Statuses /\ debug \in BOOLEAN
<1>1. Init => IInv
  BY MachineInit, BuildsAssumption DEF Init, Statuses
<1>2. IInv /\ [Next]_vars => IInv'
  <2> SUFFICES ASSUME IInv, [Next]_vars PROVE IInv'
    OBVIOUS
  <2>1. status' \in Statuses /\ debug' \in BOOLEAN
    BY StatusStep DEF vars
  <2> QED BY <2>1, MachineStep
<1>3. IInv => TypeOK
  <2> SUFFICES ASSUME IInv PROVE TypeOK
    OBVIOUS
  <2>1. \A i \in 1 .. Len(stack) :
          stack[i].kind \in {"root", "arg"} => stack[i].balance > 0
    BY DEF Machine, StackOK, FrameOK
  <2> QED BY <2>1 DEF TypeOK, Machine, InputOK, StackOK, Statuses
<1> HIDE DEF IInv
<1> QED BY <1>1, <1>2, <1>3, PTL DEF Spec

-----------------------------------------------------------------------------
(* The tree is in the order of the source *)

\* The positions in the first n events of o are below m, and grow.
Sorted(o, n, m) ==
  /\ \A i \in 1 .. n : \A k \in 1 .. Len(o[i].at) : o[i].at[k] < m
  /\ \A i \in 1 .. n : \A k \in 2 .. Len(o[i].at) : o[i].at[k - 1] < o[i].at[k]
  /\ \A i, j \in 1 .. n : i < j =>
       \A k \in 1 .. Len(o[i].at), l \in 1 .. Len(o[j].at) : o[i].at[k] < o[j].at[l]

LEMMA EventFacts ==
  ASSUME NEW o \in Seq(Events)
  PROVE  /\ Len(o) \in Nat
         /\ \A i \in 1 .. Len(o) :
              /\ o[i].at \in Seq(Nat) /\ Len(o[i].at) \in Nat
              /\ \A k \in 1 .. Len(o[i].at) : o[i].at[k] \in Nat
<1>1. Len(o) \in Nat
  BY LenProperties
<1>2. ASSUME NEW i \in 1 .. Len(o)
      PROVE  /\ o[i].at \in Seq(Nat) /\ Len(o[i].at) \in Nat
             /\ \A k \in 1 .. Len(o[i].at) : o[i].at[k] \in Nat
  <2>1. o[i].at \in Seq(Nat)
    <3>1. o[i] \in Events
      BY ElementOfSeq
    <3> QED BY <3>1 DEF Events
  <2> QED BY <2>1, LenProperties, ElementOfSeq
<1> QED BY <1>1, <1>2

LEMMA SortedInOrder ==
  ASSUME out \in Seq(Events)
  PROVE  InOrder <=> Sorted(out, Len(out), pos)
<1>1. ASSUME NEW i \in 1 .. Len(out)
      PROVE  /\ Len(out[i].at) \in Nat
             /\ \A k \in 1 .. Len(out[i].at) : k > 1 <=> k \in 2 .. Len(out[i].at)
             /\ \A k \in 2 .. Len(out[i].at) : k \in 1 .. Len(out[i].at)
  BY EventFacts
<1>2. ASSUME Sorted(out, Len(out), pos) PROVE InOrder
  BY <1>1, <1>2 DEF Sorted, InOrder
<1>3. ASSUME InOrder PROVE Sorted(out, Len(out), pos)
  <2>1. ASSUME NEW i \in 1 .. Len(out), NEW j \in 1 .. Len(out), i < j,
               NEW k \in 1 .. Len(out[i].at), NEW l \in 1 .. Len(out[j].at)
        PROVE  out[i].at[k] < out[j].at[l]
    <3>1. /\ out[i].at[k] \in {out[i].at[h] : h \in 1 .. Len(out[i].at)}
          /\ out[j].at[l] \in {out[j].at[h] : h \in 1 .. Len(out[j].at)}
      OBVIOUS
    <3> QED BY <1>3, <2>1, <3>1 DEF InOrder
  <2>2. \A i \in 1 .. Len(out) : \A k \in 1 .. Len(out[i].at) : out[i].at[k] < pos
    BY <1>3 DEF InOrder
  <2>3. \A i \in 1 .. Len(out) : \A k \in 2 .. Len(out[i].at) : out[i].at[k - 1] < out[i].at[k]
    BY <1>1, <1>3 DEF InOrder
  <2> QED BY <2>1, <2>2, <2>3 DEF Sorted
<1> QED BY <1>2, <1>3

\* A later bound.
LEMMA SortedMore ==
  ASSUME NEW o \in Seq(Events), NEW n \in Nat, n <= Len(o),
         NEW m \in Nat, NEW b \in Nat, m <= b, Sorted(o, n, m)
  PROVE  Sorted(o, n, b)
<1>1. ASSUME NEW i \in 1 .. n, NEW k \in 1 .. Len(o[i].at) PROVE o[i].at[k] < b
  <2> DEFINE x == o[i].at[k]
  <2>1. i \in 1 .. Len(o)
    BY EventFacts
  <2>2. x \in Nat
    BY <2>1, EventFacts
  <2>3. x < m
    BY DEF Sorted
  <2> HIDE DEF x
  <2>4. x < b
    BY <2>2, <2>3
  <2> QED BY <2>4 DEF x
<1> QED BY <1>1 DEF Sorted

\* A part of the tree that is the same in o and w.
LEMMA SortedSame ==
  ASSUME NEW o, NEW w, NEW n, NEW m, Sorted(o, n, m), \A i \in 1 .. n : w[i] = o[i]
  PROVE  Sorted(w, n, m)
BY DEF Sorted

\* One more event, past the bound.
LEMMA SortedAppend ==
  ASSUME NEW o \in Seq(Events), NEW m \in Nat, NEW b \in Nat, Sorted(o, Len(o), m), m <= b,
         NEW w \in Seq(Events), Len(w) = Len(o) + 1, \A i \in 1 .. Len(o) : w[i] = o[i],
         NEW a \in Seq(Nat), w[Len(o) + 1].at = a,
         \A k \in 1 .. Len(a) : a[k] \in m .. b - 1,
         \A k \in 2 .. Len(a) : a[k - 1] < a[k]
  PROVE  Sorted(w, Len(w), b)
<1>1. Len(o) \in Nat /\ Len(w) \in Nat
  BY EventFacts
<1>2. Sorted(w, Len(o), m)
  BY SortedSame
<1>3. Sorted(w, Len(o), b)
  BY <1>1, <1>2, SortedMore
<1>4. \A i \in 1 .. Len(w) : i \in 1 .. Len(o) \/ i = Len(w)
  BY <1>1
<1>5. ASSUME NEW i \in 1 .. Len(w)
      PROVE  /\ \A k \in 1 .. Len(w[i].at) : w[i].at[k] < b
             /\ \A k \in 2 .. Len(w[i].at) : w[i].at[k - 1] < w[i].at[k]
  <2>1. CASE i \in 1 .. Len(o)
    BY <1>3, <2>1 DEF Sorted
  <2>2. CASE i = Len(w)
    <3>1. w[i].at = a
      BY <2>2
    <3>2. /\ \A k \in 1 .. Len(a) : a[k] < b
          /\ \A k \in 2 .. Len(a) : a[k - 1] < a[k]
      OBVIOUS
    <3> QED BY <3>1, <3>2
  <2> QED BY <1>4, <2>1, <2>2
<1>6. ASSUME NEW i \in 1 .. Len(w), NEW j \in 1 .. Len(w), i < j,
             NEW k \in 1 .. Len(w[i].at), NEW l \in 1 .. Len(w[j].at)
      PROVE  w[i].at[k] < w[j].at[l]
  <2>1. i \in 1 .. Len(o)
    BY <1>1, <1>6
  <2>2. CASE j \in 1 .. Len(o)
    BY <1>3, <1>6, <2>1, <2>2 DEF Sorted
  <2>3. CASE j = Len(w)
    <3>1. w[i].at[k] < m /\ w[i].at[k] \in Nat
      BY <1>2, <1>6, <2>1, EventFacts DEF Sorted
    <3>2. w[j].at[l] \in m .. b - 1
      <4>1. w[j].at = a
        BY <2>3
      <4> QED BY <4>1
    <3> DEFINE x == w[i].at[k]
               y == w[j].at[l]
    <3>3. x < m /\ x \in Nat /\ y \in m .. b - 1
      BY <3>1, <3>2
    <3> HIDE DEF x, y
    <3>4. x < y
      BY <3>3
    <3> QED BY <3>4 DEF x, y
  <2> QED BY <1>4, <2>2, <2>3
<1> QED BY <1>5, <1>6 DEF Sorted

\* Two growing sequences, one below m and the other one above.
LEMMA JoinGrows ==
  ASSUME NEW c \in Seq(Nat), NEW a \in Seq(Nat), NEW m \in Nat, NEW b \in Nat, m <= b,
         \A k \in 1 .. Len(c) : c[k] < m,
         \A k \in 2 .. Len(c) : c[k - 1] < c[k],
         \A k \in 1 .. Len(a) : a[k] \in m .. b - 1,
         \A k \in 2 .. Len(a) : a[k - 1] < a[k],
         NEW d, d = c \o a
  PROVE  /\ \A k \in 1 .. Len(d) : (k \in 1 .. Len(c) /\ d[k] = c[k]) \/ d[k] \in m .. b - 1
         /\ \A k \in 1 .. Len(d) : d[k] < b
         /\ \A k \in 2 .. Len(d) : d[k - 1] < d[k]
<1>1. /\ Len(c) \in Nat /\ Len(a) \in Nat /\ \A k \in 1 .. Len(c) : c[k] \in Nat
      /\ \A k \in 1 .. Len(a) : a[k] \in Nat
  BY LenProperties, ElementOfSeq
<1>2. /\ Len(d) = Len(c) + Len(a)
      /\ \A k \in 1 .. Len(c) + Len(a) : d[k] = IF k <= Len(c) THEN c[k] ELSE a[k - Len(c)]
  BY ConcatProperties
<1>3. \A k \in 1 .. Len(c) : d[k] = c[k]
  BY <1>1, <1>2
<1>4. \A h \in 1 .. Len(a) : d[Len(c) + h] = a[h]
  <2> TAKE h \in 1 .. Len(a)
  <2>1. /\ Len(c) + h \in 1 .. Len(c) + Len(a) /\ ~(Len(c) + h <= Len(c))
        /\ Len(c) + h - Len(c) = h
    BY <1>1
  <2>2. d[Len(c) + h] = a[Len(c) + h - Len(c)]
    BY <1>2, <2>1
  <2> QED BY <2>1, <2>2
<1>5. ASSUME NEW k \in 1 .. Len(d), k \notin 1 .. Len(c)
      PROVE  \E h \in 1 .. Len(a) : k = Len(c) + h /\ d[k] = a[h]
  <2>1. k - Len(c) \in 1 .. Len(a) /\ k = Len(c) + (k - Len(c))
    BY <1>1, <1>2, <1>5
  <2> QED BY <1>4, <2>1
<1>6. ASSUME NEW k \in 1 .. Len(d)
      PROVE  (k \in 1 .. Len(c) /\ d[k] = c[k]) \/ d[k] \in m .. b - 1
  BY <1>3, <1>5
<1>7. ASSUME NEW k \in 1 .. Len(d) PROVE d[k] < b
  BY <1>1, <1>6
<1>8. ASSUME NEW k \in 2 .. Len(d) PROVE d[k - 1] < d[k]
  <2>1. k \in 1 .. Len(d) /\ k - 1 \in 1 .. Len(d)
    BY <1>1, <1>2
  <2>2. CASE k \in 1 .. Len(c)
    <3>1. k \in 2 .. Len(c) /\ k - 1 \in 1 .. Len(c)
      BY <1>1, <2>2
    <3>2. d[k] = c[k] /\ d[k - 1] = c[k - 1]
      BY <1>3, <2>2, <3>1
    <3> QED BY <3>1, <3>2
  <2>3. CASE k \notin 1 .. Len(c)
    <3>1. PICK h \in 1 .. Len(a) : k = Len(c) + h /\ d[k] = a[h]
      BY <1>5, <2>1, <2>3
    <3>2. CASE h = 1
      <4>1. k - 1 \in 1 .. Len(c) /\ d[k - 1] = c[k - 1]
        BY <1>1, <1>3, <2>1, <3>1, <3>2
      <4>2. c[k - 1] < m /\ c[k - 1] \in Nat /\ d[k] \in m .. b - 1
        BY <1>1, <3>1, <4>1
      <4> QED BY <4>1, <4>2
    <3>3. CASE h # 1
      <4>1. h \in 2 .. Len(a) /\ h - 1 \in 1 .. Len(a) /\ k - 1 = Len(c) + (h - 1)
        BY <1>1, <3>1, <3>3
      <4>2. d[k - 1] = a[h - 1]
        BY <1>4, <4>1
      <4>3. a[h - 1] < a[h]
        BY <4>1
      <4> QED BY <3>1, <4>2, <4>3
    <3> QED BY <3>2, <3>3
  <2> QED BY <2>2, <2>3
<1> QED BY <1>6, <1>7, <1>8

\* The last event grows, past the bound.
LEMMA SortedExtend ==
  ASSUME NEW o \in Seq(Events), NEW m \in Nat, NEW b \in Nat, Sorted(o, Len(o), m), m <= b,
         Len(o) >= 1,
         NEW w \in Seq(Events), Len(w) = Len(o), \A i \in 1 .. Len(o) - 1 : w[i] = o[i],
         NEW a \in Seq(Nat), w[Len(o)].at = o[Len(o)].at \o a,
         \A k \in 1 .. Len(a) : a[k] \in m .. b - 1,
         \A k \in 2 .. Len(a) : a[k - 1] < a[k]
  PROVE  Sorted(w, Len(w), b)
<1> DEFINE n == Len(o)
           c == o[n].at
           d == w[n].at
<1>1. n \in Nat /\ n \in 1 .. n /\ n \in 1 .. Len(w)
  BY EventFacts
<1>2. c \in Seq(Nat)
  BY <1>1, EventFacts
<1>4. /\ \A k \in 1 .. Len(c) : c[k] < m
      /\ \A k \in 2 .. Len(c) : c[k - 1] < c[k]
  BY <1>1 DEF Sorted
<1>5. \A i \in 1 .. n - 1 : \A k \in 1 .. Len(o[i].at), l \in 1 .. Len(c) : o[i].at[k] < c[l]
  BY <1>1 DEF Sorted
<1> HIDE DEF c, d
<1>6. /\ \A k \in 1 .. Len(d) : (k \in 1 .. Len(c) /\ d[k] = c[k]) \/ d[k] \in m .. b - 1
      /\ \A k \in 1 .. Len(d) : d[k] < b
      /\ \A k \in 2 .. Len(d) : d[k - 1] < d[k]
  <2>1. d = c \o a
    BY DEF c, d
  <2> QED BY <1>2, <1>4, <2>1, JoinGrows
<1>9. ASSUME NEW i \in 1 .. n - 1, NEW k \in 1 .. Len(o[i].at), NEW l \in 1 .. Len(d)
      PROVE  o[i].at[k] < d[l]
  <2> DEFINE x == o[i].at[k]
  <2>1. i \in 1 .. Len(o)
    BY <1>1
  <2>2. x \in Nat
    BY <2>1, EventFacts
  <2>3. x < m
    BY <2>1 DEF Sorted
  <2>4. \A h \in 1 .. Len(c) : x < c[h]
    BY <1>5
  <2> HIDE DEF x
  <2>5. x < d[l]
    <3>1. (l \in 1 .. Len(c) /\ d[l] = c[l]) \/ d[l] \in m .. b - 1
      BY <1>6
    <3>2. CASE l \in 1 .. Len(c) /\ d[l] = c[l]
      BY <2>4, <3>2
    <3>3. CASE d[l] \in m .. b - 1
      BY <2>2, <2>3, <3>3
    <3> QED BY <3>1, <3>2, <3>3
  <2> QED BY <2>5 DEF x
<1>10. \A i \in 1 .. n : (i \in 1 .. n - 1 /\ w[i] = o[i]) \/ i = n
  BY <1>1
<1>11. ASSUME NEW i \in 1 .. n
       PROVE  /\ \A k \in 1 .. Len(w[i].at) : w[i].at[k] < b
              /\ \A k \in 2 .. Len(w[i].at) : w[i].at[k - 1] < w[i].at[k]
  <2>1. CASE i \in 1 .. n - 1
    <3>1. w[i] = o[i] /\ Sorted(o, n, b)
      BY <1>1, <2>1, SortedMore
    <3> QED BY <3>1 DEF Sorted
  <2>2. CASE i = n
    BY <1>6, <2>2 DEF d
  <2> QED BY <1>10, <2>1, <2>2
<1>12. ASSUME NEW i \in 1 .. n, NEW j \in 1 .. n, i < j,
              NEW k \in 1 .. Len(w[i].at), NEW l \in 1 .. Len(w[j].at)
       PROVE  w[i].at[k] < w[j].at[l]
  <2>1. i \in 1 .. n - 1 /\ w[i] = o[i]
    BY <1>1, <1>12
  <2>2. CASE j = n
    BY <1>9, <2>1, <2>2 DEF d
  <2>3. CASE j \in 1 .. n - 1
    BY <1>12, <2>1, <2>3 DEF Sorted
  <2> QED BY <1>10, <2>2, <2>3
<1> QED BY <1>11, <1>12 DEF Sorted

\* The tree is sorted up to the position, and what an argument may go back to
\* is a tree of what stands before the argument.
Ordered(o, s, m) ==
  /\ Sorted(o, Len(o), m)
  /\ \A a \in ArgsOf(s) : \A i \in 1 .. a[1] : \A k \in 1 .. Len(o[i].at) : o[i].at[k] < a[2]

\* A step touches the last event of the tree at most, or removes events.
LEMMA PrefixKept ==
  ASSUME Machine, Step
  PROVE  /\ Len(out) \in Nat /\ Len(out') \in Nat
         /\ \A i \in 1 .. Len(out') - 1 : i \in 1 .. Len(out) /\ out'[i] = out[i]
<1>1. out \in Seq(Events) /\ out' \in Seq(Events) /\ Len(out) \in Nat /\ Len(out') \in Nat
  BY LenProperties DEF Machine, Step
<1>2. CASE Keeps
  BY <1>1, <1>2 DEF Keeps
<1>3. CASE Emits
  <2>1. PICK p \in Nat, kind \in {"command", "arg", "endArg", "square", "entry", "endSquare"} :
          out' = Emit(kind, p)
    BY <1>3 DEF Emits
  <2>2. Len(out') = Len(out) + 1 /\ \A i \in 1 .. Len(out) : out'[i] = out[i]
    BY <1>1, <2>1, EmitFacts
  <2> QED BY <1>1, <2>2
<1>4. CASE Writes
  <2>1. PICK q \in Nat : q = pos' /\ pos \in Nat /\ pos <= q
    <3>1. pos \in Nat /\ Len(input) \in Nat
      BY TokFacts DEF Machine
    <3>2. pos' \in pos + 1 .. Len(input) + 1
      BY <1>4 DEF Writes, TextUpTo
    <3> QED BY <3>1, <3>2
  <2>2. Span(pos, q) \in Seq(Nat) /\ out' = AddText(Span(pos, q))
    BY <1>4, <2>1, SpanFacts DEF Writes
  <2>3. \/ Len(out') = Len(out) /\ \A i \in 1 .. Len(out) - 1 : out'[i] = out[i]
        \/ Len(out') = Len(out) + 1 /\ \A i \in 1 .. Len(out) : out'[i] = out[i]
    BY <1>1, <2>2, AddTextFacts
  <2> QED BY <1>1, <2>3
<1>5. CASE Retracts
  <2>1. Top.kind = "arg" /\ out' = SubSeq(out, 1, Top.kept)
    BY <1>5 DEF Retracts, Retracted
  <2>2. Top.kept \in Nat /\ Top.kept < Len(out)
    BY <2>1, TopFacts, FrameFacts DEF FrameOK, TextFrames
  <2>3. /\ Len(SubSeq(out, 1, Top.kept)) = Top.kept
        /\ \A i \in 1 .. Top.kept : SubSeq(out, 1, Top.kept)[i] = out[i]
    BY <1>1, <2>2, PrefixFacts
  <2> QED BY <1>1, <2>1, <2>2, <2>3
<1> QED BY <1>2, <1>3, <1>4, <1>5 DEF Step

\* An event is added, or a text.
LEMMA SortedEmits ==
  ASSUME Machine, Step, Sorted(out, Len(out), pos), Emits
  PROVE  Sorted(out', Len(out'), pos')
<1>1. PICK q, w : q = pos' /\ w = out'
  OBVIOUS
<1>2. q \in Nat /\ pos \in Nat /\ out \in Seq(Events) /\ w \in Seq(Events)
  BY <1>1, TokFacts DEF Machine, Step, Positions
<1>3. PICK p \in Nat, kind \in {"command", "arg", "endArg", "square", "entry", "endSquare"} :
        p >= pos /\ p < q /\ w = Emit(kind, p)
  BY <1>1 DEF Emits
<1>4. /\ Len(out) \in Nat /\ Len(w) = Len(out) + 1 /\ \A i \in 1 .. Len(out) : w[i] = out[i]
      /\ w[Len(out) + 1].at = <<p>>
  <2>1. /\ Len(Emit(kind, p)) = Len(out) + 1 /\ Len(out) \in Nat
        /\ \A i \in 1 .. Len(out) : Emit(kind, p)[i] = out[i]
        /\ Emit(kind, p)[Len(out) + 1] = [kind |-> kind, at |-> <<p>>]
    BY <1>2, EmitFacts
  <2> QED BY <1>3, <2>1
<1>5. <<p>> \in Seq(Nat) /\ Len(<<p>>) = 1 /\ <<p>>[1] = p
  OBVIOUS
<1>6. /\ \A k \in 1 .. Len(<<p>>) : <<p>>[k] \in pos .. q - 1
      /\ \A k \in 2 .. Len(<<p>>) : <<p>>[k - 1] < <<p>>[k]
  BY <1>2, <1>3, <1>5
<1>7. pos <= q
  BY <1>2, <1>3
<1>8. Sorted(w, Len(w), q)
  BY <1>2, <1>4, <1>5, <1>6, <1>7, SortedAppend, Zenon
<1> QED BY <1>1, <1>8

LEMMA SortedWrites ==
  ASSUME Machine, Step, Sorted(out, Len(out), pos), Writes
  PROVE  Sorted(out', Len(out'), pos')
<1>1. PICK q, w : q = pos' /\ w = out'
  OBVIOUS
<1>2. q \in Nat /\ pos \in Nat /\ out \in Seq(Events) /\ w \in Seq(Events)
  BY <1>1, TokFacts DEF Machine, Step, Positions
<1>3. pos < q /\ w = AddText(Span(pos, q))
  <2>1. q \in pos + 1 .. Len(input) + 1
    BY <1>1 DEF Writes, TextUpTo
  <2> QED BY <1>1, <1>2, <2>1 DEF Writes
<1> DEFINE a == Span(pos, q)
<1>4. /\ a \in Seq(Nat) /\ Len(a) \in Nat
      /\ \A k \in 1 .. Len(a) : a[k] \in pos .. q - 1
      /\ \A k \in 2 .. Len(a) : a[k - 1] < a[k]
  <2>1. a \in Seq(Nat) /\ Len(a) = q - pos /\ \A k \in 1 .. q - pos : a[k] = pos + k - 1
    BY <1>2, <1>3, SpanFacts
  <2> HIDE DEF a
  <2>2. \A k \in 1 .. Len(a) : a[k] \in pos .. q - 1
    BY <1>2, <1>3, <2>1
  <2>3. ASSUME NEW k \in 2 .. Len(a) PROVE a[k - 1] < a[k]
    <3>1. k \in 1 .. q - pos /\ k - 1 \in 1 .. q - pos
      BY <1>2, <1>3, <2>1
    <3>2. a[k] = pos + k - 1 /\ a[k - 1] = pos + (k - 1) - 1
      BY <2>1, <3>1
    <3> QED BY <1>2, <3>2
  <2> QED BY <1>2, <1>3, <2>1, <2>2, <2>3
<1> HIDE DEF a
<1>5. w = AddText(a) /\ Len(out) \in Nat /\ pos <= q
  BY <1>2, <1>3, EventFacts DEF a
<1>6. CASE Merges(a)
  <2>1. /\ Len(out) >= 1 /\ Len(w) = Len(out)
        /\ \A i \in 1 .. Len(out) - 1 : w[i] = out[i]
        /\ w[Len(out)].at = out[Len(out)].at \o a
    BY <1>2, <1>4, <1>5, <1>6, AddTextFacts
  <2>2. Sorted(w, Len(w), q)
    BY <1>2, <1>4, <1>5, <2>1, SortedExtend, Zenon
  <2> QED BY <1>1, <2>2
<1>7. CASE ~Merges(a)
  <2>1. /\ Len(w) = Len(out) + 1 /\ \A i \in 1 .. Len(out) : w[i] = out[i]
        /\ w[Len(out) + 1].at = a
    <3>1. /\ Len(w) = Len(out) + 1 /\ \A i \in 1 .. Len(out) : w[i] = out[i]
          /\ w[Len(out) + 1] = [kind |-> "text", at |-> a]
      BY <1>2, <1>4, <1>5, <1>7, AddTextFacts, Zenon
    <3> QED BY <3>1
  <2>2. Sorted(w, Len(w), q)
    BY <1>2, <1>4, <1>5, <2>1, SortedAppend, Zenon
  <2> QED BY <1>1, <2>2
<1> QED BY <1>6, <1>7

\* The parser goes back: what is kept was read before the argument.
LEMMA SortedRetracts ==
  ASSUME Machine, Ordered(out, stack, pos), Retracts
  PROVE  Sorted(out', Len(out'), pos')
<1>1. Top.kind = "arg" /\ out' = SubSeq(out, 1, Top.kept) /\ pos' = Top.mark
  BY DEF Retracts, Retracted, Resumed
<1>2. /\ Top.kept \in Nat /\ Top.kept < Len(out) /\ Len(out) \in Nat
      /\ Top = stack[1] /\ 1 \in 1 .. Len(stack)
  BY <1>1, TopFacts, FrameFacts, PopFacts DEF FrameOK, TextFrames
<1>3. <<Top.kept, Top.mark>> \in ArgsOf(stack)
  BY <1>1, <1>2 DEF ArgsOf
<1> DEFINE n == Top.kept
           w == SubSeq(out, 1, n)
<1>4. Len(w) = n /\ \A i \in 1 .. n : w[i] = out[i]
  BY <1>2, PrefixFacts DEF Machine
<1>5. \A i \in 1 .. n : i \in 1 .. Len(out)
  BY <1>2
<1>6. \A i \in 1 .. n : \A k \in 1 .. Len(out[i].at) : out[i].at[k] < Top.mark
  <2>1. <<Top.kept, Top.mark>>[1] = n /\ <<Top.kept, Top.mark>>[2] = Top.mark
    OBVIOUS
  <2> QED BY <1>3, <2>1 DEF Ordered
<1> HIDE DEF n, w
<1>7. Sorted(out, n, Top.mark)
  BY <1>5, <1>6 DEF Ordered, Sorted
<1>8. Sorted(w, n, Top.mark)
  BY <1>4, <1>7, SortedSame
<1> QED BY <1>1, <1>4, <1>8 DEF n, w

LEMMA OrderedStep ==
  ASSUME Machine, Step, Ordered(out, stack, pos)
  PROVE  Ordered(out', stack', pos')
<1>1. Sorted(out', Len(out'), pos')
  <2>1. CASE Keeps
    <3>1. PICK q : q = pos'
      OBVIOUS
    <3>2. q \in Nat /\ pos \in Nat /\ pos <= q /\ Len(out) \in Nat /\ out' = out
      BY <2>1, <3>1, TokFacts, EventFacts DEF Machine, Step, Positions, Keeps
    <3>3. Sorted(out, Len(out), q)
      BY <3>2, SortedMore DEF Ordered, Machine
    <3> QED BY <3>1, <3>2, <3>3
  <2> QED BY <2>1, SortedEmits, SortedWrites, SortedRetracts DEF Step, Ordered
<1>2. ASSUME NEW a \in ArgsOf(stack'), NEW i \in 1 .. a[1], NEW k \in 1 .. Len(out'[i].at)
      PROVE  out'[i].at[k] < a[2]
  <2>1. a[1] \in Nat /\ a[1] < Len(out')
    BY ArgsFacts DEF Step
  <2>2. i \in 1 .. Len(out) /\ out'[i] = out[i]
    BY <2>1, PrefixKept
  <2>3. CASE a \in ArgsOf(stack)
    BY <2>2, <2>3 DEF Ordered
  <2>4. CASE a = <<Len(out), pos>>
    <3>1. a[2] = pos
      BY <2>4
    <3> QED BY <2>2, <3>1 DEF Ordered, Sorted
  <2> QED BY <2>3, <2>4 DEF Step
<1> QED BY <1>1, <1>2 DEF Ordered

-----------------------------------------------------------------------------
(* The text nodes *)

\* The i-th event of o is a text that is made now: from at alone, or from at
\* and the last text of the tree.
Made(o, i, at) ==
  \/ ~Merges(at) /\ i = Len(out) + 1 /\ o[i].at = at
  \/ Merges(at) /\ i = Len(out) /\ i \in 1 .. Len(out) /\ o[i].at = out[i].at \o at

\* A text node was there before, or it is made now.
LEMMA NodesStep ==
  ASSUME Machine, Step, NEW i \in 1 .. Len(out'), out'[i].kind = "text"
  PROVE  \/ i \in 1 .. Len(out) /\ out'[i] = out[i]
         \/ Writes /\ Made(out', i, Span(pos, pos'))
<1>1. out \in Seq(Events) /\ Len(out) \in Nat /\ Len(out') \in Nat
  BY PrefixKept DEF Machine
<1>2. CASE i # Len(out')
  <2>1. i \in 1 .. Len(out') - 1
    BY <1>1, <1>2
  <2> QED BY <2>1, PrefixKept
<1>3. CASE i = Len(out')
  <2>1. CASE Keeps
    BY <2>1 DEF Keeps
  <2>2. CASE Emits
    <3>1. PICK p \in Nat, kind \in {"command", "arg", "endArg", "square", "entry", "endSquare"} :
            out' = Emit(kind, p)
      BY <2>2 DEF Emits
    <3>2. Len(out') = Len(out) + 1 /\ out'[Len(out) + 1] = [kind |-> kind, at |-> <<p>>]
      BY <1>1, <3>1, EmitFacts
    <3>3. out'[i].kind = kind
      BY <1>3, <3>2
    <3> QED BY <3>3
  <2>3. CASE Writes
    <3>1. PICK q, w : q = pos' /\ w = out'
      OBVIOUS
    <3>2. q \in Nat /\ pos \in Nat /\ pos <= q
      <4>1. pos \in Nat /\ Len(input) \in Nat
        BY TokFacts DEF Machine
      <4>2. q \in pos + 1 .. Len(input) + 1
        BY <2>3, <3>1 DEF Writes, TextUpTo
      <4> QED BY <4>1, <4>2
    <3> DEFINE a == Span(pos, q)
    <3>3. a \in Seq(Nat) /\ w = AddText(a)
      BY <2>3, <3>1, <3>2, SpanFacts DEF Writes
    <3> HIDE DEF a
    <3>4. CASE Merges(a)
      <4>1. Len(w) = Len(out) /\ Len(out) >= 1 /\ w[Len(out)].at = out[Len(out)].at \o a
        BY <1>1, <3>3, <3>4, AddTextFacts
      <4>2. i = Len(out) /\ i \in 1 .. Len(out) /\ w[i].at = out[i].at \o a
        BY <1>1, <1>3, <3>1, <4>1
      <4> QED BY <2>3, <3>1, <3>4, <4>2 DEF Made, a
    <3>5. CASE ~Merges(a)
      <4>1. Len(w) = Len(out) + 1 /\ w[Len(out) + 1] = [kind |-> "text", at |-> a]
        BY <1>1, <3>3, <3>5, AddTextFacts, Zenon
      <4>2. i = Len(out) + 1 /\ w[i].at = a
        BY <1>3, <3>1, <4>1
      <4> QED BY <2>3, <3>1, <3>5, <4>2 DEF Made, a
    <3> QED BY <3>4, <3>5
  <2>4. CASE Retracts
    <3>1. Top.kind = "arg" /\ out' = SubSeq(out, 1, Top.kept)
      BY <2>4 DEF Retracts, Retracted
    <3>2. Top.kept \in Nat /\ Top.kept < Len(out)
      BY <3>1, TopFacts, FrameFacts DEF FrameOK, TextFrames
    <3>3. Len(out') = Top.kept /\ \A j \in 1 .. Top.kept : out'[j] = out[j]
      BY <1>1, <3>1, <3>2, PrefixFacts
    <3> QED BY <1>1, <3>2, <3>3
  <2> QED BY <2>1, <2>2, <2>3, <2>4 DEF Step
<1> QED BY <1>2, <1>3

\* Whatever holds of a part of the source also holds of the text from it.
LEMMA SpanTokens ==
  ASSUME Machine, Step, Writes
  PROVE  /\ Span(pos, pos') \in Seq(Nat)
         /\ \A k \in 1 .. Len(Span(pos, pos')) : Span(pos, pos')[k] \in pos .. pos' - 1
         /\ pos' = pos + 1 => Len(Span(pos, pos')) = 1 /\ Span(pos, pos')[1] = pos
<1>1. PICK q : q = pos'
  OBVIOUS
<1>2. q \in Nat /\ pos \in Nat /\ pos <= q
  <2>1. pos \in Nat /\ Len(input) \in Nat
    BY TokFacts DEF Machine
  <2>2. q \in pos + 1 .. Len(input) + 1
    BY <1>1 DEF Writes, TextUpTo
  <2> QED BY <2>1, <2>2
<1> DEFINE a == Span(pos, q)
<1>3. a \in Seq(Nat) /\ Len(a) = q - pos /\ \A k \in 1 .. q - pos : a[k] = pos + k - 1
  BY <1>2, SpanFacts
<1> HIDE DEF a
<1>4. \A k \in 1 .. Len(a) : a[k] \in pos .. q - 1
  BY <1>2, <1>3
<1>5. q = pos + 1 => Len(a) = 1 /\ a[1] = pos
  BY <1>2, <1>3
<1> QED BY <1>1, <1>3, <1>4, <1>5 DEF a

NoNewline(at) == \A k \in 1 .. Len(at) : Tok(at[k]) # "nl"

\* A text that is made now is a newline, or has none.
LEMMA MadeDivided ==
  ASSUME Machine, TextNodesMaximal, Step, Writes,
         NEW i, Made(out', i, Span(pos, pos')), out'[i].kind = "text"
  PROVE  IsNewline(out'[i].at) \/ NoNewline(out'[i].at)
<1>1. PICK a : a = Span(pos, pos')
  OBVIOUS
<1>2. a \in Seq(Nat) /\ (IsNewline(a) \/ NoNewline(a))
  <2>1. CASE pos' = pos + 1 /\ Tok(pos) = "nl"
    BY <1>1, <2>1, SpanTokens DEF IsNewline
  <2>2. CASE \A k \in pos .. pos' - 1 : Tok(k) # "nl"
    BY <1>1, <2>2, SpanTokens DEF NoNewline
  <2> QED BY <1>1, <2>1, <2>2, SpanTokens DEF Writes, TextUpTo
<1>3. CASE ~Merges(a)
  BY <1>1, <1>2, <1>3 DEF Made
<1>4. CASE Merges(a)
  <2>1. i \in 1 .. Len(out) /\ i = Len(out) /\ out'[i].at = out[i].at \o a
    BY <1>1, <1>4 DEF Made
  <2>2. out[i].kind = "text" /\ ~IsNewline(out[i].at) /\ NoNewline(a)
    BY <1>2, <1>4, <2>1 DEF Merges
  <2>3. NoNewline(out[i].at)
    BY <2>1, <2>2 DEF TextNodesMaximal, NoNewline
  <2>4. out[i].at \in Seq(Nat)
    BY <2>1, EventFacts DEF Machine
  <2> DEFINE d == out[i].at \o a
  <2>5. \A k \in 1 .. Len(d) : \/ \E h \in 1 .. Len(out[i].at) : d[k] = out[i].at[h]
                              \/ \E h \in 1 .. Len(a) : d[k] = a[h]
    BY <1>2, <2>4, ConcatElements
  <2> HIDE DEF d
  <2>6. NoNewline(d)
    BY <2>2, <2>3, <2>5 DEF NoNewline
  <2> QED BY <2>1, <2>6 DEF d
<1> QED BY <1>3, <1>4

LEMMA MaximalStep ==
  ASSUME Machine, Step, TextNodesMaximal
  PROVE  TextNodesMaximal'
<1>1. ASSUME NEW i \in 1 .. Len(out'), out'[i].kind = "text"
      PROVE  IsNewline(out'[i].at) \/ NoNewline(out'[i].at)
  <2>1. CASE i \in 1 .. Len(out) /\ out'[i] = out[i]
    BY <1>1, <2>1 DEF TextNodesMaximal, NoNewline
  <2>2. CASE Writes /\ Made(out', i, Span(pos, pos'))
    BY <1>1, <2>2, MadeDivided
  <2> QED BY <1>1, <2>1, <2>2, NodesStep
<1>2. ASSUME NEW i \in 1 .. Len(out'), out'[i].kind = "text", i > 1, out'[i - 1].kind = "text"
      PROVE  IsNewline(out'[i - 1].at) \/ IsNewline(out'[i].at)
  <2>1. i - 1 \in 1 .. Len(out) /\ out'[i - 1] = out[i - 1] /\ Len(out) \in Nat
    <3>1. Len(out') \in Nat
      BY PrefixKept
    <3>2. PICK j \in 1 .. Len(out') - 1 : j = i - 1
      BY <1>2, <3>1
    <3>3. j \in 1 .. Len(out) /\ out'[j] = out[j] /\ Len(out) \in Nat
      BY PrefixKept
    <3> QED BY <3>2, <3>3
  <2>2. CASE i \in 1 .. Len(out) /\ out'[i] = out[i]
    BY <1>2, <2>1, <2>2 DEF TextNodesMaximal
  <2>3. CASE Writes /\ Made(out', i, Span(pos, pos'))
    <3>1. PICK a : a = Span(pos, pos')
      OBVIOUS
    <3>2. CASE ~Merges(a)
      <4>1. i = Len(out) + 1 /\ out'[i].at = a
        BY <2>3, <3>1, <3>2 DEF Made
      <4>2. i - 1 = Len(out) /\ out[Len(out)].kind = "text" /\ out # <<>>
        <5>1. i - 1 = Len(out) /\ Len(out) >= 1
          BY <1>2, <2>1, <4>1
        <5> QED BY <1>2, <2>1, <5>1
      <4>3. IsNewline(out[Len(out)].at) \/ IsNewline(a)
        BY <3>2, <4>2 DEF Merges
      <4> QED BY <2>1, <4>1, <4>2, <4>3
    <3>3. CASE Merges(a)
      <4>1. i = Len(out) /\ i \in 1 .. Len(out)
        BY <2>3, <3>1, <3>3 DEF Made
      <4>2. out[i].kind = "text" /\ ~IsNewline(out[i].at)
        BY <3>3, <4>1 DEF Merges
      <4>3. out[i - 1].kind = "text"
        BY <1>2, <2>1
      <4>4. IsNewline(out[i - 1].at)
        BY <1>2, <4>1, <4>2, <4>3 DEF TextNodesMaximal
      <4> QED BY <2>1, <4>4
    <3> QED BY <3>2, <3>3
  <2> QED BY <1>2, <2>2, <2>3, NodesStep
<1>3. input' = input
  BY DEF Step
<1> QED BY <1>1, <1>2, <1>3 DEF TextNodesMaximal, NoNewline, IsNewline, Tok

\* Every newline is a node of its own, and no other text is in pieces.
THEOREM TextIsMaximal == Spec => []TextNodesMaximal
<1> DEFINE IInv == Machine /\ TextNodesMaximal
<1>1. Init => IInv
  <2> SUFFICES ASSUME Init PROVE IInv
    OBVIOUS
  <2>1. Machine /\ Len(out) = 0
    BY MachineInit DEF Init
  <2> QED BY <2>1 DEF TextNodesMaximal
<1>2. IInv /\ [Next]_vars => IInv'
  <2> SUFFICES ASSUME IInv, [Next]_vars PROVE IInv'
    OBVIOUS
  <2>1. Machine'
    BY MachineStep
  <2>2. CASE UNCHANGED vars
    BY <2>1, <2>2 DEF vars, TextNodesMaximal, IsNewline, Tok
  <2> QED BY <2>1, <2>2, NextStep, MaximalStep
<1>3. IInv => TextNodesMaximal
  OBVIOUS
<1> HIDE DEF IInv
<1> QED BY <1>1, <1>2, <1>3, PTL DEF Spec

\* Where no escape is in force, each "@" of a text stands before what starts
\* no command.
NoCommand(at) ==
  \A k \in 1 .. Len(at) : Tok(at[k]) = "@" => Tok(at[k] + 1) \in {"%", "{", "eof"}

LEMMA NotTextStep ==
  ASSUME Machine, Step, CommandsAreNotText
  PROVE  CommandsAreNotText'
<1>1. ASSUME \A p \in 1 .. Len(input) : Tok(p) # "|",
             NEW i \in 1 .. Len(out'), out'[i].kind = "text"
      PROVE  NoCommand(out'[i].at)
  <2>1. CASE i \in 1 .. Len(out) /\ out'[i] = out[i]
    BY <1>1, <2>1 DEF CommandsAreNotText, NoCommand
  <2>2. CASE Writes /\ Made(out', i, Span(pos, pos'))
    <3>1. PICK a : a = Span(pos, pos')
      OBVIOUS
    <3>2. a \in Seq(Nat) /\ NoCommand(a)
      BY <1>1, <2>2, <3>1, SpanTokens DEF Writes, TextUpTo, NoCommand
    <3>3. CASE ~Merges(a)
      BY <2>2, <3>1, <3>2, <3>3 DEF Made
    <3>4. CASE Merges(a)
      <4>1. i \in 1 .. Len(out) /\ i = Len(out) /\ out'[i].at = out[i].at \o a
        BY <2>2, <3>1, <3>4 DEF Made
      <4>2. out[i].kind = "text" /\ out[i].at \in Seq(Nat)
        BY <3>4, <4>1, EventFacts DEF Merges, Machine
      <4>3. NoCommand(out[i].at)
        BY <1>1, <4>1, <4>2 DEF CommandsAreNotText, NoCommand
      <4> DEFINE d == out[i].at \o a
      <4>4. \A k \in 1 .. Len(d) : \/ \E h \in 1 .. Len(out[i].at) : d[k] = out[i].at[h]
                                  \/ \E h \in 1 .. Len(a) : d[k] = a[h]
        BY <3>2, <4>2, ConcatElements
      <4> HIDE DEF d
      <4>5. NoCommand(d)
        BY <3>2, <4>3, <4>4 DEF NoCommand
      <4> QED BY <4>1, <4>5 DEF d
    <3> QED BY <3>3, <3>4
  <2> QED BY <1>1, <2>1, <2>2, NodesStep
<1>2. input' = input
  BY DEF Step
<1> QED BY <1>1, <1>2 DEF CommandsAreNotText, NoCommand, Tok

\* What looks like a command never ends up in a text.
THEOREM CommandsNeverText == Spec => []CommandsAreNotText
<1> DEFINE IInv == Machine /\ CommandsAreNotText
<1>1. Init => IInv
  <2> SUFFICES ASSUME Init PROVE IInv
    OBVIOUS
  <2>1. Machine /\ Len(out) = 0
    BY MachineInit DEF Init
  <2> QED BY <2>1 DEF CommandsAreNotText
<1>2. IInv /\ [Next]_vars => IInv'
  <2> SUFFICES ASSUME IInv, [Next]_vars PROVE IInv'
    OBVIOUS
  <2>1. Machine'
    BY MachineStep
  <2>2. CASE UNCHANGED vars
    BY <2>1, <2>2 DEF vars, CommandsAreNotText, Tok
  <2> QED BY <2>1, <2>2, NextStep, NotTextStep
<1>3. IInv => CommandsAreNotText
  OBVIOUS
<1> HIDE DEF IInv
<1> QED BY <1>1, <1>2, <1>3, PTL DEF Spec

-----------------------------------------------------------------------------
(* Nothing is left out *)

\* The recursion in Skipped is well founded: it goes from left to right.
LEMMA Chase ==
  ASSUME NEW N \in Nat, NEW nxt \in [1 .. N -> 1 .. N], \A q \in 1 .. N : nxt[q] >= q
  PROVE  \E g : g = [q \in 1 .. N |-> IF nxt[q] = q THEN q ELSE g[nxt[q]]]
<1> DEFINE Chased(g, n) ==
             /\ g = [q \in 1 .. N |-> g[q]]
             /\ \A q \in 1 .. N : q > N - n => g[q] = IF nxt[q] = q THEN q ELSE g[nxt[q]]
           S == {n \in Nat : n <= N => \E g : Chased(g, n)}
<1>1. 0 \in S
  <2>1. Chased([q \in 1 .. N |-> q], 0)
    OBVIOUS
  <2> QED BY <2>1
<1>2. ASSUME NEW n \in Nat, n \in S PROVE n + 1 \in S
  <2> SUFFICES ASSUME n + 1 <= N PROVE \E g : Chased(g, n + 1)
    OBVIOUS
  <2>1. PICK g : Chased(g, n)
    BY <1>2
  <2> DEFINE p == N - n
             v == IF nxt[p] = p THEN p ELSE g[nxt[p]]
             h == [q \in 1 .. N |-> IF q = p THEN v ELSE g[q]]
  <2>2. p \in 1 .. N /\ \A q \in 1 .. N : q > N - (n + 1) <=> (q = p \/ q > N - n)
    OBVIOUS
  <2>3. \A q \in 1 .. N : q > N - n => q # p
    OBVIOUS
  <2> HIDE DEF v, p
  <2>4. h = [q \in 1 .. N |-> h[q]] /\ h[p] = v /\ \A q \in 1 .. N : q # p => h[q] = g[q]
    BY <2>2
  <2> HIDE DEF h
  <2>5. ASSUME NEW q \in 1 .. N, q > N - (n + 1)
        PROVE  h[q] = IF nxt[q] = q THEN q ELSE h[nxt[q]]
    <3>1. nxt[q] \in 1 .. N /\ nxt[q] >= q
      OBVIOUS
    <3>2. CASE q = p
      <4>1. nxt[q] # q => nxt[q] # p /\ h[nxt[q]] = g[nxt[q]]
        BY <2>4, <3>1, <3>2
      <4> QED BY <2>4, <3>2, <4>1 DEF v
    <3>3. CASE q # p
      <4>1. q > N - n /\ q \in Nat /\ N - n \in Nat
        <5>1. q > N - n
          BY <2>2, <2>5, <3>3
        <5>2. q \in Nat /\ N - n \in Nat
          OBVIOUS
        <5> QED BY <5>1, <5>2
      <4>2. nxt[q] > N - n
        BY <3>1, <4>1
      <4>3. h[q] = g[q] /\ h[nxt[q]] = g[nxt[q]]
        BY <2>3, <2>4, <3>1, <3>3, <4>2
      <4> QED BY <2>1, <4>1, <4>3
    <3> QED BY <3>2, <3>3
  <2>6. Chased(h, n + 1)
    BY <2>4, <2>5
  <2> QED BY <2>6
<1> HIDE DEF S
<1>3. N \in S
  BY <1>1, <1>2, Induct
<1>4. PICK g : Chased(g, N)
  BY <1>3 DEF S
<1>5. \A q \in 1 .. N : q > N - N
  OBVIOUS
<1> QED BY <1>4, <1>5

\* A comment goes on to the right.
LEMMA CommentFacts ==
  ASSUME InputOK, NEW p \in Positions, NEW e, NEW r \in Comments(p, e), Len(e) \in Nat
  PROVE  /\ r \in p + 1 .. Len(input) + 1 /\ r \in Positions /\ r > p
         /\ HasAt(p, e \o <<"@", "%">>)
<1>1. p \in Nat /\ Len(input) \in Nat /\ p >= 1
  BY TokFacts DEF Positions
<1>2. r \in p + 1 .. Len(input) + 1 /\ HasAt(p, e \o <<"@", "%">>)
  <2>1. CASE r \in BlockComments(p, e)
    BY <2>1 DEF BlockComments
  <2>2. CASE r \in LineComments(p, e)
    <3> DEFINE q == p + Len(e) + 2
    <3>1. r \in q + 2 .. Len(input) + 1 /\ HasAt(p, e \o <<"@", "%">>)
      BY <2>2 DEF LineComments
    <3>2. q \in Nat /\ q >= p
      BY <1>1
    <3> HIDE DEF q
    <3> QED BY <1>1, <3>1, <3>2
  <2> QED BY <2>1, <2>2 DEF Comments
<1>3. PICK t : t = r
  OBVIOUS
<1>4. t \in p + 1 .. Len(input) + 1
  BY <1>2, <1>3
<1>5. t \in p + 1 .. Len(input) + 1 /\ t \in 1 .. Len(input) + 1 /\ t > p
  BY <1>1, <1>4
<1> QED BY <1>2, <1>3, <1>5 DEF Positions

\* What stands between p and the end of a comment that starts there.
LEMMA CommentHolds ==
  ASSUME InputOK, NEW p \in Positions, NEW r \in Comments(p, <<>>), NEW k \in p .. r - 1
  PROVE  InComment(k)
<1>1. p \in Nat /\ p >= 1 /\ Len(input) \in Nat /\ r \in Nat
  BY CommentFacts, TokFacts DEF Positions
<1>2. SubSeq(input, p, p - 1) = <<>>
  BY <1>1, SubSeqEmpty
<1>3. p \in 1 .. k /\ p <= p /\ p <= k /\ k < r
  BY <1>1
<1> QED BY <1>2, <1>3 DEF InComment

\* What is skipped is white space or in a comment.
Skips(k) ==
  \/ Tok(k) \in Spaces
  \/ \E p \in Positions : \E r \in Comments(p, <<>>) : k \in p .. r - 1

LEMMA SkippedFacts ==
  ASSUME InputOK, NEW p \in Positions, NEW q \in Skipped(p)
  PROVE  /\ q \in Positions /\ q >= p /\ q \in Nat
         /\ \A k \in p .. q - 1 : Skips(k)
<1> DEFINE N == Len(input) + 1
           nxt == [x \in 1 .. N |-> IF Tok(x) \in Spaces THEN x + 1
                                    ELSE IF Comments(x, <<>>) # {}
                                         THEN CHOOSE r \in Comments(x, <<>>) : TRUE ELSE x]
           F(g) == [x \in Positions |->
                      IF Tok(x) \in Spaces THEN g[x + 1]
                      ELSE IF Comments(x, <<>>) # {}
                           THEN g[CHOOSE r \in Comments(x, <<>>) : TRUE]
                      ELSE x]
           skip == CHOOSE g : g = F(g)
<1>1. N \in Nat /\ Positions = 1 .. N /\ Len(<<>>) = 0 /\ Len(<<>>) \in Nat
  BY TokFacts DEF Positions
<1> HIDE DEF N
<1>2. q = skip[p] /\ q \in p .. N
  BY DEF Skipped, N
<1>3. ASSUME NEW x \in 1 .. N
      PROVE  /\ Tok(x) \in Spaces => x + 1 \in 1 .. N /\ x + 1 > x
             /\ \A r \in Comments(x, <<>>) : r \in 1 .. N /\ r > x
  <2>1. Tok(x) \in Spaces => Tok(x) # "eof"
    BY DEF Spaces
  <2>2. Tok(x) \in Spaces => x \in 1 .. Len(input)
    BY <2>1, TokFacts
  <2>3. \A r \in Comments(x, <<>>) : r \in 1 .. N /\ r > x
    BY <1>1, CommentFacts
  <2> QED BY <1>1, <2>2, <2>3 DEF N
<1>4. nxt \in [1 .. N -> 1 .. N] /\ \A x \in 1 .. N : nxt[x] >= x
  BY <1>1, <1>3
<1>5. \A x \in 1 .. N : nxt[x] = IF Tok(x) \in Spaces THEN x + 1
                                    ELSE IF Comments(x, <<>>) # {}
                                         THEN CHOOSE r \in Comments(x, <<>>) : TRUE ELSE x
  OBVIOUS
<1> HIDE DEF nxt
<1>6. \E g : g = [x \in 1 .. N |-> IF nxt[x] = x THEN x ELSE g[nxt[x]]]
  BY <1>1, <1>4, Chase
<1>7. PICK g : g = [x \in 1 .. N |-> IF nxt[x] = x THEN x ELSE g[nxt[x]]]
  BY <1>6
<1>8. g = F(g)
  <2>1. ASSUME NEW x \in 1 .. N
        PROVE  (IF nxt[x] = x THEN x ELSE g[nxt[x]]) =
               IF Tok(x) \in Spaces THEN g[x + 1]
                      ELSE IF Comments(x, <<>>) # {}
                           THEN g[CHOOSE r \in Comments(x, <<>>) : TRUE]
                      ELSE x
    <3> DEFINE c == CHOOSE r \in Comments(x, <<>>) : TRUE
    <3>1. Comments(x, <<>>) # {} => c \in Comments(x, <<>>)
      OBVIOUS
    <3> HIDE DEF c
    <3>2. /\ Tok(x) \in Spaces => x + 1 # x
          /\ Comments(x, <<>>) # {} => c # x
      BY <1>1, <1>3, <3>1
    <3>3. nxt[x] = IF Tok(x) \in Spaces THEN x + 1
                   ELSE IF Comments(x, <<>>) # {} THEN c ELSE x
      BY <1>5 DEF c
    <3>4. (IF nxt[x] = x THEN x ELSE g[nxt[x]]) =
               IF Tok(x) \in Spaces THEN g[x + 1]
                      ELSE IF Comments(x, <<>>) # {} THEN g[c] ELSE x
      BY <3>2, <3>3
    <3> QED BY <3>4 DEF c
  <2>2. F(g) = [x \in 1 .. N |-> IF nxt[x] = x THEN x ELSE g[nxt[x]]]
    BY <1>1, <2>1
  <2> QED BY <1>7, <2>2
<1>9. skip = F(skip)
  BY <1>8
<1> HIDE DEF F, skip
<1>10. ASSUME NEW x \in 1 .. N
       PROVE  skip[x] = IF Tok(x) \in Spaces THEN skip[x + 1]
                      ELSE IF Comments(x, <<>>) # {}
                           THEN skip[CHOOSE r \in Comments(x, <<>>) : TRUE]
                      ELSE x
  BY <1>1, <1>9 DEF F
<1> DEFINE Fine(x) == /\ skip[x] \in 1 .. N /\ skip[x] >= x
                      /\ \A k \in x .. skip[x] - 1 : Skips(k)
           S == {n \in Nat : \A x \in 1 .. N : x > N - n => Fine(x)}
<1>11. 0 \in S
  BY <1>1
<1>12. ASSUME NEW n \in Nat, n \in S PROVE n + 1 \in S
  <2> SUFFICES ASSUME NEW x \in 1 .. N, x > N - (n + 1) PROVE Fine(x)
    OBVIOUS
  <2>1. \A y \in 1 .. N : y > x => Fine(y)
    <3>1. \A y \in 1 .. N : y > x => y > N - n
      BY <1>1
    <3> QED BY <1>12, <3>1
  <2> HIDE DEF Fine
  <2>2. CASE Tok(x) \in Spaces
    <3>1. x + 1 \in 1 .. N /\ x + 1 > x /\ skip[x] = skip[x + 1] /\ Skips(x)
      BY <1>3, <1>10, <2>2 DEF Skips
    <3>2. Fine(x + 1)
      BY <2>1, <3>1
    <3> DEFINE t == skip[x]
    <3>3. /\ t \in 1 .. N /\ t >= x + 1
          /\ \A k \in x + 1 .. t - 1 : Skips(k)
      BY <3>1, <3>2 DEF Fine
    <3> HIDE DEF t
    <3>4. \A k \in x .. t - 1 : k = x \/ k \in x + 1 .. t - 1
      BY <1>1, <3>3
    <3>5. t >= x
      BY <1>1, <3>3
    <3>6. \A k \in x .. t - 1 : Skips(k)
      BY <3>1, <3>3, <3>4
    <3> QED BY <3>3, <3>5, <3>6 DEF Fine, t
  <2>3. CASE Tok(x) \notin Spaces /\ Comments(x, <<>>) # {}
    <3>1. PICK r \in Comments(x, <<>>) : skip[x] = skip[r]
      BY <1>10, <2>3
    <3>2. r \in 1 .. N /\ r > x
      BY <1>3
    <3>3. Fine(r)
      BY <2>1, <3>2
    <3> DEFINE t == skip[x]
    <3>4. /\ t \in 1 .. N /\ t >= r
          /\ \A k \in r .. t - 1 : Skips(k)
      BY <3>1, <3>3 DEF Fine
    <3> HIDE DEF t
    <3>5. \A k \in x .. t - 1 : k \in x .. r - 1 \/ k \in r .. t - 1
      BY <1>1, <3>2, <3>4
    <3>6. \A k \in x .. r - 1 : Skips(k)
      BY <1>1 DEF Skips
    <3>7. t >= x
      BY <1>1, <3>2, <3>4
    <3>8. \A k \in x .. t - 1 : Skips(k)
      BY <3>4, <3>5, <3>6
    <3> QED BY <3>4, <3>7, <3>8 DEF Fine, t
  <2>4. CASE Tok(x) \notin Spaces /\ Comments(x, <<>>) = {}
    <3>1. skip[x] = x
      BY <1>10, <2>4
    <3>2. x >= x /\ x .. x - 1 = {}
      BY <1>1
    <3> QED BY <3>1, <3>2 DEF Fine
  <2> QED BY <2>2, <2>3, <2>4
<1> HIDE DEF S
<1>13. N \in S
  BY <1>1, <1>11, <1>12, Induct
<1> HIDE DEF Fine
<1>14. Fine(p)
  <2>1. p \in 1 .. N /\ p > N - N
    BY <1>1
  <2> QED BY <1>13, <2>1 DEF S
<1>15. /\ q \in 1 .. N /\ q >= p
       /\ \A k \in p .. q - 1 : Skips(k)
  BY <1>2, <1>14 DEF Fine
<1>16. q \in Nat
  BY <1>1, <1>15
<1> QED BY <1>1, <1>15, <1>16

LEMMA WordsSkipped ==
  ASSUME InputOK, NEW k, Skips(k), Tok(k) \in Words
  PROVE  InComment(k)
<1>1. Tok(k) \notin Spaces
  BY DEF Words, Spaces
<1> QED BY <1>1, CommentHolds DEF Skips

\* The events of o up to the n-th one hold the token at p.
InEvents(o, n, p) == \E i \in 1 .. n : \E k \in 1 .. Len(o[i].at) : o[i].at[k] = p

\* So they do, or a comment does, for every word before m.
Covered(o, n, m) == \A p \in 1 .. m - 1 : Tok(p) \in Words => InEvents(o, n, p) \/ InComment(p)

\* Nothing before the position is left out, nor before the position that an
\* argument may go back to.
Cover(o, s, m) ==
  /\ Covered(o, Len(o), m)
  /\ \A a \in ArgsOf(s) : Covered(o, a[1], a[2])

\* A step reads from the old position to the new one.
Reads == \A p \in pos .. pos' - 1 : Tok(p) \in Words => InEvents(out', Len(out'), p) \/ InComment(p)

\* What the tree holds stays, unless the parser goes back, and what is written
\* is added.
LEMMA EventsKept ==
  ASSUME Machine, Step, ~Retracts, NEW p, InEvents(out, Len(out), p)
  PROVE  InEvents(out', Len(out'), p)
<1>0. PICK i \in 1 .. Len(out) : \E k \in 1 .. Len(out[i].at) : out[i].at[k] = p
  BY DEF InEvents
<1>1. PICK k \in 1 .. Len(out[i].at) : out[i].at[k] = p
  BY <1>0
<1>2. out \in Seq(Events) /\ Len(out) \in Nat
  BY EventFacts DEF Machine
<1>3. CASE Keeps
  BY <1>1, <1>3 DEF Keeps, InEvents
<1>4. CASE Emits
  <2>1. PICK h \in Nat, kind \in {"command", "arg", "endArg", "square", "entry", "endSquare"} :
          out' = Emit(kind, h)
    BY <1>4 DEF Emits
  <2>2. Len(out') = Len(out) + 1 /\ \A j \in 1 .. Len(out) : out'[j] = out[j]
    BY <1>2, <2>1, EmitFacts
  <2>3. i \in 1 .. Len(out') /\ out'[i] = out[i]
    BY <1>2, <2>2
  <2> QED BY <1>1, <2>3 DEF InEvents
<1>5. CASE Writes
  <2>1. PICK a : a = Span(pos, pos')
    OBVIOUS
  <2>2. a \in Seq(Nat) /\ out' = AddText(a)
    BY <1>5, <2>1, SpanTokens DEF Writes
  <2>3. CASE ~Merges(a)
    <3>1. Len(out') = Len(out) + 1 /\ \A j \in 1 .. Len(out) : out'[j] = out[j]
      BY <1>2, <2>2, <2>3, AddTextFacts
    <3>2. i \in 1 .. Len(out') /\ out'[i] = out[i]
      BY <1>2, <3>1
    <3> QED BY <1>1, <3>2 DEF InEvents
  <2>4. CASE Merges(a)
    <3>1. /\ Len(out) >= 1 /\ Len(out') = Len(out)
          /\ \A j \in 1 .. Len(out) - 1 : out'[j] = out[j]
          /\ out'[Len(out)].at = out[Len(out)].at \o a
      BY <1>2, <2>2, <2>4, AddTextFacts
    <3>2. CASE i = Len(out)
      <4> DEFINE c == out[i].at
      <4>1. c \in Seq(Nat) /\ Len(c) \in Nat /\ Len(a) \in Nat
        BY <1>2, <2>2, EventFacts, LenProperties
      <4>2. out'[i].at = c \o a /\ c[k] = p /\ k \in 1 .. Len(c)
        BY <1>1, <3>1, <3>2
      <4> HIDE DEF c
      <4>3. Len(c \o a) = Len(c) + Len(a) /\ k \in 1 .. Len(c) + Len(a) /\ (c \o a)[k] = c[k]
        BY <2>2, <4>1, <4>2, ConcatProperties
      <4>4. i \in 1 .. Len(out') /\ k \in 1 .. Len(out'[i].at) /\ out'[i].at[k] = p
        BY <3>1, <4>2, <4>3
      <4> QED BY <4>4 DEF InEvents
    <3>3. CASE i # Len(out)
      <4>1. i \in 1 .. Len(out') /\ out'[i] = out[i]
        BY <1>2, <3>1, <3>3
      <4> QED BY <1>1, <4>1 DEF InEvents
    <3> QED BY <3>2, <3>3
  <2> QED BY <2>3, <2>4
<1> QED BY <1>3, <1>4, <1>5 DEF Step

LEMMA EventsWritten ==
  ASSUME Machine, Step, Writes, NEW p \in pos .. pos' - 1
  PROVE  InEvents(out', Len(out'), p)
<1>1. PICK q : q = pos'
  OBVIOUS
<1>2. q \in Nat /\ pos \in Nat /\ pos <= q /\ p \in pos .. q - 1
  <2>1. pos \in Nat /\ Len(input) \in Nat
    BY TokFacts DEF Machine
  <2>2. q \in pos + 1 .. Len(input) + 1
    BY <1>1 DEF Writes, TextUpTo
  <2>3. p \in pos .. q - 1
    BY <1>1
  <2> QED BY <2>1, <2>2, <2>3
<1> DEFINE a == Span(pos, q)
<1>3. a \in Seq(Nat) /\ Len(a) = q - pos /\ \A k \in 1 .. q - pos : a[k] = pos + k - 1
  BY <1>2, SpanFacts
<1>4. out' = AddText(a) /\ out \in Seq(Events) /\ Len(out) \in Nat
  BY <1>1, EventFacts DEF Writes, Machine
<1> HIDE DEF a
<1>5. p - pos + 1 \in 1 .. Len(a) /\ a[p - pos + 1] = p
  <2>1. PICK h \in 1 .. q - pos : h = p - pos + 1 /\ pos + h - 1 = p
    BY <1>2
  <2>2. a[h] = p
    BY <1>3, <2>1
  <2> QED BY <1>3, <2>1, <2>2
<1>6. PICK k \in 1 .. Len(a) : a[k] = p
  BY <1>5
<1>7. CASE ~Merges(a)
  <2>1. Len(out') = Len(out) + 1 /\ out'[Len(out) + 1] = [kind |-> "text", at |-> a]
    BY <1>3, <1>4, <1>7, AddTextFacts
  <2>2. PICK i \in 1 .. Len(out') : out'[i].at = a
    BY <1>4, <2>1
  <2> QED BY <1>6, <2>2 DEF InEvents
<1>8. CASE Merges(a)
  <2>1. /\ Len(out) >= 1 /\ Len(out') = Len(out)
        /\ out'[Len(out)].at = out[Len(out)].at \o a /\ out[Len(out)].at \in Seq(Nat)
    BY <1>3, <1>4, <1>8, AddTextFacts
  <2> DEFINE c == out[Len(out)].at
  <2>2. c \in Seq(Nat) /\ Len(c) \in Nat /\ Len(a) \in Nat /\ out'[Len(out)].at = c \o a
    BY <1>3, <2>1, LenProperties
  <2> HIDE DEF c
  <2>3. /\ Len(c \o a) = Len(c) + Len(a)
        /\ \A h \in 1 .. Len(c) + Len(a) : (c \o a)[h] = IF h <= Len(c) THEN c[h] ELSE a[h - Len(c)]
    BY <1>3, <2>2, ConcatProperties
  <2>4. Len(c) + k \in 1 .. Len(c) + Len(a) /\ ~(Len(c) + k <= Len(c)) /\ Len(c) + k - Len(c) = k
    BY <2>2
  <2>5. (c \o a)[Len(c) + k] = a[k]
    BY <2>3, <2>4
  <2>6. Len(out) \in 1 .. Len(out')
    BY <1>4, <2>1
  <2>7. Len(c) + k \in 1 .. Len(out'[Len(out)].at) /\ out'[Len(out)].at[Len(c) + k] = p
    BY <1>6, <2>2, <2>3, <2>4, <2>5
  <2> QED BY <2>6, <2>7 DEF InEvents
<1> QED BY <1>7, <1>8

LEMMA EventsEmitted ==
  ASSUME Machine, NEW p \in Nat,
         NEW kind \in {"command", "arg", "endArg", "square", "entry", "endSquare"},
         out' = Emit(kind, p)
  PROVE  InEvents(out', Len(out'), p)
<1>1. /\ Len(out') = Len(out) + 1 /\ Len(out) \in Nat
      /\ out'[Len(out) + 1] = [kind |-> kind, at |-> <<p>>]
  BY EmitFacts DEF Machine
<1>2. Len(<<p>>) = 1 /\ <<p>>[1] = p
  OBVIOUS
<1>3. PICK i \in 1 .. Len(out') : out'[i].at = <<p>>
  BY <1>1
<1>4. 1 \in 1 .. Len(out'[i].at) /\ out'[i].at[1] = p
  BY <1>2, <1>3
<1> QED BY <1>4 DEF InEvents

\* A comment is what it was, for the input does not change.
LEMMA CommentsStay ==
  ASSUME input' = input
  PROVE  /\ \A p : Tok(p)' = Tok(p)
         /\ \A p : InComment(p)' <=> InComment(p)
<1>1. \A p : Tok(p)' = Tok(p)
  BY DEF Tok
<1>2. ASSUME NEW p PROVE InComment(p)' <=> InComment(p)
  BY DEF InComment, Comments, BlockComments, LineComments, OpensAt, Escape, BlockEnd, HasAt, Tok, Positions
<1> QED BY <1>1, <1>2

LEMMA CoverStep ==
  ASSUME Machine, Step, Cover(out, stack, pos), Reads \/ Retracts
  PROVE  Covered(out', Len(out'), pos') /\ \A a \in ArgsOf(stack') : Covered(out', a[1], a[2])
<1>1. /\ pos \in Nat /\ pos >= 1 /\ pos' \in Nat /\ pos' >= 1 /\ Len(out) \in Nat
      /\ out \in Seq(Events) /\ out' \in Seq(Events)
  BY TokFacts, EventFacts DEF Machine, Step, Positions
<1>2. ASSUME NEW n \in Nat, n < Len(out'), NEW m, Covered(out, n, m)
      PROVE  Covered(out', n, m)
  <2>1. \A i \in 1 .. n : out'[i] = out[i]
    <3>1. \A i \in 1 .. n : i \in 1 .. Len(out') - 1
      BY <1>2, PrefixKept
    <3> QED BY <3>1, PrefixKept
  <2>2. \A p : InEvents(out, n, p) => InEvents(out', n, p)
    BY <2>1 DEF InEvents
  <2> QED BY <1>2, <2>2 DEF Covered
<1>3. Covered(out', Len(out'), pos')
  <2>1. CASE Retracts
    <3>1. Top.kind = "arg" /\ out' = SubSeq(out, 1, Top.kept) /\ pos' = Top.mark
      BY <2>1 DEF Retracts, Retracted, Resumed
    <3>2. /\ Top.kept \in Nat /\ Top.kept < Len(out)
          /\ Top = stack[1] /\ 1 \in 1 .. Len(stack)
      BY <3>1, TopFacts, FrameFacts, PopFacts DEF FrameOK, TextFrames
    <3>3. Len(out') = Top.kept /\ \A i \in 1 .. Top.kept : out'[i] = out[i]
      BY <1>1, <3>1, <3>2, PrefixFacts
    <3>4. <<Top.kept, Top.mark>> \in ArgsOf(stack)
      BY <3>1, <3>2 DEF ArgsOf
    <3>5. Covered(out, Top.kept, Top.mark)
      <4>1. <<Top.kept, Top.mark>>[1] = Top.kept /\ <<Top.kept, Top.mark>>[2] = Top.mark
        OBVIOUS
      <4> QED BY <3>4, <4>1 DEF Cover
    <3>6. \A p : InEvents(out, Top.kept, p) => InEvents(out', Top.kept, p)
      BY <3>3 DEF InEvents
    <3> QED BY <3>1, <3>3, <3>5, <3>6 DEF Covered
  <2>2. CASE Reads /\ ~Retracts
    <3> SUFFICES ASSUME NEW p \in 1 .. pos' - 1, Tok(p) \in Words
                 PROVE  InEvents(out', Len(out'), p) \/ InComment(p)
      BY DEF Covered
    <3>1. p \in 1 .. pos - 1 \/ p \in pos .. pos' - 1
      <4>1. PICK q : q = pos'
        OBVIOUS
      <4>2. p \in 1 .. q - 1 /\ q \in Nat
        BY <1>1, <4>1
      <4>3. p \in 1 .. pos - 1 \/ p \in pos .. q - 1
        BY <1>1, <4>2
      <4> QED BY <4>1, <4>3
    <3>2. CASE p \in 1 .. pos - 1
      <4>1. InEvents(out, Len(out), p) \/ InComment(p)
        BY <3>2 DEF Cover, Covered
      <4> QED BY <2>2, <4>1, EventsKept
    <3>3. CASE p \in pos .. pos' - 1
      BY <2>2, <3>3 DEF Reads
    <3> QED BY <3>1, <3>2, <3>3
  <2> QED BY <2>1, <2>2
<1>4. ASSUME NEW a \in ArgsOf(stack') PROVE Covered(out', a[1], a[2])
  <2>1. a[1] \in Nat /\ a[1] < Len(out')
    BY ArgsFacts DEF Step
  <2>2. Covered(out, a[1], a[2])
    <3>1. CASE a \in ArgsOf(stack)
      BY <3>1 DEF Cover
    <3>2. CASE a = <<Len(out), pos>>
      BY <3>2 DEF Cover
    <3> QED BY <3>1, <3>2 DEF Step
  <2> QED BY <1>2, <2>1, <2>2
<1> QED BY <1>3, <1>4

-----------------------------------------------------------------------------
(* What each action reads *)

\* Nothing but what a step writes.
LEMMA WritesRead ==
  ASSUME Machine, Step, Writes
  PROVE  Reads
BY EventsWritten DEF Reads

LEMMA StaysRead ==
  ASSUME pos \in Nat, pos' = pos
  PROVE  Reads
<1>1. pos .. pos' - 1 = {}
  OBVIOUS
<1> QED BY <1>1 DEF Reads

\* The mirror image of an escape, and its brackets, hold no word.
LEMMA SymbolsAreNoWords == Symbols \cap Words = {} /\ Escapes \cap Words = {}
BY DEF Symbols, Words, Escapes, Openers

LEMMA BracketRead ==
  ASSUME Machine, NEW b \in Seq(Symbols), b # <<>>, HasAt(pos, b),
         NEW n, n = pos + Len(b)
  PROVE  \A k \in pos .. n - 1 : Tok(k) \notin Words
<1>1. InputOK /\ pos \in Nat /\ pos >= 1
  BY TokFacts DEF Machine
<1>2. b \in Seq(Tokens)
  <2>1. Symbols \subseteq Tokens
    BY DEF Symbols, Tokens
  <2> QED BY <2>1, SeqMonotonic
<1>3. Len(b) \in Nat /\ \A k \in pos .. pos + Len(b) - 1 : Tok(k) = b[k - pos + 1]
  BY <1>1, <1>2, HasAtFacts
<1>4. ASSUME NEW k \in pos .. n - 1 PROVE Tok(k) \notin Words
  <2>1. k - pos + 1 \in 1 .. Len(b) /\ Tok(k) = b[k - pos + 1]
    <3>1. k \in pos .. pos + Len(b) - 1
      BY <1>1, <1>3
    <3> QED BY <1>1, <1>3, <3>1
  <2>2. Tok(k) \in Symbols
    BY <2>1, ElementOfSeq
  <2> QED BY <2>2, SymbolsAreNoWords
<1> QED BY <1>4

\* An escape before something else.
LEMMA EscapeRead ==
  ASSUME InputOK, NEW p \in Positions, NEW e \in Seq(Escapes), NEW t \in Seq(Tokens), t # <<>>,
         HasAt(p, e \o t)
  PROVE  /\ Len(e) \in Nat /\ p \in Nat
         /\ \A k \in p .. p + Len(e) - 1 : Tok(k) \in Escapes
         /\ SubSeq(input, p, p + Len(e) - 1) = e
         /\ \A k \in 1 .. Len(t) : Tok(p + Len(e) + k - 1) = t[k]
<1>1. /\ p \in Nat /\ p >= 1 /\ p <= Len(input) + 1 /\ Len(input) \in Nat
      /\ Len(e) \in Nat /\ Len(t) \in Nat
  BY TokFacts, LenProperties DEF Positions
<1>2. e \in Seq(Tokens)
  <2>1. Escapes \subseteq Tokens
    BY DEF Escapes, Openers, Tokens
  <2> QED BY <2>1, SeqMonotonic
<1> DEFINE w == e \o t
<1>3. /\ Len(w) = Len(e) + Len(t)
      /\ \A k \in 1 .. Len(e) + Len(t) : w[k] = IF k <= Len(e) THEN e[k] ELSE t[k - Len(e)]
  BY <1>2, ConcatProperties
<1>4. \A k \in 1 .. Len(w) : Tok(p + k - 1) = w[k]
  BY DEF HasAt
<1> HIDE DEF w
<1>5. \A k \in 1 .. Len(e) : Tok(p + k - 1) = e[k] /\ e[k] \in Escapes
  <2> TAKE k \in 1 .. Len(e)
  <2>1. k \in 1 .. Len(w) /\ w[k] = e[k]
    BY <1>1, <1>3
  <2> QED BY <1>4, <2>1, ElementOfSeq
<1>6. ASSUME NEW k \in 1 .. Len(t) PROVE Tok(p + Len(e) + k - 1) = t[k]
  <2>1. PICK j \in 1 .. Len(w) : j = Len(e) + k
    BY <1>1, <1>3
  <2>2. w[j] = t[j - Len(e)] /\ j - Len(e) = k
    BY <1>1, <1>3, <2>1
  <2>3. Tok(p + j - 1) = w[j] /\ p + j - 1 = p + Len(e) + k - 1
    BY <1>1, <1>4, <2>1
  <2> QED BY <2>2, <2>3
<1>7. ASSUME NEW k \in p .. p + Len(e) - 1 PROVE Tok(k) \in Escapes
  <2>1. PICK j \in 1 .. Len(e) : k = p + j - 1
    <3>1. k - p + 1 \in 1 .. Len(e) /\ k = p + (k - p + 1) - 1
      BY <1>1
    <3> QED BY <3>1
  <2> QED BY <1>5, <2>1
<1>8. SubSeq(input, p, p + Len(e) - 1) = e
  <2> DEFINE u == SubSeq(input, p, p + Len(e) - 1)
  <2>1. \A k \in p .. p + Len(e) - 1 : k \in 1 .. Len(input) /\ input[k] \in Tokens
    <3>1. \A k \in p .. p + Len(e) - 1 : Tok(k) # "eof"
      BY <1>7 DEF Escapes, Openers
    <3> QED BY <3>1, TokFacts
  <2>2. p \in Int /\ p + Len(e) - 1 \in Int
    BY <1>1
  <2>3. /\ u \in Seq(Tokens)
        /\ Len(u) = IF p <= p + Len(e) - 1 THEN p + Len(e) - 1 - p + 1 ELSE 0
        /\ \A k \in 1 .. p + Len(e) - 1 - p + 1 : u[k] = input[p + k - 1]
    BY <2>1, <2>2, SubSeqProperties
  <2> HIDE DEF u
  <2>4. Len(u) = Len(e)
    BY <1>1, <2>3
  <2>5. ASSUME NEW k \in 1 .. Len(e) PROVE u[k] = e[k]
    <3>1. k \in 1 .. p + Len(e) - 1 - p + 1 /\ p + k - 1 \in p .. p + Len(e) - 1
      BY <1>1
    <3>2. u[k] = input[p + k - 1] /\ p + k - 1 \in 1 .. Len(input)
      BY <2>1, <2>3, <3>1
    <3>3. Tok(p + k - 1) = input[p + k - 1] /\ Tok(p + k - 1) = e[k]
      BY <1>5, <3>2, TokFacts
    <3> QED BY <3>2, <3>3
  <2>6. u = e
    BY <1>2, <2>3, <2>4, <2>5, SeqEqual
  <2> QED BY <2>6 DEF u
<1> QED BY <1>1, <1>6, <1>7, <1>8

LEMMA CommentRead ==
  ASSUME Machine, Comment
  PROVE  Reads
<1>1. PICK q \in Comments(pos, Top.escape) : pos' = q
  BY DEF Comment
<1> DEFINE e == Top.escape
<1>2. /\ InputOK /\ pos \in Positions /\ pos \in Nat /\ pos >= 1 /\ Len(input) \in Nat
      /\ e \in Seq(Escapes) /\ Len(e) \in Nat
  BY TokFacts, TopFacts DEF Machine, InputOK, Comment, InContent, ParsesText, Parses
<1> HIDE DEF e
<1>3. q \in Positions /\ q > pos /\ HasAt(pos, e \o <<"@", "%">>) /\ q \in Comments(pos, e)
  BY <1>1, <1>2, CommentFacts DEF e
<1>4. <<"@", "%">> \in Seq(Tokens) /\ <<"@", "%">> # <<>>
  BY DEF Tokens
<1>5. /\ \A k \in pos .. pos + Len(e) - 1 : Tok(k) \in Escapes
      /\ SubSeq(input, pos, pos + Len(e) - 1) = e
  BY <1>2, <1>3, <1>4, EscapeRead
<1>6. ASSUME NEW p \in pos .. q - 1, Tok(p) \in Words PROVE InComment(p)
  <2>1. q \in Nat /\ p \in Nat /\ p < q
    BY <1>2, <1>3 DEF Positions
  <2>2. p >= pos + Len(e)
    <3>1. p \notin pos .. pos + Len(e) - 1
      BY <1>5, <1>6, SymbolsAreNoWords
    <3> QED BY <1>2, <2>1, <3>1
  <2>3. PICK j \in 1 .. p : j = pos + Len(e)
    BY <1>2, <2>1, <2>2
  <2>4. pos \in 1 .. p /\ pos <= j /\ j <= p /\ SubSeq(input, pos, j - 1) = e
    BY <1>2, <1>5, <2>1, <2>2, <2>3
  <2> QED BY <1>3, <2>1, <2>4 DEF InComment
<1> QED BY <1>1, <1>6 DEF Reads

\* A command that starts leaves its name, and before it stand q only an escape
\* and the "@"; s is the stack below.
LEMMA CommandRead ==
  ASSUME Machine, NEW q \in Positions, q >= pos, NEW e \in Seq(Escapes),
         HasAt(q, Append(e, "@")),
         \A k \in pos .. q - 1 : Tok(k) \in Words => InComment(k),
         NEW s, StartCommand(NameAt(q, e), s)
  PROVE  Reads
<1>1. InputOK /\ pos \in Nat /\ pos >= 1 /\ Len(input) \in Nat /\ q \in Nat /\ Len(e) \in Nat
  BY TokFacts, LenProperties DEF Machine, Positions
<1>2. CASE Panic
  BY <1>1, <1>2, StaysRead DEF Panic
<1>3. CASE ~Panic
  <2>1. pos' = NameAt(q, e) + 1 /\ out' = Emit("command", NameAt(q, e))
    BY <1>3 DEF StartCommand
  <2>2. NameAt(q, e) \in Nat /\ NameAt(q, e) = q + Len(e) + 1
    BY <1>1 DEF NameAt
  <2>3. InEvents(out', Len(out'), NameAt(q, e))
    BY <2>1, <2>2, EventsEmitted
  <2>4. <<"@">> \in Seq(Tokens) /\ <<"@">> # <<>> /\ Len(<<"@">>) = 1 /\ <<"@">>[1] = "@"
    BY DEF Tokens
  <2>5. HasAt(q, e \o <<"@">>)
    <3>1. Append(e, "@") = e \o <<"@">>
      <4>1. e \in Seq(Tokens) /\ "@" \in Tokens
        <5>1. Escapes \subseteq Tokens
          BY DEF Escapes, Openers, Tokens
        <5> QED BY <5>1, SeqMonotonic DEF Tokens
      <4> QED BY <4>1, AppendIsConcat
    <3> QED BY <3>1
  <2>6. /\ \A k \in q .. q + Len(e) - 1 : Tok(k) \in Escapes
        /\ \A k \in 1 .. 1 : Tok(q + Len(e) + k - 1) = <<"@">>[k]
    BY <1>1, <2>4, <2>5, EscapeRead
  <2>7. Tok(q + Len(e)) = "@"
    <3>1. q + Len(e) + 1 - 1 = q + Len(e) /\ 1 \in 1 .. 1
      BY <1>1
    <3>2. Tok(q + Len(e) + 1 - 1) = "@"
      BY <2>4, <2>6, <3>1
    <3> QED BY <3>1, <3>2
  <2>9. PICK n : n = pos'
    OBVIOUS
  <2>8. ASSUME NEW p \in pos .. n - 1, Tok(p) \in Words
        PROVE  InEvents(out', Len(out'), p) \/ InComment(p)
    <3>1. \/ p \in pos .. q - 1 \/ p \in q .. q + Len(e) - 1
          \/ p = q + Len(e) \/ p = NameAt(q, e)
      BY <1>1, <2>1, <2>2, <2>9
    <3>2. p \notin q .. q + Len(e) - 1
      BY <2>6, <2>8, SymbolsAreNoWords
    <3>3. p # q + Len(e)
      BY <2>7, <2>8 DEF Words
    <3> QED BY <2>3, <2>8, <3>1, <3>2, <3>3
  <2> QED BY <2>9, <2>8 DEF Reads
<1> QED BY <1>2, <1>3

\* A step over p, behind what holds no word that counts; p may be emitted.
LEMMA TokenRead ==
  ASSUME pos \in Nat, NEW q \in Nat, q >= pos, pos' = q + 1,
         \A k \in pos .. q - 1 : Tok(k) \in Words => InComment(k),
         Tok(q) \notin Words \/ InEvents(out', Len(out'), q)
  PROVE  Reads
<1>1. PICK n : n = pos'
  OBVIOUS
<1>2. \A k \in pos .. n - 1 : k \in pos .. q - 1 \/ k = q
  BY <1>1
<1> QED BY <1>1, <1>2 DEF Reads

LEMMA PastRead ==
  ASSUME NEW n, pos' = n, \A k \in pos .. n - 1 : Tok(k) \notin Words
  PROVE  Reads
BY DEF Reads

LEMMA TextPartRead ==
  ASSUME Machine, Step, TextPart
  PROVE  Reads \/ Retracts
<1>0. InputOK /\ pos \in Nat /\ pos >= 1 /\ pos \in Positions
  BY TokFacts DEF Machine, InputOK
<1>1. ASSUME Writes PROVE Reads
  BY <1>1, WritesRead
<1>2. ASSUME Panic PROVE Reads
  BY <1>0, <1>2, StaysRead DEF Panic
<1>3. CASE OpenBrace \/ CloseBrace
  <2>1. PICK b \in {Opening(Top.escape), Closing(Top.escape)} :
          HasAt(pos, b) /\ pos' = pos + Len(b)
    BY <1>3 DEF OpenBrace, CloseBrace, AtOpening, AtClosing, Brace
  <2>2. b \in Seq(Symbols) /\ b # <<>>
    BY <1>3, TopFacts DEF OpenBrace, CloseBrace, ParsesText, Parses
  <2>3. PICK n : n = pos + Len(b)
    OBVIOUS
  <2>4. pos' = n /\ \A k \in pos .. n - 1 : Tok(k) \notin Words
    BY <2>1, <2>2, <2>3, BracketRead
  <2> QED BY <2>4, PastRead
<1>4. CASE EndArgument
  <2>1. HasAt(pos, Closing(Top.escape)) /\ pos' = pos + Len(Closing(Top.escape))
    BY <1>4 DEF EndArgument, AtClosing
  <2>2. Closing(Top.escape) \in Seq(Symbols) /\ Closing(Top.escape) # <<>>
    BY <1>4, TopFacts DEF EndArgument, Parses
  <2>3. PICK n : n = pos + Len(Closing(Top.escape))
    OBVIOUS
  <2>4. pos' = n /\ \A k \in pos .. n - 1 : Tok(k) \notin Words
    BY <2>1, <2>2, <2>3, BracketRead
  <2> QED BY <2>4, PastRead
<1>5. CASE ExtraBrace
  BY <1>2, <1>5 DEF ExtraBrace
<1>6. CASE NewlineNode
  <2>1. Tok(pos) = "nl" /\ pos' = pos + 1
    BY <1>6 DEF NewlineNode
  <2>2. pos .. pos - 1 = {} /\ Tok(pos) \notin Words
    BY <1>0, <2>1 DEF Words
  <2> QED BY <1>0, <2>1, <2>2, TokenRead
<1>7. CASE Comment
  BY <1>7, CommentRead
<1>8. CASE TextCommand
  <2>1. /\ HasAt(pos, Append(Top.escape, "@"))
        /\ StartCommand(NameAt(pos, Top.escape), stack)
    BY <1>8 DEF TextCommand, CommandAt
  <2>2. Top.escape \in Seq(Escapes)
    BY <1>8, TopFacts DEF TextCommand, InContent, ParsesText, Parses
  <2>3. pos .. pos - 1 = {}
    BY <1>0
  <2> QED BY <1>0, <2>1, <2>2, <2>3, CommandRead
<1>9. CASE GenericText
  BY <1>1, <1>9, GenericTextWrites
<1>10. CASE EndOfFile
  <2>1. pos' = pos
    BY <1>10 DEF EndOfFile, Panic
  <2> QED BY <1>0, <2>1, StaysRead
<1>11. CASE UnclosedArgument
  <2>1. CASE Panic
    BY <1>2, <2>1
  <2>2. CASE ~Panic
    BY <1>11, <2>2 DEF UnclosedArgument, Parses, Retracts
  <2> QED BY <2>1, <2>2
<1> QED BY <1>3, <1>4, <1>5, <1>6, <1>7, <1>8, <1>9, <1>10, <1>11 DEF TextPart

LEMMA CommandPartRead ==
  ASSUME Machine, CommandPart
  PROVE  Reads
<1>1. InputOK /\ pos \in Nat /\ pos \in Positions /\ Len(input) \in Nat
  BY TokFacts DEF Machine, InputOK
<1>2. PICK p \in Skipped(pos) :
        \/ Semicolon(p) \/ StartSquare(p)
        \/ \E n \in 0 .. Len(input) : StartArgument(p, n)
        \/ EndCommand(p)
  BY DEF CommandPart
<1>3. /\ p \in Positions /\ p >= pos /\ p \in Nat
      /\ \A k \in pos .. p - 1 : Tok(k) \in Words => InComment(k)
  BY <1>1, SkippedFacts, WordsSkipped
<1>4. CASE Semicolon(p)
  <2>1. pos' = p + 1 /\ Tok(p) \notin Words
    BY <1>4 DEF Semicolon, Words
  <2> QED BY <1>1, <1>3, <2>1, TokenRead
<1>5. CASE StartSquare(p)
  <2>1. pos' = p + 1 /\ Tok(p) \notin Words
    BY <1>5 DEF StartSquare, Words
  <2> QED BY <1>1, <1>3, <2>1, TokenRead
<1>6. ASSUME NEW n \in 0 .. Len(input), StartArgument(p, n) PROVE Reads
  <2>1. OpensAt(p, n) /\ pos' = p + n + 1
    BY <1>6 DEF StartArgument
  <2>2. n \in Nat
    BY <1>1
  <2>3. PICK q : q = pos'
    OBVIOUS
  <2>4. ASSUME NEW k \in p .. q - 1 PROVE Tok(k) \notin Words
    <3>1. k = p + n \/ (n > 0 /\ k = p) \/ k - p \in 1 .. n - 1
      BY <1>3, <2>1, <2>2, <2>3
    <3>2. CASE k = p + n
      BY <2>1, <3>2 DEF OpensAt, Words
    <3>3. CASE n > 0 /\ k = p
      BY <2>1, <3>3 DEF OpensAt, Words
    <3>4. CASE k - p \in 1 .. n - 1
      <4>1. PICK j \in 1 .. n - 1 : k = p + j
        BY <1>3, <2>2, <3>4
      <4>2. Tok(p + j) \in Openers
        BY <2>1 DEF OpensAt
      <4> QED BY <4>1, <4>2 DEF Openers, Words
    <3> QED BY <3>1, <3>2, <3>3, <3>4
  <2>5. \A k \in pos .. q - 1 : k \in pos .. p - 1 \/ k \in p .. q - 1
    BY <1>1, <1>3, <2>1, <2>2, <2>3
  <2> QED BY <1>3, <2>3, <2>4, <2>5 DEF Reads
<1>7. CASE EndCommand(p)
  BY <1>1, <1>7, StaysRead DEF EndCommand
<1> QED BY <1>2, <1>4, <1>5, <1>6, <1>7

LEMMA SquarePartRead ==
  ASSUME Machine, SquarePart
  PROVE  Reads
<1>1. InputOK /\ pos \in Nat /\ pos >= 1 /\ Len(input) \in Nat
  BY TokFacts DEF Machine
<1>2. PICK p \in Spaced(pos) :
        \/ SimpleEntry(p) \/ CommandEntry(p) \/ Equals(p) \/ Comma(p)
        \/ EndSquare(p) \/ Malformed(p)
  BY DEF SquarePart
<1>3. p \in pos .. Len(input) + 1 /\ \A k \in pos .. p - 1 : Tok(k) \in Spaces
  BY DEF Spaced
<1>4. /\ p \in Positions /\ p >= pos /\ p \in Nat
      /\ \A k \in pos .. p - 1 : Tok(k) \in Words => InComment(k)
  <2>1. p \in 1 .. Len(input) + 1 /\ p >= pos /\ p \in Nat
    BY <1>1, <1>3
  <2>2. \A k \in pos .. p - 1 : Tok(k) \notin Words
    BY <1>3 DEF Spaces, Words
  <2> QED BY <2>1, <2>2 DEF Positions
<1>5. CASE SimpleEntry(p)
  <2>1. pos' = p + 1 /\ out' = Emit("entry", p)
    BY <1>5 DEF SimpleEntry, Consume
  <2>2. InEvents(out', Len(out'), p)
    BY <1>4, <2>1, EventsEmitted
  <2> QED BY <1>1, <1>4, <2>1, <2>2, TokenRead
<1>6. CASE CommandEntry(p)
  <2>1. HasAt(p, Append(<<>>, "@")) /\ StartCommand(NameAt(p, <<>>), Moved(AfterEntry))
    BY <1>6 DEF CommandEntry, CommandAt
  <2>2. <<>> \in Seq(Escapes)
    OBVIOUS
  <2> QED BY <1>4, <2>1, <2>2, CommandRead
<1>7. CASE Equals(p) \/ Comma(p) \/ EndSquare(p)
  <2>1. pos' = p + 1 /\ Tok(p) \notin Words
    BY <1>7 DEF Equals, Comma, EndSquare, MayEnd, Consume, Words
  <2> QED BY <1>1, <1>4, <2>1, TokenRead
<1>8. CASE Malformed(p)
  BY <1>1, <1>8, StaysRead DEF Malformed, Panic
<1> QED BY <1>2, <1>5, <1>6, <1>7, <1>8

\* The parser is done only at the end of the input.
LEMMA DoneStep ==
  ASSUME Next, status = "done" => Tok(pos) = "eof"
  PROVE  status' = "done" => Tok(pos)' = "eof"
<1>1. ASSUME Panic PROVE status' # "done"
  BY <1>1 DEF Panic
<1>2. ASSUME NEW name, NEW s, StartCommand(name, s), status = "parsing" PROVE status' # "done"
  BY <1>1, <1>2 DEF StartCommand
<1>3. CASE EndOfFile
  <2>1. pos' = pos /\ input' = input /\ Tok(pos) = "eof"
    BY <1>3 DEF EndOfFile, Panic
  <2> QED BY <2>1 DEF Tok
<1>4. CASE TextPart /\ ~EndOfFile
  BY <1>1, <1>2, <1>4 DEF TextPart, OpenBrace, CloseBrace, EndArgument, ExtraBrace, NewlineNode,
                          Comment, TextCommand, GenericText, UnclosedArgument, Brace,
                          InContent, ParsesText, Parses
<1>5. CASE CommandPart
  BY <1>5 DEF CommandPart, Semicolon, StartSquare, StartArgument, EndCommand, Parses
<1>6. CASE SquarePart
  BY <1>1, <1>2, <1>6 DEF SquarePart, SimpleEntry, CommandEntry, Equals, Comma, EndSquare,
                          Malformed, Consume, Parses
<1>7. CASE Stopped
  <2>1. pos' = pos /\ input' = input /\ status' = status
    BY <1>7 DEF Stopped, vars
  <2> QED BY <2>1 DEF Tok
<1> QED BY <1>3, <1>4, <1>5, <1>6, <1>7 DEF Next

\* Primed, Cover says of the input what it says unprimed.
LEMMA CoverKept ==
  ASSUME input' = input,
         Covered(out', Len(out'), pos'), \A a \in ArgsOf(stack') : Covered(out', a[1], a[2])
  PROVE  Cover(out, stack, pos)'
<1>1. \A p : (Tok(p)' = Tok(p)) /\ (InComment(p)' <=> InComment(p))
  BY CommentsStay
<1>2. Covered(out, Len(out), pos)'
  BY <1>1 DEF Covered, InEvents
<1>3. (\A a \in ArgsOf(stack) : Covered(out, a[1], a[2]))'
  BY <1>1 DEF Covered, InEvents
<1> QED BY <1>2, <1>3 DEF Cover

\* The tree has the source: each token once at most and in order, and in the
\* end every word that no comment holds.
THEOREM SourceIsInTree == Spec => []SourceInTree
<1> DEFINE IInv == /\ Machine /\ Ordered(out, stack, pos) /\ Cover(out, stack, pos)
                   /\ status = "done" => Tok(pos) = "eof"
<1>1. Init => IInv
  <2> SUFFICES ASSUME Init PROVE IInv
    OBVIOUS
  <2>1. Machine /\ ArgsOf(stack) = {} /\ Len(out) = 0 /\ pos = 1 /\ status = "parsing"
    BY MachineInit DEF Init
  <2>2. Cover(out, stack, pos)
    BY <2>1 DEF Cover, Covered
  <2>3. Ordered(out, stack, pos)
    BY <2>1 DEF Ordered, Sorted
  <2> QED BY <2>1, <2>2, <2>3
<1>2. IInv /\ [Next]_vars => IInv'
  <2> SUFFICES ASSUME IInv, [Next]_vars PROVE IInv'
    OBVIOUS
  <2>1. Machine'
    BY MachineStep
  <2>2. CASE UNCHANGED vars
    <3>1. Ordered(out, stack, pos)'
      BY <2>2 DEF vars, Ordered, Sorted, ArgsOf
    <3>2. Cover(out, stack, pos)'
      <4>1. input' = input /\ out' = out /\ stack' = stack /\ pos' = pos
        BY <2>2 DEF vars
      <4>2. Covered(out', Len(out'), pos') /\ \A a \in ArgsOf(stack') : Covered(out', a[1], a[2])
        BY <4>1 DEF Cover
      <4> QED BY <4>1, <4>2, CoverKept
    <3> QED BY <2>1, <2>2, <3>1, <3>2 DEF vars, Tok
  <2>3. CASE Next /\ Step
    <3>1. Ordered(out, stack, pos)'
      BY <2>3, OrderedStep DEF Ordered, Sorted, ArgsOf
    <3>2. Reads \/ Retracts
      <4>1. CASE Stopped
        BY <4>1, TokFacts, StaysRead DEF Stopped, vars, Machine
      <4> QED BY <2>3, <4>1, TextPartRead, CommandPartRead, SquarePartRead DEF Next
    <3>3. Cover(out, stack, pos)'
      <4>1. input' = input
        BY <2>3 DEF Step
      <4> QED BY <2>3, <3>2, <4>1, CoverStep, CoverKept
    <3>4. (status = "done" => Tok(pos) = "eof")'
      BY <2>3, DoneStep
    <3> QED BY <2>1, <3>1, <3>3, <3>4
  <2> QED BY <2>2, <2>3, NextStep
<1>3. IInv => SourceInTree
  <2> SUFFICES ASSUME IInv PROVE SourceInTree
    OBVIOUS
  <2>1. InOrder
    BY SortedInOrder DEF Ordered, Machine
  <2>2. ASSUME status = "done", NEW p \in 1 .. Len(input), Tok(p) \in Words
        PROVE  InTree(p) \/ InComment(p)
    <3>1. pos \in Nat /\ pos >= 1 /\ Len(input) \in Nat /\ pos \notin 1 .. Len(input)
      <4>1. \A k \in 1 .. Len(input) : Tok(k) # "eof"
        BY TokFacts DEF Machine, Tokens, Words, Spaces
      <4> QED BY <2>2, <4>1, TokFacts DEF Machine
    <3>2. p \in 1 .. pos - 1
      BY <3>1
    <3> QED BY <2>2, <3>2 DEF Cover, Covered, InEvents, InTree
  <2> QED BY <2>1, <2>2 DEF SourceInTree
<1> HIDE DEF IInv
<1> QED BY <1>1, <1>2, <1>3, PTL DEF Spec

-----------------------------------------------------------------------------
(* Brackets *)

\* How many brackets are open before m.
Depth(m) == Cardinality(Opened(m - 1)) - Cardinality(Closed(m - 1))

\* Where no escape and no comment is, only a brace changes the depth.
Braces == {"{", "}"}

LEMMA CountStep ==
  ASSUME NEW c, NEW p \in Nat, p >= 1
  PROVE  /\ IsFiniteSet({q \in 1 .. p : Tok(q) = c})
         /\ Cardinality({q \in 1 .. p : Tok(q) = c}) \in Nat
         /\ Cardinality({q \in 1 .. p : Tok(q) = c}) =
              Cardinality({q \in 1 .. p - 1 : Tok(q) = c}) + (IF Tok(p) = c THEN 1 ELSE 0)
<1> DEFINE A == {q \in 1 .. p - 1 : Tok(q) = c}
           B == {q \in 1 .. p : Tok(q) = c}
<1>1. IsFiniteSet(A) /\ IsFiniteSet(B)
  <2>1. IsFiniteSet(1 .. p - 1) /\ IsFiniteSet(1 .. p)
    BY FS_Interval
  <2>2. A \in SUBSET (1 .. p - 1) /\ B \in SUBSET (1 .. p)
    OBVIOUS
  <2> HIDE DEF A, B
  <2> QED BY <2>1, <2>2, FS_Subset
<1>2. B = IF Tok(p) = c THEN A \cup {p} ELSE A
  OBVIOUS
<1>3. p \notin A
  OBVIOUS
<1> HIDE DEF A, B
<1>4. Cardinality(A) \in Nat /\ Cardinality(B) \in Nat
  BY <1>1, FS_CardinalityType
<1>5. Cardinality(B) = Cardinality(A) + (IF Tok(p) = c THEN 1 ELSE 0)
  BY <1>1, <1>2, <1>3, <1>4, FS_AddElement
<1> QED BY <1>1, <1>4, <1>5 DEF A, B

LEMMA DepthFacts ==
  /\ Depth(1) = 0
  /\ \A p \in Nat : p >= 1 =>
       /\ Depth(p) \in Int
       /\ Tok(p) = "{" => Depth(p + 1) = Depth(p) + 1
       /\ Tok(p) = "}" => Depth(p + 1) = Depth(p) - 1
<1>1. Depth(1) = 0
  <2>1. Opened(0) = {} /\ Closed(0) = {}
    BY DEF Opened, Closed
  <2> QED BY <2>1, FS_EmptySet DEF Depth
<1>2. ASSUME NEW p \in Nat, p >= 1
      PROVE  /\ Depth(p) \in Int
             /\ Tok(p) = "{" => Depth(p + 1) = Depth(p) + 1
             /\ Tok(p) = "}" => Depth(p + 1) = Depth(p) - 1
  <2>1. Cardinality(Opened(p)) = Cardinality(Opened(p - 1)) + (IF Tok(p) = "{" THEN 1 ELSE 0)
    BY <1>2, CountStep DEF Opened
  <2>2. Cardinality(Closed(p)) = Cardinality(Closed(p - 1)) + (IF Tok(p) = "}" THEN 1 ELSE 0)
    BY <1>2, CountStep DEF Closed
  <2>3. Cardinality(Opened(p - 1)) \in Nat /\ Cardinality(Closed(p - 1)) \in Nat
    <3>1. CASE p = 1
      <4>1. Opened(p - 1) = {} /\ Closed(p - 1) = {}
        BY <3>1 DEF Opened, Closed
      <4> QED BY <4>1, FS_EmptySet
    <3>2. CASE p # 1
      <4>1. p - 1 \in Nat /\ p - 1 >= 1
        BY <1>2, <3>2
      <4> QED BY <4>1, CountStep DEF Opened, Closed
    <3> QED BY <3>1, <3>2
  <2>4. (p + 1) - 1 = p
    OBVIOUS
  <2>5. Depth(p + 1) = Cardinality(Opened(p)) - Cardinality(Closed(p))
    BY <2>4 DEF Depth
  <2>6. Depth(p) = Cardinality(Opened(p - 1)) - Cardinality(Closed(p - 1))
    BY DEF Depth
  <2>7. PICK a \in Nat, b \in Nat :
          a = Cardinality(Opened(p - 1)) /\ b = Cardinality(Closed(p - 1))
    BY <2>3
  <2>8. Depth(p) = a - b
    BY <2>6, <2>7
  <2>9. ASSUME Tok(p) = "{" PROVE Depth(p + 1) = Depth(p) + 1
    <3>1. Tok(p) # "}"
      BY <2>9
    <3>2. Cardinality(Opened(p)) = a + 1
      BY <2>1, <2>7, <2>9
    <3>3. Cardinality(Closed(p)) = b + 0
      BY <2>2, <2>7, <3>1
    <3>4. Depth(p + 1) = (a + 1) - (b + 0)
      BY <2>5, <3>2, <3>3
    <3> QED BY <2>8, <3>4
  <2>10. ASSUME Tok(p) = "}" PROVE Depth(p + 1) = Depth(p) - 1
    <3>1. Tok(p) # "{"
      BY <2>10
    <3>2. Cardinality(Opened(p)) = a + 0
      BY <2>1, <2>7, <3>1
    <3>3. Cardinality(Closed(p)) = b + 1
      BY <2>2, <2>7, <2>10
    <3>4. Depth(p + 1) = (a + 0) - (b + 1)
      BY <2>5, <3>2, <3>3
    <3> QED BY <2>8, <3>4
  <2>11. Depth(p) \in Int
    BY <2>8
  <2> QED BY <2>9, <2>10, <2>11
<1> QED BY <1>1, <1>2

\* No position up to m is at a negative depth.
Above(m) == \A p \in 1 .. m : Depth(p) >= 0

\* What holds no brace changes nothing.
LEMMA FlatFacts ==
  ASSUME NEW p \in Nat, p >= 1, NEW q \in Nat, q >= p, Above(p),
         \A k \in p .. q - 1 : Tok(k) \notin Braces
  PROVE  Depth(q) = Depth(p) /\ Above(q)
<1>1. \A k \in p .. q : Opened(k - 1) = Opened(p - 1) /\ Closed(k - 1) = Closed(p - 1)
  <2> TAKE k \in p .. q
  <2>1. \A j \in 1 .. k - 1 : j \in 1 .. p - 1 \/ j \in p .. q - 1
    OBVIOUS
  <2>2. \A j \in 1 .. p - 1 : j \in 1 .. k - 1
    OBVIOUS
  <2>3. ASSUME NEW c \in Braces
        PROVE  {j \in 1 .. k - 1 : Tok(j) = c} = {j \in 1 .. p - 1 : Tok(j) = c}
    <3>1. \A j \in p .. q - 1 : Tok(j) # c
      OBVIOUS
    <3>2. \A j : j \in 1 .. k - 1 /\ Tok(j) = c <=> j \in 1 .. p - 1 /\ Tok(j) = c
      BY <2>1, <2>2, <3>1
    <3> QED BY <3>2, Zenon
  <2>4. "{" \in Braces /\ "}" \in Braces
    BY DEF Braces
  <2> QED BY <2>3, <2>4 DEF Opened, Closed
<1>2. \A k \in p .. q : Depth(k) = Depth(p)
  BY <1>1 DEF Depth
<1>3. p \in 1 .. p /\ q \in p .. q /\ \A k \in 1 .. q : k \in 1 .. p \/ k \in p .. q
  OBVIOUS
<1> QED BY <1>2, <1>3 DEF Above

\* A brace is one step up or down.
LEMMA StepAbove ==
  ASSUME NEW p \in Nat, p >= 1, Above(p), Depth(p + 1) >= 0
  PROVE  Above(p + 1)
<1>1. \A k \in 1 .. p + 1 : k \in 1 .. p \/ k = p + 1
  OBVIOUS
<1> QED BY <1>1 DEF Above

-----------------------------------------------------------------------------
(* The brackets of the calls *)

IsText(f) == f.kind \in {"root", "arg"}

\* The depth at which a call of text() reads: its own open brackets, the one it
\* was called for included, and those around that.
Level(f) == IF f.kind = "root" THEN f.balance - 1 ELSE Depth(f.mark) + f.balance

\* The text that goes on when all calls above the i-th one have returned reads
\* at depth d.
Under(s, i, d) ==
  \A j \in i .. Len(s) :
    IsText(s[j]) /\ (\A k \in i .. j - 1 : ~IsText(s[k])) => Level(s[j]) = d

\* An argument began at the depth of the text around it, which it may go back to.
Nested(s) ==
  \A i \in 1 .. Len(s) : s[i].kind = "arg" =>
    /\ Above(s[i].mark)
    /\ Under(s, i + 1, Depth(s[i].mark))

Levels(s, m) == Above(m) /\ Under(s, 1, Depth(m)) /\ Nested(s)

LEMMA UnderFacts ==
  ASSUME NEW s, NEW i \in Nat, NEW d, i \in 1 .. Len(s), Len(s) \in Nat
  PROVE  /\ IsText(s[i]) => (Under(s, i, d) <=> Level(s[i]) = d)
         /\ ~IsText(s[i]) => (Under(s, i, d) <=> Under(s, i + 1, d))
<1>1. ASSUME IsText(s[i]) PROVE Under(s, i, d) <=> Level(s[i]) = d
  <2>1. i \in i .. Len(s) /\ i .. i - 1 = {}
    OBVIOUS
  <2>2. \A j \in i .. Len(s) : j = i \/ i \in i .. j - 1
    OBVIOUS
  <2> QED BY <1>1, <2>1, <2>2 DEF Under
<1>2. ASSUME ~IsText(s[i]) PROVE Under(s, i, d) <=> Under(s, i + 1, d)
  <2>1. \A j \in i .. Len(s) : j = i \/ j \in i + 1 .. Len(s)
    OBVIOUS
  <2>2. \A j \in i + 1 .. Len(s) : j \in i .. Len(s)
    OBVIOUS
  <2>3. \A j \in i + 1 .. Len(s) :
          (\A k \in i .. j - 1 : ~IsText(s[k])) <=> (\A k \in i + 1 .. j - 1 : ~IsText(s[k]))
    <3> TAKE j \in i + 1 .. Len(s)
    <3>1. \A k \in i .. j - 1 : k = i \/ k \in i + 1 .. j - 1
      OBVIOUS
    <3>2. \A k \in i + 1 .. j - 1 : k \in i .. j - 1
      OBVIOUS
    <3> QED BY <1>2, <3>1, <3>2
  <2> QED BY <1>2, <2>1, <2>2, <2>3 DEF Under
<1> QED BY <1>1, <1>2

\* t is s with one more call on it.
LEMMA UnderShift ==
  ASSUME NEW s, NEW t, Len(s) \in Nat, Len(t) = Len(s) + 1,
         \A i \in 1 .. Len(s) : t[i + 1] = s[i],
         NEW i \in Nat, i >= 1, NEW d
  PROVE  Under(t, i + 1, d) <=> Under(s, i, d)
<1>1. ASSUME NEW j \in i .. Len(s)
      PROVE  /\ j + 1 \in i + 1 .. Len(t) /\ t[j + 1] = s[j]
             /\ (\A k \in i + 1 .. (j + 1) - 1 : ~IsText(t[k])) <=>
                (\A k \in i .. j - 1 : ~IsText(s[k]))
  <2>1. j + 1 \in i + 1 .. Len(t) /\ t[j + 1] = s[j]
    OBVIOUS
  <2>2. \A k \in i .. j - 1 : k + 1 \in i + 1 .. (j + 1) - 1 /\ t[k + 1] = s[k]
    OBVIOUS
  <2>3. \A k \in i + 1 .. (j + 1) - 1 : k - 1 \in i .. j - 1 /\ t[k] = s[k - 1]
    <3> TAKE k \in i + 1 .. (j + 1) - 1
    <3>1. PICK h \in 1 .. Len(s) : h = k - 1
      OBVIOUS
    <3> QED BY <3>1
  <2> QED BY <2>1, <2>2, <2>3
<1>2. \A j \in i + 1 .. Len(t) : j - 1 \in i .. Len(s) /\ (j - 1) + 1 = j
  OBVIOUS
<1>3. ASSUME Under(t, i + 1, d) PROVE Under(s, i, d)
  BY <1>1, <1>3 DEF Under
<1>4. ASSUME Under(s, i, d) PROVE Under(t, i + 1, d)
  <2> SUFFICES ASSUME NEW j \in i + 1 .. Len(t), IsText(t[j]),
                      \A k \in i + 1 .. j - 1 : ~IsText(t[k])
               PROVE  Level(t[j]) = d
    BY DEF Under
  <2>1. PICK h \in i .. Len(s) : j = h + 1
    BY <1>2
  <2> QED BY <1>1, <1>4, <2>1 DEF Under
<1> QED BY <1>3, <1>4

LEMMA LevelsFlat ==
  ASSUME NEW s, NEW m \in Nat, m >= 1, NEW n \in Nat, n >= m, Levels(s, m),
         \A k \in m .. n - 1 : Tok(k) \notin Braces
  PROVE  Levels(s, n)
<1>1. Depth(n) = Depth(m) /\ Above(n)
  BY FlatFacts DEF Levels
<1> QED BY <1>1 DEF Levels

\* The innermost call returns.
LEMMA UnderPop ==
  ASSUME NEW s \in Seq(Frames), s # <<>>, Nested(s)
  PROVE  /\ Nested(Tail(s))
         /\ \A d : ~IsText(Head(s)) /\ Under(s, 1, d) => Under(Tail(s), 1, d)
         /\ Head(s).kind = "arg" =>
              Above(Head(s).mark) /\ Under(Tail(s), 1, Depth(Head(s).mark))
<1> DEFINE t == Tail(s)
<1>1. /\ Head(s) = s[1] /\ Len(s) \in Nat /\ Len(t) \in Nat /\ Len(s) = Len(t) + 1
      /\ \A i \in 1 .. Len(t) : s[i + 1] = t[i]
  BY PopFacts
<1> HIDE DEF t
<1>2. ASSUME NEW i \in Nat, i >= 1, NEW d PROVE Under(s, i + 1, d) <=> Under(t, i, d)
  BY <1>1, <1>2, UnderShift
<1>3. ASSUME NEW i \in 1 .. Len(t), t[i].kind = "arg"
      PROVE  Above(t[i].mark) /\ Under(t, i + 1, Depth(t[i].mark))
  <2>1. PICK h \in 1 .. Len(s) : h = i + 1 /\ s[h] = t[i]
    BY <1>1
  <2>2. Above(t[i].mark) /\ Under(s, h + 1, Depth(t[i].mark))
    BY <1>3, <2>1 DEF Nested
  <2>3. h \in Nat /\ h >= 1 /\ i \in Nat /\ i + 1 \in Nat /\ i + 1 >= 1
    BY <1>1
  <2> QED BY <1>2, <2>1, <2>2, <2>3
<1>4. 1 \in Nat /\ 1 \in 1 .. Len(s) /\ 1 >= 1
  BY <1>1
<1>5. ASSUME NEW d, ~IsText(Head(s)), Under(s, 1, d) PROVE Under(t, 1, d)
  <2>1. Under(s, 1 + 1, d)
    BY <1>1, <1>4, <1>5, UnderFacts
  <2> QED BY <1>2, <1>4, <2>1
<1>6. ASSUME Head(s).kind = "arg"
      PROVE  Above(Head(s).mark) /\ Under(t, 1, Depth(Head(s).mark))
  <2>1. Above(s[1].mark) /\ Under(s, 1 + 1, Depth(s[1].mark))
    BY <1>1, <1>4, <1>6 DEF Nested
  <2> QED BY <1>1, <1>2, <1>4, <2>1
<1> QED BY <1>3, <1>5, <1>6 DEF Nested, t

LEMMA LevelsPop ==
  ASSUME NEW s \in Seq(Frames), s # <<>>, ~IsText(Head(s)), NEW m, Levels(s, m)
  PROVE  Levels(Tail(s), m)
BY UnderPop DEF Levels

\* A call of text() begins, or goes on with another balance: s is below.
LEMMA LevelsText ==
  ASSUME NEW s \in Seq(Frames), NEW f \in Frames, IsText(f), NEW m, Above(m), Nested(s),
         Level(f) = Depth(m),
         f.kind = "arg" => Above(f.mark) /\ Under(s, 1, Depth(f.mark))
  PROVE  Levels(<<f>> \o s, m)
<1> DEFINE t == <<f>> \o s
<1>1. /\ t[1] = f /\ Len(s) \in Nat /\ Len(t) = Len(s) + 1
      /\ \A i \in 1 .. Len(s) : t[i + 1] = s[i]
  BY PushFacts
<1> HIDE DEF t
<1>2. ASSUME NEW i \in Nat, i >= 1, NEW d PROVE Under(t, i + 1, d) <=> Under(s, i, d)
  BY <1>1, <1>2, UnderShift
<1>3. 1 \in Nat /\ 1 \in 1 .. Len(t) /\ Len(t) \in Nat
  BY <1>1
<1>4. Under(t, 1, Depth(m))
  BY <1>1, <1>3, UnderFacts
<1>5. ASSUME NEW i \in 1 .. Len(t), t[i].kind = "arg"
      PROVE  Above(t[i].mark) /\ Under(t, i + 1, Depth(t[i].mark))
  <2>1. CASE i = 1
    BY <1>1, <1>2, <1>3, <1>5, <2>1
  <2>2. CASE i # 1
    <3>1. PICK h \in 1 .. Len(s) : i = h + 1 /\ t[i] = s[h]
      <4>1. i - 1 \in 1 .. Len(s) /\ i = (i - 1) + 1
        BY <1>1, <2>2
      <4> QED BY <1>1, <4>1
    <3>2. Above(s[h].mark) /\ Under(s, h + 1, Depth(s[h].mark))
      BY <1>5, <3>1 DEF Nested
    <3>3. i \in Nat /\ i >= 1
      BY <1>1
    <3> QED BY <1>2, <3>1, <3>2, <3>3
  <2> QED BY <2>1, <2>2
<1> QED BY <1>4, <1>5 DEF Levels, Nested, t

\* Any other call begins.
LEMMA LevelsPush ==
  ASSUME NEW s \in Seq(Frames), NEW f \in Frames, ~IsText(f), NEW m, Levels(s, m)
  PROVE  Levels(<<f>> \o s, m)
<1> DEFINE t == <<f>> \o s
<1>1. /\ t[1] = f /\ Len(s) \in Nat /\ Len(t) = Len(s) + 1
      /\ \A i \in 1 .. Len(s) : t[i + 1] = s[i]
  BY PushFacts
<1> HIDE DEF t
<1>2. ASSUME NEW i \in Nat, i >= 1, NEW d PROVE Under(t, i + 1, d) <=> Under(s, i, d)
  BY <1>1, <1>2, UnderShift
<1>3. 1 \in Nat /\ 1 >= 1 /\ 1 \in 1 .. Len(t) /\ Len(t) \in Nat
  BY <1>1
<1>4. Under(t, 1, Depth(m))
  <2>1. Under(t, 1 + 1, Depth(m))
    BY <1>2, <1>3 DEF Levels
  <2> QED BY <1>1, <1>3, <2>1, UnderFacts
<1>5. ASSUME NEW i \in 1 .. Len(t), t[i].kind = "arg"
      PROVE  Above(t[i].mark) /\ Under(t, i + 1, Depth(t[i].mark))
  <2>1. i # 1
    BY <1>1, <1>5 DEF IsText
  <2>2. PICK h \in 1 .. Len(s) : i = h + 1 /\ t[i] = s[h]
    <3>1. i - 1 \in 1 .. Len(s) /\ i = (i - 1) + 1
      BY <1>1, <2>1
    <3> QED BY <1>1, <3>1
  <2>3. Above(s[h].mark) /\ Under(s, h + 1, Depth(s[h].mark))
    BY <1>5, <2>2 DEF Nested, Levels
  <2>4. i \in Nat /\ i >= 1
    BY <1>1
  <2> QED BY <1>2, <2>2, <2>3, <2>4
<1> QED BY <1>4, <1>5 DEF Levels, Nested, t

-----------------------------------------------------------------------------
(* Each action keeps the levels *)

LEMMA PlainFacts ==
  ASSUME Machine, Plain
  PROVE  /\ \A p : Tok(p) # "|" /\ Tok(p) # "%"
         /\ \A p \in Positions : Comments(p, <<>>) = {}
         /\ IsText(Top) => Top.escape = <<>>
<1>1. InputOK
  BY DEF Machine
<1>2. ASSUME NEW p PROVE Tok(p) # "|" /\ Tok(p) # "%"
  <2>1. CASE p \in 1 .. Len(input)
    BY <2>1 DEF Plain
  <2>2. CASE p \notin 1 .. Len(input)
    BY <2>2 DEF Tok
  <2> QED BY <2>1, <2>2
<1>3. ASSUME NEW p \in Positions, NEW r \in Comments(p, <<>>) PROVE FALSE
  <2>1. Len(<<>>) = 0 /\ <<>> \o <<"@", "%">> = <<"@", "%">>
        /\ Len(<<"@", "%">>) = 2 /\ <<"@", "%">>[2] = "%"
    OBVIOUS
  <2>2. HasAt(p, <<"@", "%">>)
    BY <1>1, <1>3, <2>1, CommentFacts
  <2>3. Tok(p + 2 - 1) = "%"
    BY <2>1, <2>2 DEF HasAt
  <2> QED BY <1>2, <2>3
<1>4. IsText(Top) => Top.escape = <<>>
  BY <1>2, TopFacts DEF IsText, FrameOK
<1> QED BY <1>2, <1>3, <1>4

\* The brackets of a text without escape.
LEMMA PlainBrackets ==
  /\ Len(Opening(<<>>)) = 1 /\ Len(Closing(<<>>)) = 1
  /\ \A p \in Nat : HasAt(p, Opening(<<>>)) <=> Tok(p) = "{"
  /\ \A p \in Nat : HasAt(p, Closing(<<>>)) <=> Tok(p) = "}"
<1>1. Opening(<<>>) = <<"{">>
  BY DEF Opening
<1>2. Closing(<<>>) = <<"}">>
  <2>1. [k \in 1 .. Len(<<>>) |-> Mirrored[<<>>[Len(<<>>) + 1 - k]]] = <<>>
    <3>1. Len(<<>>) = 0 /\ 1 .. 0 = {}
      OBVIOUS
    <3>2. \A f : f = [k \in 1 .. 0 |-> Mirrored[<<>>[Len(<<>>) + 1 - k]]] => f = <<>>
      <4> TAKE f
      <4> HAVE f = [k \in 1 .. 0 |-> Mirrored[<<>>[Len(<<>>) + 1 - k]]]
      <4>1. f \in [1 .. 0 -> Nat]
        BY <3>1
      <4>2. f \in Seq(Nat)
        BY <4>1
      <4>3. Len(f) = 0
        BY <4>1, <4>2
      <4> QED BY <4>2, <4>3, EmptySeq
    <3> QED BY <3>1, <3>2
  <2>2. <<"}">> \o <<>> = <<"}">>
    OBVIOUS
  <2> QED BY <2>1, <2>2 DEF Closing
<1>3. ASSUME NEW c, NEW p \in Nat PROVE HasAt(p, <<c>>) <=> Tok(p) = c
  <2>1. Len(<<c>>) = 1 /\ <<c>>[1] = c /\ p + 1 - 1 = p
    OBVIOUS
  <2>2. \A k \in 1 .. 1 : k = 1
    OBVIOUS
  <2>3. 1 \in 1 .. 1
    OBVIOUS
  <2> QED BY <2>1, <2>2, <2>3 DEF HasAt
<1>4. Len(<<"{">>) = 1 /\ Len(<<"}">>) = 1
  OBVIOUS
<1>5. \A p \in Nat : HasAt(p, <<"{">>) <=> Tok(p) = "{"
  BY <1>3
<1>6. \A p \in Nat : HasAt(p, <<"}">>) <=> Tok(p) = "}"
  BY <1>3
<1> QED BY <1>1, <1>2, <1>4, <1>5, <1>6, Zenon

LEMMA SkippedFlat ==
  ASSUME Machine, Plain, NEW p \in Skipped(pos)
  PROVE  /\ p \in Positions /\ p >= pos /\ p \in Nat
         /\ \A k \in pos .. p - 1 : Tok(k) \notin Braces
<1>1. InputOK /\ pos \in Positions
  BY DEF Machine, InputOK
<1>2. /\ p \in Positions /\ p >= pos /\ p \in Nat
      /\ \A k \in pos .. p - 1 : Skips(k)
  BY <1>1, SkippedFacts
<1>3. ASSUME NEW k \in pos .. p - 1 PROVE Tok(k) \notin Braces
  <2>1. Tok(k) \in Spaces
    BY <1>2, PlainFacts DEF Skips
  <2> QED BY <2>1 DEF Spaces, Braces
<1> QED BY <1>2, <1>3

\* The innermost text, and what is around it.
LEMMA TextLevel ==
  ASSUME Machine, IsText(Top), Levels(stack, pos)
  PROVE  /\ Level(Top) = Depth(pos) /\ Depth(pos) \in Int /\ Above(pos)
         /\ Top \in TextFrames /\ Below \in Seq(Frames) /\ Nested(Below)
         /\ Top.balance \in Nat /\ Top.balance > 0
         /\ Top.kind = "arg" =>
              /\ Above(Top.mark) /\ Under(Below, 1, Depth(Top.mark))
              /\ Top.mark \in Nat /\ Depth(Top.mark) \in Int /\ Depth(Top.mark) >= 0
<1>1. /\ stack \in Seq(Frames) /\ stack # <<>> /\ Top = Head(stack) /\ Top = stack[1]
      /\ Top \in TextFrames /\ Top.balance > 0 /\ FrameOK(Top, Len(out))
  BY TopFacts DEF IsText
<1>2. Len(stack) \in Nat /\ 1 \in 1 .. Len(stack) /\ Below \in Seq(Frames)
  BY <1>1, PopFacts DEF Below
<1>3. Level(Top) = Depth(pos)
  BY <1>1, <1>2, UnderFacts DEF Levels
<1>4. pos \in Nat /\ pos >= 1
  BY TokFacts DEF Machine
<1>5. Above(pos) /\ Depth(pos) \in Int
  BY <1>4, DepthFacts DEF Levels
<1>6. Top.balance \in Nat
  BY <1>1 DEF TextFrames
<1>7. Nested(Below) /\ (Top.kind = "arg" => Above(Top.mark) /\ Under(Below, 1, Depth(Top.mark)))
  BY <1>1, UnderPop DEF Levels, Below
<1>8. ASSUME Top.kind = "arg"
      PROVE  Top.mark \in Nat /\ Depth(Top.mark) \in Int /\ Depth(Top.mark) >= 0
  <2>1. Top.mark \in Nat /\ Top.mark >= 1
    BY <1>1, <1>8, TokFacts DEF FrameOK, Positions, Machine
  <2>2. Top.mark \in 1 .. Top.mark
    BY <2>1
  <2> QED BY <1>7, <1>8, <2>1, <2>2, DepthFacts DEF Above
<1> QED BY <1>1, <1>2, <1>3, <1>5, <1>6, <1>7, <1>8

\* A brace that belongs to the text changes depth and balance alike.
LEMMA BraceLevels ==
  ASSUME Machine, IsText(Top), Levels(stack, pos),
         NEW b \in Nat, b = Top.balance, NEW n \in Nat, n > 0,
         NEW d \in Int, d = Depth(pos), NEW x \in Int, x = Depth(pos + 1), x - d = n - b
  PROVE  Levels(<<[Top EXCEPT !.balance = n]>> \o Below, pos + 1)
<1> DEFINE f == [Top EXCEPT !.balance = n]
<1>1. /\ Level(Top) = d /\ Above(pos)
      /\ Top \in TextFrames /\ Below \in Seq(Frames) /\ Nested(Below)
      /\ Top.kind = "arg" => /\ Above(Top.mark) /\ Under(Below, 1, Depth(Top.mark))
                             /\ Depth(Top.mark) \in Int /\ Depth(Top.mark) >= 0
  BY TextLevel
<1>2. /\ f \in Frames /\ f.kind = Top.kind /\ f.mark = Top.mark /\ f.balance = n
      /\ Top.kind \in {"root", "arg"}
  BY <1>1 DEF TextFrames, Frames
<1> HIDE DEF f
<1>3. pos \in Nat /\ pos >= 1
  BY TokFacts DEF Machine
<1>4. Level(f) = x /\ x >= 0
  <2>1. CASE Top.kind = "root"
    <3>1. d = b - 1
      BY <1>1, <2>1 DEF Level
    <3>2. x = n - 1 /\ n - 1 >= 0
      BY <3>1
    <3>3. Level(f) = n - 1
      BY <1>2, <2>1 DEF Level
    <3> QED BY <3>2, <3>3
  <2>2. CASE Top.kind = "arg"
    <3>1. PICK e \in Int : e = Depth(Top.mark) /\ e >= 0
      BY <1>1, <2>2
    <3>2. d = e + b
      BY <1>1, <2>2, <3>1 DEF Level
    <3>3. x = e + n /\ e + n >= 0
      BY <3>1, <3>2
    <3>4. Level(f) = e + n
      BY <1>2, <2>2, <3>1 DEF Level
    <3> QED BY <3>3, <3>4
  <2> QED BY <1>2, <2>1, <2>2
<1>5. Above(pos + 1)
  BY <1>1, <1>3, <1>4, StepAbove
<1> QED BY <1>1, <1>2, <1>4, <1>5, LevelsText DEF IsText, f

\* A token that is no brace, behind what holds none.
LEMMA LevelsPast ==
  ASSUME Machine, NEW p \in Nat, p >= pos, \A k \in pos .. p - 1 : Tok(k) \notin Braces,
         Tok(p) \notin Braces, NEW s, Levels(s, pos)
  PROVE  Levels(s, p + 1)
<1>1. pos \in Nat /\ pos >= 1 /\ p + 1 \in Nat /\ p + 1 >= pos
  BY TokFacts DEF Machine
<1>2. \A k \in pos .. p + 1 - 1 : k \in pos .. p - 1 \/ k = p
  BY <1>1
<1>3. \A k \in pos .. p + 1 - 1 : Tok(k) \notin Braces
  BY <1>2
<1> QED BY <1>1, <1>3, LevelsFlat

LEMMA CommandLevels ==
  ASSUME Machine, NEW name \in Nat, name >= pos, \A k \in pos .. name - 1 : Tok(k) \notin Braces,
         NEW s \in Seq(Frames), Levels(s, pos), StartCommand(name, s)
  PROVE  Panic \/ Levels(stack', pos')
<1> SUFFICES ASSUME ~Panic PROVE Levels(stack', pos')
  OBVIOUS
<1> DEFINE f == [kind |-> "command", square |-> TRUE]
<1>1. IsIdentifier(name) /\ pos' = name + 1 /\ stack' = <<f>> \o s
  BY DEF StartCommand
<1>2. f \in Frames /\ ~IsText(f)
  BY DEF Frames, CommandFrames, IsText
<1> HIDE DEF f
<1>3. Levels(<<f>> \o s, pos)
  BY <1>2, LevelsPush
<1>4. Tok(name) \notin Braces
  BY <1>1 DEF IsIdentifier, Braces
<1>5. Levels(<<f>> \o s, name + 1)
  BY <1>3, <1>4, LevelsPast
<1> QED BY <1>1, <1>5

LEMMA EndArgumentLevels ==
  ASSUME Machine, Plain, EndArgument, Levels(stack, pos)
  PROVE  Levels(stack', pos')
<1>1. IsText(Top) /\ Top.kind = "arg" /\ pos \in Nat /\ pos >= 1
  BY TokFacts DEF EndArgument, Parses, IsText, Machine
<1>2. Top.escape = <<>>
  BY <1>1, PlainFacts
<1>3. Tok(pos) = "}" /\ pos' = pos + 1 /\ stack' = Below
  BY <1>1, <1>2, PlainBrackets DEF EndArgument, AtClosing
<1>4. /\ Level(Top) = Depth(pos) /\ Above(pos) /\ Nested(Below) /\ Top.balance \in Nat
      /\ Top.balance > 0 /\ Depth(Top.mark) \in Int /\ Depth(Top.mark) >= 0
      /\ Under(Below, 1, Depth(Top.mark))
  BY <1>1, TextLevel
<1>5. Top.balance = 1
  <2>1. PICK b \in Nat : b = Top.balance
    BY <1>4
  <2>2. b > 0 /\ ~(b - 1 > 0)
    BY <1>4, <2>1 DEF EndArgument, IsInner
  <2> QED BY <2>1, <2>2
<1>6. PICK e \in Int : e = Depth(Top.mark) /\ e >= 0
  BY <1>4
<1>7. Depth(pos) = e + 1
  BY <1>1, <1>4, <1>5, <1>6 DEF Level
<1>8. Depth(pos + 1) = e
  <2>1. Depth(pos + 1) = Depth(pos) - 1
    BY <1>1, <1>3, DepthFacts
  <2> QED BY <1>7, <2>1
<1>9. Above(pos + 1)
  BY <1>1, <1>4, <1>6, <1>8, StepAbove
<1> QED BY <1>3, <1>4, <1>6, <1>8, <1>9 DEF Levels

LEMMA BracesLevels ==
  ASSUME Machine, Plain, OpenBrace \/ CloseBrace, Levels(stack, pos)
  PROVE  Levels(stack', pos')
<1>1. IsText(Top) /\ pos \in Nat /\ pos >= 1
  BY TokFacts DEF OpenBrace, CloseBrace, ParsesText, Parses, IsText, Machine
<1>2. Top.escape = <<>>
  BY <1>1, PlainFacts
<1>3. PICK b \in Nat, d \in Int : b = Top.balance /\ d = Depth(pos)
  BY <1>1, TextLevel
<1>4. CASE OpenBrace
  <2>1. /\ Tok(pos) = "{" /\ pos' = pos + 1
        /\ stack' = <<[Top EXCEPT !.balance = b + 1]>> \o Below
    BY <1>1, <1>2, <1>3, <1>4, PlainBrackets DEF OpenBrace, AtOpening, Brace
  <2>2. Depth(pos + 1) = Depth(pos) + 1
    BY <1>1, <2>1, DepthFacts
  <2>3. PICK x \in Int : x = Depth(pos + 1) /\ x - d = (b + 1) - b
    BY <1>3, <2>2
  <2>4. b + 1 \in Nat /\ b + 1 > 0
    OBVIOUS
  <2>5. Levels(<<[Top EXCEPT !.balance = b + 1]>> \o Below, pos + 1)
    BY <1>1, <1>3, <2>3, <2>4, BraceLevels
  <2> QED BY <2>1, <2>5
<1>5. CASE CloseBrace
  <2>1. /\ Tok(pos) = "}" /\ pos' = pos + 1
        /\ stack' = <<[Top EXCEPT !.balance = b - 1]>> \o Below
    BY <1>1, <1>2, <1>3, <1>5, PlainBrackets DEF CloseBrace, AtClosing, Brace
  <2>6. b - 1 > 0
    BY <1>3, <1>5 DEF CloseBrace, IsInner
  <2>2. Depth(pos + 1) = Depth(pos) - 1
    BY <1>1, <2>1, DepthFacts
  <2>3. PICK x \in Int : x = Depth(pos + 1) /\ x - d = (b - 1) - b
    BY <1>3, <2>2
  <2>4. b - 1 \in Nat /\ b - 1 > 0
    BY <2>6
  <2>5. Levels(<<[Top EXCEPT !.balance = b - 1]>> \o Below, pos + 1)
    BY <1>1, <1>3, <2>3, <2>4, BraceLevels
  <2> QED BY <2>1, <2>5
<1> QED BY <1>4, <1>5

LEMMA GenericTextLevels ==
  ASSUME Machine, Plain, GenericText, Levels(stack, pos)
  PROVE  Levels(stack', pos')
<1>1. IsText(Top) /\ pos \in Nat /\ pos >= 1 /\ Len(input) \in Nat
  BY TokFacts DEF GenericText, InContent, ParsesText, Parses, IsText, Machine
<1>2. Top.escape = <<>>
  BY <1>1, PlainFacts
<1>3. Tok(pos) \notin Braces
  BY <1>1, <1>2, PlainBrackets DEF GenericText, InContent, AtOpening, AtClosing, Braces
<1>4. PICK q \in TextEnds(pos) : pos' = q /\ stack' = stack
  BY DEF GenericText
<1>5. q \in pos + 1 .. Len(input) + 1 /\ \A k \in pos + 1 .. q - 1 : Tok(k) \notin Special
  BY DEF TextEnds
<1>6. q \in Nat /\ q >= pos /\ \A k \in pos .. q - 1 : k = pos \/ k \in pos + 1 .. q - 1
  BY <1>1, <1>5
<1>7. \A k \in pos .. q - 1 : Tok(k) \notin Braces
  BY <1>3, <1>5, <1>6 DEF Special, Braces
<1>8. Levels(stack, q)
  BY <1>1, <1>6, <1>7, LevelsFlat
<1> QED BY <1>4, <1>8

\* The parser goes back to where the text around the argument read.
LEMMA UnclosedLevels ==
  ASSUME Machine, UnclosedArgument, ~Panic, Levels(stack, pos)
  PROVE  Levels(stack', pos')
<1>1. Top.kind = "arg" /\ pos' = Top.mark /\ stack' = Tail(Below)
  BY DEF UnclosedArgument, Parses, Resumed, Callers
<1>2. /\ Above(Top.mark) /\ Under(Below, 1, Depth(Top.mark)) /\ Nested(Below)
      /\ Below \in Seq(Frames)
  BY <1>1, TextLevel DEF IsText
<1>3. Levels(Below, Top.mark)
  BY <1>2 DEF Levels
<1>4. Below # <<>> /\ ~IsText(Head(Below))
  <2>1. stack \in Seq(Frames) /\ stack # <<>> /\ Top = Head(stack) /\ Top = stack[1]
        /\ Len(out) \in Nat
    BY TopFacts
  <2>2. Len(stack) \in Nat /\ 1 \in 1 .. Len(stack) /\ Len(Below) = Len(stack) - 1
        /\ \A i \in 1 .. Len(stack) - 1 : Below[i] = stack[i + 1]
    BY <2>1, PopFacts DEF Below
  <2>3. 1 < Len(stack) /\ stack[1 + 1].kind = "command"
    BY <1>1, <2>1, <2>2 DEF Machine, StackOK
  <2>4. Len(Below) \in Nat /\ Len(Below) >= 1 /\ 1 \in 1 .. Len(stack) - 1
    BY <2>2, <2>3
  <2>5. Below # <<>>
    BY <2>4, NonEmpty, Zenon
  <2>6. Head(Below) = Below[1] /\ Below[1] = stack[1 + 1]
    BY <1>2, <2>2, <2>4, <2>5, PopFacts
  <2> QED BY <2>3, <2>5, <2>6 DEF IsText
<1> QED BY <1>1, <1>2, <1>3, <1>4, LevelsPop

LEMMA TextPartLevels ==
  ASSUME Machine, Plain, TextPart, Levels(stack, pos)
  PROVE  Levels(stack', pos')
<1>1. ASSUME Panic PROVE Levels(stack', pos')
  BY <1>1 DEF Panic
<1>2. pos \in Nat /\ pos >= 1 /\ stack \in Seq(Frames) /\ pos \in Positions
  BY TokFacts, TopFacts DEF Machine, InputOK
<1>3. pos .. pos - 1 = {}
  BY <1>2
<1>4. CASE NewlineNode
  <2>1. Tok(pos) \notin Braces /\ pos' = pos + 1 /\ stack' = stack
    BY <1>4 DEF NewlineNode, Braces
  <2> QED BY <1>2, <1>3, <2>1, LevelsPast
<1>5. CASE Comment
  <2>1. Comments(pos, Top.escape) # {} /\ IsText(Top)
    BY <1>5 DEF Comment, InContent, ParsesText, Parses, IsText
  <2> QED BY <1>2, <2>1, PlainFacts
<1>6. CASE TextCommand
  <2>1. IsText(Top) /\ CommandAt(pos, Top.escape) /\ StartCommand(NameAt(pos, Top.escape), stack)
    BY <1>6 DEF TextCommand, InContent, ParsesText, Parses, IsText
  <2>2. Top.escape = <<>> /\ Len(<<>>) = 0 /\ NameAt(pos, <<>>) = pos + 1
    BY <1>2, <2>1, PlainFacts DEF NameAt
  <2>3. Tok(pos) = "@"
    <3>1. Append(<<>>, "@") = <<"@">> /\ Len(<<"@">>) = 1 /\ <<"@">>[1] = "@"
      OBVIOUS
    <3>2. HasAt(pos, <<"@">>)
      BY <2>1, <2>2, <3>1 DEF CommandAt
    <3>3. 1 \in 1 .. 1 /\ pos + 1 - 1 = pos
      BY <1>2
    <3> QED BY <3>1, <3>2, <3>3 DEF HasAt
  <2>4. \A k \in pos .. pos + 1 - 1 : Tok(k) \notin Braces
    BY <1>2, <2>3 DEF Braces
  <2>5. pos + 1 \in Nat /\ pos + 1 >= pos
    BY <1>2
  <2> QED BY <1>1, <1>2, <2>1, <2>2, <2>4, <2>5, CommandLevels
<1>7. CASE ExtraBrace
  BY <1>1, <1>7 DEF ExtraBrace
<1>8. CASE EndOfFile
  BY <1>8 DEF EndOfFile, Panic
<1> QED BY <1>1, <1>4, <1>5, <1>6, <1>7, <1>8, BracesLevels, EndArgumentLevels, GenericTextLevels,
           UnclosedLevels DEF TextPart

LEMMA CommandPartLevels ==
  ASSUME Machine, Plain, CommandPart, Levels(stack, pos)
  PROVE  Levels(stack', pos')
<1>1. PICK p \in Skipped(pos) :
        \/ Semicolon(p) \/ StartSquare(p)
        \/ \E n \in 0 .. Len(input) : StartArgument(p, n)
        \/ EndCommand(p)
  BY DEF CommandPart
<1>2. /\ p \in Positions /\ p >= pos /\ p \in Nat /\ pos \in Nat /\ pos >= 1
      /\ \A k \in pos .. p - 1 : Tok(k) \notin Braces
  BY SkippedFlat, TokFacts DEF Machine
<1>3. /\ stack \in Seq(Frames) /\ stack # <<>> /\ Top = Head(stack) /\ Top \in CommandFrames
      /\ Below \in Seq(Frames) /\ Below = Tail(stack) /\ ~IsText(Top)
  BY TopFacts, FrameFacts, PopFacts DEF CommandPart, Parses, Below, IsText
<1>4. Levels(Below, pos)
  BY <1>3, LevelsPop
<1>5. PastSquare \in Seq(Frames) /\ Levels(PastSquare, pos)
  <2> DEFINE g == [Top EXCEPT !.square = FALSE]
  <2>1. g \in Frames /\ ~IsText(g)
    BY <1>3 DEF CommandFrames, Frames, IsText
  <2>2. PastSquare = <<g>> \o Below
    BY DEF PastSquare
  <2> HIDE DEF g
  <2> QED BY <1>3, <1>4, <2>1, <2>2, LevelsPush, PushFacts
<1>6. CASE Semicolon(p)
  <2>1. Tok(p) \notin Braces /\ pos' = p + 1 /\ stack' = Below
    BY <1>6 DEF Semicolon, Braces
  <2> QED BY <1>2, <1>4, <2>1, LevelsPast
<1>7. CASE StartSquare(p)
  <2> DEFINE f == [kind |-> "square", stage |-> "start"]
  <2>1. Tok(p) \notin Braces /\ pos' = p + 1 /\ stack' = <<f>> \o PastSquare
    BY <1>7 DEF StartSquare, Braces
  <2>2. f \in Frames /\ ~IsText(f)
    BY DEF Frames, SquareFrames, SquareStages, IsText
  <2> HIDE DEF f
  <2>3. Levels(<<f>> \o PastSquare, pos)
    BY <1>5, <2>2, LevelsPush
  <2> QED BY <1>2, <2>1, <2>3, LevelsPast
<1>8. ASSUME NEW n \in 0 .. Len(input), StartArgument(p, n) PROVE Levels(stack', pos')
  <2> DEFINE f == [kind |-> "arg", escape |-> Escape(p, 0), balance |-> 1,
                   mark |-> pos, kept |-> Len(out)]
  <2>1. n = 0
    <3>1. OpensAt(p, n)
      BY <1>8 DEF StartArgument
    <3>2. n > 0 => Tok(p) = "|"
      BY <3>1 DEF OpensAt
    <3>3. ~(n > 0)
      BY <3>2, PlainFacts
    <3>4. n \in Nat
      BY TokFacts DEF Machine
    <3> QED BY <3>3, <3>4
  <2>2. Tok(p) = "{" /\ pos' = p + 1 /\ stack' = <<f>> \o PastSquare
    <3>1. p + 0 = p /\ p + 0 + 1 = p + 1
      BY <1>2
    <3> QED BY <1>8, <2>1, <3>1 DEF StartArgument, OpensAt
  <2>3. /\ f.kind = "arg" /\ f.balance = 1 /\ f.mark = pos
    OBVIOUS
  <2>4. f \in Frames
    <3>1. Escape(p, 0) = <<>>
      BY <1>2, SubSeqEmpty DEF Escape
    <3>2. <<>> \in Seq(Tokens) /\ Len(out) \in Nat
      BY TopFacts
    <3> QED BY <1>2, <3>1, <3>2 DEF Frames, TextFrames
  <2> HIDE DEF f
  <2>5. Depth(p) = Depth(pos) /\ Above(p)
    BY <1>2, FlatFacts DEF Levels
  <2>6. PICK d \in Int : d = Depth(pos) /\ d >= 0
    <3>1. pos \in 1 .. pos
      BY <1>2
    <3> QED BY <1>2, <3>1, DepthFacts DEF Levels, Above
  <2>7. p >= 1
    BY <1>2
  <2>8. Depth(p + 1) = d + 1
    BY <1>2, <2>2, <2>5, <2>6, <2>7, DepthFacts
  <2>9. d + 1 >= 0
    BY <2>6
  <2>10. Above(p + 1)
    BY <1>2, <2>5, <2>7, <2>8, <2>9, StepAbove
  <2>11. Level(f) = d + 1
    BY <2>3, <2>6 DEF Level
  <2>12. Above(f.mark) /\ Under(PastSquare, 1, Depth(f.mark)) /\ Nested(PastSquare)
    BY <1>5, <2>3 DEF Levels
  <2> QED BY <1>5, <2>2, <2>3, <2>4, <2>8, <2>10, <2>11, <2>12, LevelsText DEF IsText
<1>9. CASE EndCommand(p)
  BY <1>4, <1>9 DEF EndCommand
<1> QED BY <1>1, <1>6, <1>7, <1>8, <1>9

LEMMA SquarePartLevels ==
  ASSUME Machine, Plain, SquarePart, Levels(stack, pos)
  PROVE  Levels(stack', pos')
<1>1. PICK p \in Spaced(pos) :
        \/ SimpleEntry(p) \/ CommandEntry(p) \/ Equals(p) \/ Comma(p)
        \/ EndSquare(p) \/ Malformed(p)
  BY DEF SquarePart
<1>2. pos \in Nat /\ pos >= 1 /\ Len(input) \in Nat
  BY TokFacts DEF Machine
<1>3. p \in Nat /\ p >= pos /\ \A k \in pos .. p - 1 : Tok(k) \notin Braces
  <2>1. p \in pos .. Len(input) + 1 /\ \A k \in pos .. p - 1 : Tok(k) \in Spaces
    BY DEF Spaced
  <2>2. p \in Nat /\ p >= pos
    BY <1>2, <2>1
  <2> QED BY <2>1, <2>2 DEF Spaces, Braces
<1>4. /\ stack \in Seq(Frames) /\ stack # <<>> /\ Top = Head(stack) /\ Top \in SquareFrames
      /\ Below \in Seq(Frames) /\ Below = Tail(stack) /\ ~IsText(Top)
  BY TopFacts, FrameFacts, PopFacts DEF SquarePart, Parses, Below, IsText
<1>5. Levels(Below, pos)
  BY <1>4, LevelsPop
<1>6. ASSUME NEW stage \in SquareStages
      PROVE  Moved(stage) \in Seq(Frames) /\ Levels(Moved(stage), pos)
  <2> DEFINE g == [Top EXCEPT !.stage = stage]
  <2>1. g \in Frames /\ ~IsText(g)
    BY <1>4 DEF SquareFrames, Frames, IsText
  <2>2. Moved(stage) = <<g>> \o Below
    BY DEF Moved
  <2> HIDE DEF g
  <2>3. <<g>> \o Below \in Seq(Frames)
    BY <1>4, <2>1, PushFacts
  <2>4. Levels(<<g>> \o Below, pos)
    BY <1>4, <1>5, <2>1, LevelsPush
  <2> QED BY <2>2, <2>3, <2>4
<1>7. AfterEntry \in SquareStages
  BY DEF AfterEntry, SquareStages
<1>8. CASE SimpleEntry(p) \/ Equals(p) \/ Comma(p)
  <2>1. PICK stage \in SquareStages : pos' = p + 1 /\ stack' = Moved(stage)
    BY <1>7, <1>8 DEF SimpleEntry, Equals, Comma, Consume, SquareStages
  <2>2. Tok(p) \notin Braces
    BY <1>8 DEF SimpleEntry, Equals, Comma, Braces
  <2> QED BY <1>3, <1>6, <2>1, <2>2, LevelsPast
<1>9. CASE CommandEntry(p)
  <2>1. CommandAt(p, <<>>) /\ StartCommand(NameAt(p, <<>>), Moved(AfterEntry))
    BY <1>9 DEF CommandEntry
  <2>2. Len(<<>>) = 0 /\ NameAt(p, <<>>) = p + 1
    BY <1>3 DEF NameAt
  <2>3. Tok(p) = "@"
    <3>1. Append(<<>>, "@") = <<"@">> /\ Len(<<"@">>) = 1 /\ <<"@">>[1] = "@"
      OBVIOUS
    <3>2. HasAt(p, <<"@">>)
      BY <2>1, <3>1 DEF CommandAt
    <3>3. 1 \in 1 .. 1 /\ p + 1 - 1 = p
      BY <1>3
    <3> QED BY <3>1, <3>2, <3>3 DEF HasAt
  <2>4. PICK q \in Nat : q = p + 1
    BY <1>3
  <2>5. q >= pos /\ \A k \in pos .. q - 1 : k \in pos .. p - 1 \/ k = p
    BY <1>2, <1>3, <2>4
  <2>6. \A k \in pos .. q - 1 : Tok(k) \notin Braces
    BY <1>3, <2>3, <2>5 DEF Braces
  <2>7. PICK s : s = Moved(AfterEntry)
    OBVIOUS
  <2>8. s \in Seq(Frames) /\ Levels(s, pos) /\ StartCommand(q, s)
    BY <1>6, <1>7, <2>1, <2>2, <2>4, <2>7
  <2>9. Panic \/ Levels(stack', pos')
    BY <2>5, <2>6, <2>8, CommandLevels
  <2> QED BY <2>9 DEF Panic
<1>10. CASE EndSquare(p)
  <2>1. Tok(p) \notin Braces /\ pos' = p + 1 /\ stack' = Below
    BY <1>10 DEF EndSquare, MayEnd, Braces
  <2> QED BY <1>3, <1>5, <2>1, LevelsPast
<1>11. CASE Malformed(p)
  BY <1>11 DEF Malformed, Panic
<1> QED BY <1>1, <1>8, <1>9, <1>10, <1>11

\* The parser is done at the end of the input, a debug build at depth zero.
LEMMA DoneLevel ==
  ASSUME Machine, Next, Levels(stack, pos), status' = "done",
         status = "done" /\ debug => Depth(pos) = 0
  PROVE  pos' = pos /\ (debug => Depth(pos) = 0)
<1>1. ASSUME Panic PROVE FALSE
  BY <1>1 DEF Panic
<1>2. ASSUME NEW name, NEW s, StartCommand(name, s), status = "parsing" PROVE FALSE
  BY <1>1, <1>2 DEF StartCommand
<1>3. CASE EndOfFile
  <2>1. Top.kind = "root" /\ pos' = pos /\ (debug => Top.balance = 1)
    BY <1>1, <1>3 DEF EndOfFile, Parses, RootMayEnd
  <2>2. Level(Top) = Depth(pos)
    BY <2>1, TextLevel DEF IsText
  <2>3. debug => Level(Top) = 0
    BY <2>1 DEF Level
  <2> QED BY <2>1, <2>2, <2>3
<1>4. CASE TextPart /\ ~EndOfFile
  BY <1>1, <1>2, <1>4 DEF TextPart, OpenBrace, CloseBrace, EndArgument, ExtraBrace, NewlineNode,
                          Comment, TextCommand, GenericText, UnclosedArgument, Brace,
                          InContent, ParsesText, Parses
<1>5. CASE CommandPart
  BY <1>5 DEF CommandPart, Semicolon, StartSquare, StartArgument, EndCommand, Parses
<1>6. CASE SquarePart
  BY <1>1, <1>2, <1>6 DEF SquarePart, SimpleEntry, CommandEntry, Equals, Comma, EndSquare,
                          Malformed, Consume, Parses
<1>7. CASE Stopped
  BY <1>7 DEF Stopped, vars
<1> QED BY <1>3, <1>4, <1>5, <1>6, <1>7 DEF Next

\* Primed, the levels say of the input what they say unprimed.
LEMMA LevelsKept ==
  ASSUME input' = input
  PROVE  /\ \A m : Depth(m)' = Depth(m)
         /\ Plain' <=> Plain
         /\ Levels(stack', pos') => Levels(stack, pos)'
<1>1. \A p : Tok(p)' = Tok(p)
  BY DEF Tok
<1>2. \A m : Depth(m)' = Depth(m)
  BY <1>1 DEF Depth, Opened, Closed
<1>3. \A m : Above(m)' <=> Above(m)
  BY <1>2 DEF Above
<1>4. \A f : Level(f)' = Level(f)
  BY <1>2 DEF Level
<1>5. \A s, i, d : Under(s, i, d)' <=> Under(s, i, d)
  BY <1>4 DEF Under, IsText
<1>6. ASSUME Levels(stack', pos') PROVE Levels(stack, pos)'
  <2>1. Above(pos') /\ Under(stack', 1, Depth(pos')) /\ Nested(stack')
    BY <1>6 DEF Levels
  <2>2. Above(pos)' /\ Under(stack, 1, Depth(pos))'
    BY <1>2, <1>3, <1>4, <2>1 DEF Above, Under, IsText
  <2>3. Nested(stack)'
    BY <1>2, <1>3, <1>4, <2>1 DEF Nested, Above, Under, IsText
  <2> QED BY <2>2, <2>3 DEF Levels
<1>7. Plain' <=> Plain
  BY <1>1 DEF Plain
<1> QED BY <1>2, <1>6, <1>7

\* A file without escapes and comments that is accepted closes no bracket that
\* it has not opened, and by a debug build closes every one.
THEOREM BracketsAreMatched == Spec => []BracketsMatch
<1> DEFINE IInv ==
      /\ Machine
      /\ status = "done" => Tok(pos) = "eof"
      /\ Plain => Levels(stack, pos) /\ (status = "done" /\ debug => Depth(pos) = 0)
<1>1. Init => IInv
  <2> SUFFICES ASSUME Init PROVE IInv
    OBVIOUS
  <2> DEFINE f == [kind |-> "root", escape |-> <<>>, balance |-> 1, mark |-> 1, kept |-> 0]
  <2>1. Machine /\ pos = 1 /\ status = "parsing" /\ stack = <<f>>
    BY MachineInit DEF Init
  <2>2. Len(stack) = 1 /\ stack[1] = f /\ 1 \in 1 .. Len(stack) /\ 1 \in Nat /\ 1 .. 1 = {1}
    BY <2>1
  <2>3. IsText(f) /\ f.kind = "root" /\ Level(f) = 0
    BY DEF IsText, Level
  <2> HIDE DEF f
  <2>4. Depth(1) = 0
    BY DepthFacts
  <2>5. Above(1)
    <3>1. 0 >= 0
      OBVIOUS
    <3> QED BY <2>2, <2>4, <3>1 DEF Above
  <2>6. Under(stack, 1, 0)
    BY <2>2, <2>3, UnderFacts
  <2>7. Nested(stack)
    BY <2>2, <2>3 DEF Nested
  <2> QED BY <2>1, <2>4, <2>5, <2>6, <2>7 DEF Levels
<1>2. IInv /\ [Next]_vars => IInv'
  <2> SUFFICES ASSUME IInv, [Next]_vars PROVE IInv'
    OBVIOUS
  <2>1. Machine'
    BY MachineStep
  <2>2. input' = input /\ debug' = debug
    BY DEF Next, vars, TextPart, OpenBrace, CloseBrace, EndArgument, ExtraBrace, NewlineNode,
           Comment, TextCommand, GenericText, EndOfFile, UnclosedArgument, Brace, Panic,
           StartCommand, CommandPart, Semicolon, StartSquare, StartArgument, EndCommand,
           SquarePart, SimpleEntry, CommandEntry, Equals, Comma, EndSquare, Malformed, Consume,
           Stopped
  <2>3. CASE UNCHANGED vars
    <3>1. Levels(stack, pos) => Levels(stack, pos)'
      <4>1. stack' = stack /\ pos' = pos
        BY <2>3 DEF vars
      <4> QED BY <2>2, <4>1, LevelsKept
    <3>2. Depth(pos)' = Depth(pos)
      BY <2>3 DEF vars, Depth, Opened, Closed, Tok
    <3>3. (status = "done" => Tok(pos) = "eof")'
      BY <2>3 DEF vars, Tok
    <3> QED BY <2>1, <2>2, <2>3, <3>1, <3>2, <3>3, LevelsKept DEF vars
  <2>4. CASE Next
    <3>1. (status = "done" => Tok(pos) = "eof")'
      BY <2>4, DoneStep
    <3>2. ASSUME Plain PROVE Levels(stack', pos')
      <4>1. CASE Stopped
        BY <3>2, <4>1 DEF Stopped, vars
      <4> QED BY <2>4, <3>2, <4>1, TextPartLevels, CommandPartLevels, SquarePartLevels DEF Next
    <3>3. ASSUME Plain, status' = "done", debug PROVE Depth(pos)' = 0
      <4>1. pos' = pos /\ Depth(pos) = 0
        BY <2>4, <3>3, DoneLevel
      <4> QED BY <2>2, <4>1 DEF Depth, Opened, Closed, Tok
    <3> QED BY <2>1, <2>2, <3>1, <3>2, <3>3, LevelsKept
  <2> QED BY <2>3, <2>4
<1>3. IInv => BracketsMatch
  <2> SUFFICES ASSUME IInv, status = "done", Plain
               PROVE  /\ \A p \in 1 .. Len(input) : Cardinality(Closed(p)) <= Cardinality(Opened(p))
                      /\ debug => Cardinality(Closed(Len(input))) = Cardinality(Opened(Len(input)))
    BY DEF BracketsMatch
  <2>1. pos = Len(input) + 1 /\ Len(input) \in Nat
    <3>1. pos \in Nat /\ pos >= 1 /\ pos <= Len(input) + 1 /\ Len(input) \in Nat
      BY TokFacts DEF Machine
    <3>2. pos \notin 1 .. Len(input)
      <4>1. \A k \in 1 .. Len(input) : Tok(k) # "eof"
        BY TokFacts DEF Machine, Tokens, Words, Spaces
      <4> QED BY <4>1
    <3> QED BY <3>1, <3>2
  <2>2. ASSUME NEW p \in Nat
        PROVE  /\ Depth(p + 1) = Cardinality(Opened(p)) - Cardinality(Closed(p))
               /\ Cardinality(Opened(p)) \in Nat /\ Cardinality(Closed(p)) \in Nat
    <3>1. Depth(p + 1) = Cardinality(Opened(p)) - Cardinality(Closed(p))
      <4>1. p + 1 - 1 = p
        OBVIOUS
      <4> QED BY <4>1 DEF Depth
    <3>2. CASE p = 0
      <4>1. Opened(p) = {} /\ Closed(p) = {}
        BY <3>2 DEF Opened, Closed
      <4> QED BY <3>1, <4>1, FS_EmptySet
    <3>3. CASE p # 0
      <4>1. p >= 1
        BY <3>3
      <4>2. Cardinality(Opened(p)) \in Nat /\ Cardinality(Closed(p)) \in Nat
        BY <4>1, CountStep DEF Opened, Closed
      <4> QED BY <3>1, <4>2
    <3> QED BY <3>2, <3>3
  <2>3. ASSUME NEW p \in 1 .. Len(input) PROVE Cardinality(Closed(p)) <= Cardinality(Opened(p))
    <3>1. p + 1 \in 1 .. pos /\ p \in Nat
      BY <2>1
    <3>2. Depth(p + 1) >= 0
      BY <3>1 DEF Levels, Above
    <3>3. PICK a \in Nat, b \in Nat : a = Cardinality(Opened(p)) /\ b = Cardinality(Closed(p))
      BY <2>2, <3>1
    <3>4. Depth(p + 1) = a - b
      BY <2>2, <3>1, <3>3
    <3>5. a - b >= 0
      BY <3>2, <3>4
    <3>6. b <= a
      BY <3>5
    <3> QED BY <3>3, <3>6
  <2>4. ASSUME debug
        PROVE  Cardinality(Closed(Len(input))) = Cardinality(Opened(Len(input)))
    <3>1. Depth(Len(input) + 1) = 0
      BY <2>1, <2>4
    <3>2. PICK a \in Nat, b \in Nat :
            a = Cardinality(Opened(Len(input))) /\ b = Cardinality(Closed(Len(input)))
      BY <2>1, <2>2
    <3>3. a - b = 0
      BY <2>1, <2>2, <3>1, <3>2
    <3>4. a = b
      BY <3>3
    <3> QED BY <3>2, <3>4
  <2> QED BY <2>3, <2>4
<1> HIDE DEF IInv
<1> QED BY <1>1, <1>2, <1>3, PTL DEF Spec
=============================================================================
