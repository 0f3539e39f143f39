--------------------------- MODULE IdentifiersProofs ---------------------------
(* The loop of parseIdentifier keeps its types and divides identifiers of     *)
(* any length at exactly the colons that end a run of odd length; what it      *)
(* returns is what the identifier means, and __using joins two of them.        *)
EXTENDS Identifiers, Induction, SequenceTheorems, FiniteSetTheorems, TLAPS

\* What At(p) says of the position p.
LEMMA AtFacts ==
  ASSUME TypeOK
  PROVE  /\ Joined \in Seq(Chars) /\ Len(Joined) \in Nat
         /\ \A p \in 1 .. Len(Joined) : At(p) = Joined[p] /\ At(p) \in Chars
         /\ \A p : At(p) = "end" <=> p \notin 1 .. Len(Joined)
<1>1. Joined \in Seq(Chars)
  <2>1. CASE from = None
    BY <2>1 DEF TypeOK, Joined
  <2>2. CASE from # None
    <3>1. from \in Seq(Chars) /\ thing \in Seq(Chars) /\ <<Colon>> \in Seq(Chars)
      BY <2>2 DEF TypeOK, Chars
    <3>2. from \o <<Colon>> \in Seq(Chars)
      BY <3>1, ConcatProperties
    <3> QED BY <2>2, <3>1, <3>2, ConcatProperties DEF Joined
  <2> QED BY <2>1, <2>2
<1>2. Len(Joined) \in Nat /\ \A p \in 1 .. Len(Joined) : Joined[p] \in Chars
  BY <1>1, LenProperties, ElementOfSeq
<1>3. \A p \in 1 .. Len(Joined) : At(p) = Joined[p]
  BY DEF At
<1>4. \A p : p \notin 1 .. Len(Joined) => At(p) = "end"
  BY DEF At
<1> QED BY <1>1, <1>2, <1>3, <1>4, LettersAssumption

\* An identifier is made of the texts that the loop has collected.
LEMMA IdentifierType ==
  ASSUME NEW all \in Seq(Seq(Chars)), all # <<>>
  PROVE  Identifier(all) \in [absolute : BOOLEAN, path : Seq(Seq(Chars)), name : Seq(Chars)]
<1> DEFINE path == SubSeq(all, 1, Len(all) - 1)
<1>1. Len(all) \in Nat \ {0} /\ \A k \in 1 .. Len(all) : all[k] \in Seq(Chars)
  BY EmptySeq, ElementOfSeq
<1>2. path \in Seq(Seq(Chars))
  <2>1. Len(all) - 1 \in Int /\ \A k \in 1 .. Len(all) - 1 : all[k] \in Seq(Chars)
    BY <1>1
  <2> QED BY <2>1, SubSeqProperties
<1>3. IsAbsolute(path) => Tail(path) \in Seq(Seq(Chars))
  BY <1>2, HeadTailProperties DEF IsAbsolute
<1>4. IsAbsolute(path) \in BOOLEAN
  BY DEF IsAbsolute
<1> QED BY <1>1, <1>2, <1>3, <1>4 DEF Identifier

-----------------------------------------------------------------------------
(* Type correctness *)

LEMMA TypeInit == Init => TypeOK
<1> SUFFICES ASSUME Init PROVE TypeOK
  OBVIOUS
<1>1. from \in Seq(Chars) \cup {None} /\ thing \in Seq(Chars)
  BY TextsAssumption DEF Init
<1>2. Len(Joined) \in Nat
  <2>1. from # None => /\ from \in Seq(Chars) /\ <<Colon>> \in Seq(Chars)
                       /\ from \o <<Colon>> \in Seq(Chars)
    BY <1>1, ConcatProperties DEF Chars
  <2>2. Joined \in Seq(Chars)
    BY <1>1, <2>1, ConcatProperties DEF Joined
  <2> QED BY <2>2, LenProperties
<1> QED BY <1>1, <1>2 DEF Init, TypeOK

\* Every step of the loop preserves the types; Joined is what it was.
LEMMA TypeStep == TypeOK /\ [Next]_vars => TypeOK'
<1> SUFFICES ASSUME TypeOK, [Next]_vars PROVE TypeOK'
  OBVIOUS
<1> USE AtFacts
<1>1. UNCHANGED <<from, thing>> /\ Joined' = Joined
  BY DEF Next, vars, Refuse, DoubleColon, SingleColon, Letter, Return, Finished, Joined
<1>2. i \in Nat /\ i >= 1 /\ i <= Len(Joined) + 1
  BY DEF TypeOK
<1>3. CASE Refuse
  BY <1>1, <1>3 DEF Refuse, TypeOK
<1>4. CASE DoubleColon
  <2>1. i + 1 \in 1 .. Len(Joined)
    BY <1>2, <1>4, LettersAssumption DEF DoubleColon, Divides, Chars
  <2>2. acc' \in Seq(Chars)
    BY <1>4, ConcatProperties DEF DoubleColon, TypeOK, Chars
  <2> QED BY <1>1, <1>2, <1>4, <2>1, <2>2 DEF DoubleColon, PastPair, TypeOK
<1>5. CASE SingleColon
  <2>1. i \in 1 .. Len(Joined)
    BY <1>2, <1>5, LettersAssumption DEF SingleColon, Divides, Chars
  <2>2. parts' \in Seq(Seq(Chars)) /\ acc' \in Seq(Chars)
    BY <1>5 DEF SingleColon, TypeOK
  <2> QED BY <1>1, <1>2, <1>5, <2>1, <2>2 DEF SingleColon, TypeOK
<1>6. CASE Letter
  <2>1. i \in 1 .. Len(Joined) /\ At(i) \in Chars
    BY <1>2, <1>6, LettersAssumption DEF Letter, Chars
  <2>2. acc' \in Seq(Chars)
    BY <1>6, <2>1 DEF Letter, TypeOK
  <2> QED BY <1>1, <1>2, <1>6, <2>1, <2>2 DEF Letter, TypeOK
<1>7. CASE Return
  <2>1. AllParts \in Seq(Seq(Chars))
    BY DEF AllParts, TypeOK
  <2>2. result' \in [absolute : BOOLEAN, path : Seq(Seq(Chars)), name : Seq(Chars)]
                      \cup {None, Thrown}
    BY <1>7, <2>1, IdentifierType DEF Return
  <2> QED BY <1>1, <1>7, <2>2 DEF Return, TypeOK
<1>8. CASE Finished \/ UNCHANGED vars
  BY <1>1, <1>8 DEF Finished, vars, TypeOK
<1> QED BY <1>3, <1>4, <1>5, <1>6, <1>7, <1>8 DEF Next

\* Type correctness of the loop, for names of any length.
THEOREM TypeCorrect == Spec => []TypeOK
BY TypeInit, TypeStep, PTL DEF Spec

-----------------------------------------------------------------------------
(* Where identifiers are divided *)

\* Whenever the loop looks at a colon, an even number of colons is right
\* before it: each "::" is consumed whole.
EvenBehind ==
  At(i) = Colon =>
    \E n \in 0 .. Len(Joined) : /\ 2 * n < i
                                /\ \A k \in i - 2 * n .. i : Joined[k] = Colon
                                /\ i - 2 * n > 1 => Joined[i - 2 * n - 1] # Colon

LEMMA EvenInit == Init => EvenBehind
<1> SUFFICES ASSUME Init, At(i) = Colon PROVE EvenBehind
  BY DEF EvenBehind
<1>1. TypeOK
  BY TypeInit
<1>2. i = 1 /\ Joined[1] = Colon /\ 0 \in 0 .. Len(Joined)
  BY <1>1, AtFacts, LettersAssumption DEF Init, At, Chars
<1> QED BY <1>2 DEF EvenBehind

LEMMA EvenStep == TypeOK /\ EvenBehind /\ [Next]_vars => EvenBehind'
<1> SUFFICES ASSUME TypeOK, EvenBehind, [Next]_vars, At(i)' = Colon PROVE EvenBehind'
  BY DEF EvenBehind
<1> USE AtFacts
<1>1. Joined' = Joined /\ At(i') = Colon
  BY DEF Next, vars, Refuse, DoubleColon, SingleColon, Letter, Return, Finished, Joined, At
<1>2. i \in Nat /\ i >= 1 /\ i <= Len(Joined) + 1
  BY DEF TypeOK
<1>3. CASE DoubleColon
  <2>1. At(i) = Colon /\ At(i + 1) = Colon /\ i' = i + 2 /\ At(i + 2) = Colon
    BY <1>1, <1>3 DEF DoubleColon, Divides, PastPair
  <2>2. i + 2 \in 1 .. Len(Joined)
        /\ Joined[i] = Colon /\ Joined[i + 1] = Colon /\ Joined[i + 2] = Colon
    BY <1>2, <2>1, LettersAssumption DEF Chars, At
  <2>3. PICK n \in 0 .. Len(Joined) : /\ 2 * n < i
                                      /\ \A k \in i - 2 * n .. i : Joined[k] = Colon
                                      /\ i - 2 * n > 1 => Joined[i - 2 * n - 1] # Colon
    BY <2>1 DEF EvenBehind
  <2>4. /\ n + 1 \in 0 .. Len(Joined)
        /\ 2 * (n + 1) < i + 2
        /\ i + 2 - 2 * (n + 1) = i - 2 * n
    BY <1>2, <2>2, <2>3
  <2>5. \A k \in i - 2 * n .. i + 2 : Joined[k] = Colon
    <3> TAKE k \in i - 2 * n .. i + 2
    <3>1. k \in i - 2 * n .. i \/ k = i + 1 \/ k = i + 2
      BY <1>2, <2>3
    <3> QED BY <2>2, <2>3, <3>1
  <2> QED BY <1>1, <1>2, <2>1, <2>3, <2>4, <2>5 DEF EvenBehind
<1>4. CASE SingleColon
  BY <1>1, <1>4 DEF SingleColon, Divides
<1>5. CASE Letter
  <2>1. i \in 1 .. Len(Joined) /\ Joined[i] # Colon /\ i' = i + 1
    BY <1>2, <1>5, LettersAssumption DEF Letter, Chars
  <2>2. i + 1 \in 1 .. Len(Joined) /\ Joined[i + 1] = Colon
    BY <1>1, <1>2, <2>1, LettersAssumption DEF At, Chars
  <2>3. 0 \in 0 .. Len(Joined)
    OBVIOUS
  <2> QED BY <1>1, <1>2, <2>1, <2>2, <2>3 DEF EvenBehind
<1>6. CASE Refuse \/ Return \/ Finished \/ UNCHANGED vars
  <2>1. i' = i
    BY <1>6 DEF Refuse, Return, Finished, vars
  <2> QED BY <1>1, <2>1 DEF EvenBehind
<1> QED BY <1>3, <1>4, <1>5, <1>6 DEF Next

\* A run that begins an even number of positions before i does not begin an
\* even number of positions before i + 1.
LEMMA RunHasOneLength ==
  ASSUME NEW s, Len(s) \in Nat, NEW j \in Nat,
         \E n \in 0 .. Len(s) : /\ 2 * n < j
                                /\ \A k \in j - 2 * n .. j : s[k] = Colon
                                /\ j - 2 * n > 1 => s[j - 2 * n - 1] # Colon
  PROVE  ~OddRunEnds(s, j + 1)
<1> SUFFICES ASSUME OddRunEnds(s, j + 1) PROVE FALSE
  OBVIOUS
<1>1. PICK n \in 0 .. Len(s) : /\ 2 * n < j
                               /\ \A k \in j - 2 * n .. j : s[k] = Colon
                               /\ j - 2 * n > 1 => s[j - 2 * n - 1] # Colon
  OBVIOUS
<1>2. PICK q \in Nat : q = j + 1 /\ OddRunEnds(s, q)
  OBVIOUS
<1>3. PICK m \in 0 .. Len(s) : /\ 2 * m < q
                               /\ \A k \in q - 2 * m .. q : s[k] = Colon
                               /\ q - 2 * m > 1 => s[q - 2 * m - 1] # Colon
  BY <1>2 DEF OddRunEnds
<1>4. n \in Nat /\ m \in Nat
  OBVIOUS
<1>5. CASE j - 2 * n < q - 2 * m
  <2>1. q - 2 * m > 1 /\ q - 2 * m - 1 \in j - 2 * n .. j
    BY <1>1, <1>2, <1>3, <1>4, <1>5
  <2>2. s[q - 2 * m - 1] = Colon
    BY <1>1, <2>1
  <2> QED BY <1>3, <2>1, <2>2
<1>6. CASE q - 2 * m < j - 2 * n
  <2>1. j - 2 * n > 1 /\ j - 2 * n - 1 \in q - 2 * m .. q
    BY <1>1, <1>2, <1>3, <1>4, <1>6
  <2>2. s[j - 2 * n - 1] = Colon
    BY <1>3, <2>1
  <2> QED BY <1>1, <2>1, <2>2
<1>7. j - 2 * n # q - 2 * m
  BY <1>2, <1>4
<1> QED BY <1>2, <1>4, <1>5, <1>6, <1>7

\* A step divides at the colon that it consumes if, and only if, that colon
\* ends a run of odd length; the ones it takes for a "::" do not.
LEMMA DivideStep ==
  TypeOK /\ EvenBehind /\ [Next]_vars =>
    [\A p \in i .. i' - 1 : OddRunEnds(Joined, p) <=> parts' # parts]_vars
<1> SUFFICES ASSUME TypeOK, EvenBehind, Next, NEW p \in i .. i' - 1
             PROVE  OddRunEnds(Joined, p) <=> parts' # parts
  OBVIOUS
<1> USE AtFacts
<1>1. i \in Nat /\ i >= 1 /\ i <= Len(Joined) + 1
  BY DEF TypeOK
<1>2. At(i) = Colon => \E n \in 0 .. Len(Joined) :
                         /\ 2 * n < i
                         /\ \A k \in i - 2 * n .. i : Joined[k] = Colon
                         /\ i - 2 * n > 1 => Joined[i - 2 * n - 1] # Colon
  BY DEF EvenBehind
<1>3. CASE DoubleColon
  <2>1. At(i) = Colon /\ At(i + 1) = Colon /\ i' = i + 2 /\ parts' = parts
    BY <1>3 DEF DoubleColon, Divides, PastPair
  <2>2. i + 1 \in 1 .. Len(Joined) /\ Joined[i] = Colon /\ Joined[i + 1] = Colon
    BY <1>1, <2>1, LettersAssumption DEF Chars, At
  <2>3. p = i \/ p = i + 1
    BY <1>1, <2>1
  <2>4. ~OddRunEnds(Joined, i)
    BY <1>1, <2>2 DEF OddRunEnds
  <2>5. ~OddRunEnds(Joined, i + 1)
    <3> SUFFICES ASSUME OddRunEnds(Joined, i + 1) PROVE FALSE
      OBVIOUS
    <3>1. \E n \in 0 .. Len(Joined) : /\ 2 * n < i
                                      /\ \A k \in i - 2 * n .. i : Joined[k] = Colon
                                      /\ i - 2 * n > 1 => Joined[i - 2 * n - 1] # Colon
      BY <1>2, <2>1
    <3> QED BY <1>1, <3>1, RunHasOneLength
  <2> QED BY <2>1, <2>3, <2>4, <2>5
<1>4. CASE SingleColon
  <2>1. At(i) = Colon /\ At(i + 1) # Colon /\ i' = i + 1 /\ parts' = Append(parts, acc)
    BY <1>4 DEF SingleColon, Divides
  <2>2. i \in 1 .. Len(Joined) /\ Joined[i] = Colon /\ p = i
    BY <1>1, <2>1, LettersAssumption DEF Chars, At
  <2>3. i < Len(Joined) => Joined[i + 1] # Colon
    BY <1>1, <2>1, <2>2
  <2>4. OddRunEnds(Joined, i)
    BY <1>2, <2>1, <2>2, <2>3 DEF OddRunEnds
  <2>5. parts' # parts
    <3>1. parts \in Seq(Seq(Chars)) /\ acc \in Seq(Chars)
      BY DEF TypeOK
    <3>2. Len(parts') = Len(parts) + 1 /\ Len(parts) \in Nat
      BY <2>1, <3>1
    <3> QED BY <3>2
  <2> QED BY <2>2, <2>4, <2>5
<1>5. CASE Letter
  <2>1. i \in 1 .. Len(Joined) /\ Joined[i] # Colon /\ i' = i + 1 /\ parts' = parts
    BY <1>1, <1>5, LettersAssumption DEF Letter, Chars
  <2>2. p = i
    BY <1>1, <2>1
  <2> QED BY <2>1, <2>2 DEF OddRunEnds
<1>6. CASE Refuse \/ Return \/ Finished
  <2>1. i' = i
    BY <1>6 DEF Refuse, Return, Finished, vars
  <2> QED BY <1>1, <2>1
<1> QED BY <1>3, <1>4, <1>5, <1>6 DEF Next

\* Identifiers of any length are divided at single colons, counted from the
\* left of each run, and nowhere else.
THEOREM DividesAtSingleColons == Spec => DividesExactly
<1>1. Spec => [](TypeOK /\ EvenBehind)
  <2>1. Init => TypeOK /\ EvenBehind
    BY TypeInit, EvenInit
  <2>2. TypeOK /\ EvenBehind /\ [Next]_vars => (TypeOK /\ EvenBehind)'
    BY TypeStep, EvenStep
  <2> QED BY <2>1, <2>2, PTL DEF Spec
<1> QED BY <1>1, DivideStep, PTL DEF Spec, DividesExactly

-----------------------------------------------------------------------------
(* Cuts and pieces of a text *)

\* There are finitely many cuts, all of them positions of the text.
LEMMA CutFacts ==
  ASSUME NEW s \in Seq(Chars)
  PROVE  /\ Cuts(s) \subseteq 1 .. Len(s) /\ Cuts(s) \subseteq Nat \ {0}
         /\ IsFiniteSet(Cuts(s)) /\ Cardinality(Cuts(s)) \in Nat
         /\ \A T \in SUBSET Cuts(s) : IsFiniteSet(T) /\ Cardinality(T) \in Nat
<1>1. Len(s) \in Nat
  BY LenProperties
<1>2. Cuts(s) \subseteq 1 .. Len(s) /\ IsFiniteSet(1 .. Len(s))
  BY <1>1, FS_Interval DEF Cuts
<1>3. \A T \in SUBSET Cuts(s) : IsFiniteSet(T)
  BY <1>2, FS_Subset
<1> QED BY <1>1, <1>2, <1>3, FS_CardinalityType

\* LastCut is the only cut, or the beginning, that no other one separates from p.
LEMMA LastCutIs ==
  ASSUME NEW s \in Seq(Chars), NEW p, NEW c \in Cuts(s) \cup {0}, c < p,
         \A d \in Cuts(s) : d < p => d <= c
  PROVE  LastCut(s, p) = c
<1> DEFINE IsLast(d) == d < p /\ \A e \in Cuts(s) : e < p => e <= d
<1>1. \A d \in Cuts(s) \cup {0} : IsLast(d) => d = c
  BY CutFacts
<1>2. LastCut(s, p) = CHOOSE d \in Cuts(s) \cup {0} : IsLast(d)
  BY DEF LastCut
<1>3. IsLast(c)
  OBVIOUS
<1> HIDE DEF IsLast
<1> QED BY <1>1, <1>2, <1>3

\* It exists.
LEMMA LastCutExists ==
  ASSUME NEW s \in Seq(Chars), NEW p \in Nat \ {0}
  PROVE  /\ LastCut(s, p) \in Cuts(s) \cup {0} /\ LastCut(s, p) \in Nat
         /\ LastCut(s, p) < p
         /\ \A d \in Cuts(s) : d < p => d <= LastCut(s, p)
<1> DEFINE T == {k \in Nat : p - k \in Cuts(s) \cup {0} /\ k > 0}
<1>1. p \in T
  OBVIOUS
<1>2. PICK m \in T : \A k \in T : ~(k < m)
  BY <1>1, LeastNumber
<1>3. PICK c \in Int : c = p - m
  OBVIOUS
<1>4. c \in Cuts(s) \cup {0} /\ c < p /\ c \in Nat
  BY <1>2, <1>3, CutFacts
<1>5. ASSUME NEW d \in Cuts(s), d < p PROVE d <= c
  <2>1. d \in Nat /\ p - d \in Nat /\ p - d > 0 /\ p - (p - d) = d
    BY <1>5, CutFacts
  <2>2. p - d \in T
    BY <2>1
  <2>3. ~(p - d < m)
    BY <1>2, <2>2
  <2> QED BY <1>2, <1>3, <2>1, <2>3
<1>6. LastCut(s, p) = c
  BY <1>4, <1>5, LastCutIs
<1> QED BY <1>4, <1>5, <1>6

\* The number of cuts up to one tells them apart, and counts them from 1.
UpTo(s, c) == {d \in Cuts(s) : d <= c}

LEMMA CountFacts ==
  ASSUME NEW s \in Seq(Chars)
  PROVE  /\ \A c \in Cuts(s) : Cardinality(UpTo(s, c)) \in 1 .. Cardinality(Cuts(s))
         /\ \A c, d \in Cuts(s) : c < d => Cardinality(UpTo(s, c)) < Cardinality(UpTo(s, d))
         /\ \A c, d \in Cuts(s) : Cardinality(UpTo(s, c)) = Cardinality(UpTo(s, d)) => c = d
<1> USE CutFacts
<1>1. \A c : UpTo(s, c) \in SUBSET Cuts(s)
  BY DEF UpTo
<1>2. \A c \in Cuts(s) : c \in UpTo(s, c)
  BY DEF UpTo
<1>3. ASSUME NEW c \in Cuts(s)
      PROVE  Cardinality(UpTo(s, c)) \in 1 .. Cardinality(Cuts(s))
  <2>1. Cardinality(UpTo(s, c)) <= Cardinality(Cuts(s))
    BY <1>1, FS_Subset
  <2>2. Cardinality(UpTo(s, c)) # 0
    BY <1>1, <1>2, FS_EmptySet
  <2>3. Cardinality(UpTo(s, c)) \in Nat
    BY <1>1
  <2> QED BY <2>1, <2>2, <2>3
<1>4. ASSUME NEW c \in Cuts(s), NEW d \in Cuts(s), c < d
      PROVE  Cardinality(UpTo(s, c)) < Cardinality(UpTo(s, d))
  <2>1. UpTo(s, c) \in SUBSET UpTo(s, d) /\ d \notin UpTo(s, c) /\ d \in UpTo(s, d)
    BY <1>4 DEF UpTo
  <2>2. /\ Cardinality(UpTo(s, c)) <= Cardinality(UpTo(s, d))
        /\ Cardinality(UpTo(s, c)) # Cardinality(UpTo(s, d))
    BY <1>1, <2>1, FS_Subset
  <2> QED BY <1>1, <2>2
<1>5. \A c, d \in Cuts(s) : c < d \/ d < c \/ c = d
  OBVIOUS
<1> QED BY <1>1, <1>3, <1>4, <1>5

\* NthCut is the one cut that has the given number of cuts up to itself.
LEMMA NthCutIs ==
  ASSUME NEW s \in Seq(Chars), NEW c \in Cuts(s)
  PROVE  NthCut(s, Cardinality(UpTo(s, c))) = c
<1> DEFINE k == Cardinality(UpTo(s, c))
<1>1. NthCut(s, k) = CHOOSE d \in Cuts(s) : Cardinality(UpTo(s, d)) = k
  BY DEF NthCut, UpTo
<1>2. \A d \in Cuts(s) : Cardinality(UpTo(s, d)) = k => d = c
  BY CountFacts
<1>3. Cardinality(UpTo(s, c)) = k
  OBVIOUS
<1> HIDE DEF k
<1> QED BY <1>1, <1>2, <1>3

\* Every number up to that of all cuts counts one: an injection between two
\* finite sets of one size is onto.
LEMMA NthCutExists ==
  ASSUME NEW s \in Seq(Chars), NEW k \in 1 .. Cardinality(Cuts(s))
  PROVE  NthCut(s, k) \in Cuts(s) /\ Cardinality(UpTo(s, NthCut(s, k))) = k
<1> DEFINE n == Cardinality(Cuts(s))
           f == [c \in Cuts(s) |-> Cardinality(UpTo(s, c))]
<1>1. n \in Nat /\ IsFiniteSet(1 .. n) /\ Cardinality(1 .. n) = n
  BY CutFacts, FS_Interval
<1>2. f \in Injection(Cuts(s), 1 .. n)
  BY CountFacts DEF Injection, IsInjective
<1>3. f \in Surjection(Cuts(s), 1 .. n)
  <2> HIDE DEF f, n
  <2> QED BY <1>1, <1>2, FS_Injection DEF n
<1>4. PICK c \in Cuts(s) : f[c] = k
  BY <1>3 DEF Surjection
<1>5. Cardinality(UpTo(s, c)) = k
  BY <1>4
<1> QED BY <1>5, NthCutIs

\* A piece is a text; while nothing is cut it grows by what is read.
LEMMA PieceGrows ==
  ASSUME NEW s \in Seq(Chars), NEW p \in 1 .. Len(s), p \notin Cuts(s)
  PROVE  /\ Piece(s, p + 1) = Append(Piece(s, p), s[p])
         /\ {d \in Cuts(s) : d < p + 1} = {d \in Cuts(s) : d < p}
<1>1. Len(s) \in Nat /\ p \in Nat \ {0} /\ s[p] \in Chars
  BY LenProperties, ElementOfSeq
<1>2. PICK c \in Nat : c = LastCut(s, p)
  BY <1>1, LastCutExists
<1>3. c \in Cuts(s) \cup {0} /\ c < p /\ \A d \in Cuts(s) : d < p => d <= c
  BY <1>1, <1>2, LastCutExists
<1>4. \A d \in Cuts(s) : d < p + 1 <=> d < p
  BY <1>1, CutFacts
<1>5. LastCut(s, p + 1) = c
  <2>1. PICK q \in Nat : q = p + 1
    BY <1>1
  <2>2. c < q /\ \A d \in Cuts(s) : d < q => d <= c
    BY <1>1, <1>3, <1>4, <2>1
  <2>3. LastCut(s, q) = c
    BY <1>3, <2>2, LastCutIs
  <2> QED BY <2>1, <2>3
<1>6. SubSeq(s, 1 + c, p) = SubSeq(s, 1 + c, p - 1) \o <<s[p]>>
  BY <1>1, <1>3, SubSeqRecursiveSecond
<1>7. SubSeq(s, 1 + c, p - 1) \in Seq(Chars)
  BY <1>1, ElementOfSeq, SubSeqProperties
<1>8. (p + 1) - 1 = p
  BY <1>1
<1> QED BY <1>1, <1>2, <1>4, <1>5, <1>6, <1>7, <1>8, AppendIsConcat DEF Piece

\* Behind a cut a piece begins, and there is one cut more.
LEMMA PieceBegins ==
  ASSUME NEW s \in Seq(Chars), NEW p \in Cuts(s)
  PROVE  /\ Piece(s, p + 1) = <<>>
         /\ {d \in Cuts(s) : d < p + 1} = UpTo(s, p)
         /\ Cardinality(UpTo(s, p)) = Cardinality({d \in Cuts(s) : d < p}) + 1
<1>1. p \in Nat \ {0} /\ Cuts(s) \subseteq Nat
  BY CutFacts
<1>2. LastCut(s, p + 1) = p
  <2>1. PICK q \in Nat : q = p + 1
    BY <1>1
  <2>2. p < q /\ \A d \in Cuts(s) : d < q => d <= p
    BY <1>1, <2>1
  <2>3. LastCut(s, q) = p
    BY <2>2, LastCutIs
  <2> QED BY <2>1, <2>3
<1>3. Piece(s, p + 1) = <<>>
  BY <1>1, <1>2, SubSeqEmpty DEF Piece
<1>4. {d \in Cuts(s) : d < p + 1} = UpTo(s, p)
  BY <1>1 DEF UpTo
<1>5. UpTo(s, p) = {d \in Cuts(s) : d < p} \cup {p} /\ p \notin {d \in Cuts(s) : d < p}
  BY <1>1 DEF UpTo
<1>6. {d \in Cuts(s) : d < p} \in SUBSET Cuts(s)
  OBVIOUS
<1>7. Cardinality(UpTo(s, p)) = Cardinality({d \in Cuts(s) : d < p}) + 1
  BY <1>5, <1>6, CutFacts, FS_AddElement
<1> QED BY <1>3, <1>4, <1>7

\* A text that is not empty has a piece; its pieces are those that the cuts
\* end and, if it is not empty, the rest.
LEMMA PiecesFacts ==
  ASSUME NEW s \in Seq(Chars)
  PROVE  LET n == Cardinality(Cuts(s))
             rest == Piece(s, Len(s) + 1)
         IN /\ Pieces(s) \in Seq(Seq(Chars))
            /\ rest \in Seq(Chars)
            /\ Len(Pieces(s)) = IF rest = <<>> THEN n ELSE n + 1
            /\ \A k \in 1 .. n : Pieces(s)[k] = Piece(s, NthCut(s, k))
            /\ rest # <<>> => Pieces(s)[n + 1] = rest
            /\ s # <<>> => Pieces(s) # <<>>
<1> DEFINE n == Cardinality(Cuts(s))
           rest == Piece(s, Len(s) + 1)
           cuts == [k \in 1 .. n |-> Piece(s, NthCut(s, k))]
<1>1. n \in Nat /\ Len(s) \in Nat
  BY CutFacts, LenProperties
<1>2. ASSUME NEW p \in 1 .. Len(s) + 1 PROVE Piece(s, p) \in Seq(Chars)
  <2>1. p \in Nat \ {0} /\ LastCut(s, p) \in Nat
    BY <1>1, LastCutExists
  <2>2. \A k \in 1 + LastCut(s, p) .. p - 1 : s[k] \in Chars
    BY <1>1, <2>1, ElementOfSeq
  <2> QED BY <2>1, <2>2, SubSeqProperties DEF Piece
<1>3. rest \in Seq(Chars)
  BY <1>1, <1>2
<1>4. \A k \in 1 .. n : Piece(s, NthCut(s, k)) \in Seq(Chars)
  BY <1>1, <1>2, NthCutExists, CutFacts
<1>5. cuts \in Seq(Seq(Chars)) /\ Len(cuts) = n /\ \A k \in 1 .. n : cuts[k] = Piece(s, NthCut(s, k))
  <2>1. cuts \in [1 .. n -> Seq(Chars)]
    BY <1>4
  <2>2. cuts \in Seq(Seq(Chars))
    BY <1>1, <2>1, SeqDef
  <2> QED BY <1>1, <2>2
<1>6. Pieces(s) = IF rest = <<>> THEN cuts ELSE Append(cuts, rest)
  BY DEF Pieces
<1> HIDE DEF cuts
<1>7. ASSUME s # <<>> PROVE rest # <<>> \/ n # 0
  <2>1. SUFFICES ASSUME n = 0 PROVE rest # <<>>
    OBVIOUS
  <2>2. Cuts(s) = {}
    BY <2>1, CutFacts, FS_EmptySet
  <2>3. LastCut(s, Len(s) + 1) = 0
    <3>1. PICK q \in Nat : q = Len(s) + 1 /\ 0 < q
      BY <1>1
    <3>2. LastCut(s, q) = 0
      BY <2>2, <3>1, LastCutIs
    <3> QED BY <3>1, <3>2
  <2>4. rest = s
    BY <1>1, <2>3, SubSeqFull DEF Piece
  <2> QED BY <1>7, <2>4
<1>8. /\ Append(cuts, rest) \in Seq(Seq(Chars)) /\ Len(Append(cuts, rest)) = n + 1
      /\ \A k \in 1 .. n : Append(cuts, rest)[k] = cuts[k]
      /\ Append(cuts, rest)[n + 1] = rest
  BY <1>3, <1>5, AppendProperties
<1>9. s # <<>> => Pieces(s) # <<>>
  <2>1. SUFFICES ASSUME s # <<>> PROVE Len(Pieces(s)) # 0
    OBVIOUS
  <2> HIDE DEF rest, n
  <2>2. CASE rest = <<>>
    BY <1>5, <1>6, <1>7, <2>1, <2>2
  <2>3. CASE rest # <<>>
    BY <1>1, <1>6, <1>8, <2>3
  <2> QED BY <2>2, <2>3
<1> HIDE DEF rest, n
<1>10. /\ Pieces(s) \in Seq(Seq(Chars))
       /\ Len(Pieces(s)) = IF rest = <<>> THEN n ELSE n + 1
       /\ \A k \in 1 .. n : Pieces(s)[k] = Piece(s, NthCut(s, k))
       /\ rest # <<>> => Pieces(s)[n + 1] = rest
  BY <1>5, <1>6, <1>8
<1> QED BY <1>3, <1>9, <1>10 DEF rest, n

-----------------------------------------------------------------------------
(* What the loop has collected *)

\* The parts are the pieces that the cuts passed so far end, the word is what
\* has been read of the next one; the result is the identifier that was meant.
Collected ==
  /\ Len(parts) = Cardinality({d \in Cuts(Joined) : d < i})
  /\ \A k \in 1 .. Len(parts) : parts[k] = Piece(Joined, NthCut(Joined, k))
  /\ acc = Piece(Joined, i)

Returned == result # None /\ Joined # <<>> => result = Meaning(Joined)

LEMMA CollectedInit == Init => Collected /\ Returned
<1> SUFFICES ASSUME Init PROVE Collected /\ Returned
  OBVIOUS
<1>1. Joined \in Seq(Chars)
  BY TypeInit, AtFacts
<1>2. {d \in Cuts(Joined) : d < 1} = {} /\ Cuts(Joined) \subseteq Nat \ {0}
  BY <1>1, CutFacts
<1>3. LastCut(Joined, 1) = 0
  <2>1. 0 < 1 /\ \A d \in Cuts(Joined) : d < 1 => d <= 0
    BY <1>2
  <2> QED BY <1>1, <2>1, LastCutIs
<1>4. Piece(Joined, 1) = <<>>
  BY <1>3, SubSeqEmpty DEF Piece
<1>5. Len(<<>>) = 0 /\ 1 .. 0 = {}
  OBVIOUS
<1> QED BY <1>2, <1>4, <1>5, FS_EmptySet DEF Init, Collected, Returned

LEMMA CollectedStep ==
  TypeOK /\ EvenBehind /\ Collected /\ Returned /\ [Next]_vars => (Collected /\ Returned)'
<1> SUFFICES ASSUME TypeOK, EvenBehind, Collected, Returned, [Next]_vars
             PROVE  (Collected /\ Returned)'
  OBVIOUS
<1>1. UNCHANGED <<from, thing>> /\ Joined' = Joined
  BY DEF Next, vars, Refuse, DoubleColon, SingleColon, Letter, Return, Finished, Joined
<1>2. PICK s : s = Joined
  OBVIOUS
<1>3. /\ s \in Seq(Chars) /\ Len(s) \in Nat /\ Joined' = s
      /\ i \in Nat /\ i >= 1 /\ i <= Len(s) + 1
  BY <1>1, <1>2, AtFacts DEF TypeOK
<1>4. /\ Len(parts) = Cardinality({d \in Cuts(s) : d < i})
      /\ \A k \in 1 .. Len(parts) : parts[k] = Piece(s, NthCut(s, k))
      /\ acc = Piece(s, i)
  BY <1>2 DEF Collected
<1>5. \A p \in 1 .. Len(s) : At(p) = s[p]
  BY <1>2, AtFacts
<1>6. ASSUME i' # i PROVE \A p \in i .. i' - 1 : OddRunEnds(s, p) <=> parts' # parts
  BY <1>2, <1>6, DivideStep DEF vars
<1>7. \A p : p \in Cuts(s) <=> p \in 1 .. Len(s) /\ OddRunEnds(s, p)
  BY DEF Cuts
<1>8. ASSUME /\ Len(parts') = Cardinality({d \in Cuts(s) : d < i'})
             /\ \A k \in 1 .. Len(parts') : parts'[k] = Piece(s, NthCut(s, k))
             /\ acc' = Piece(s, i'),
             UNCHANGED result
      PROVE  (Collected /\ Returned)'
  <2>1. Collected'
    BY <1>3, <1>8 DEF Collected
  <2>2. Returned'
    BY <1>1, <1>8 DEF Returned
  <2> QED BY <2>1, <2>2
<1>9. parts \in Seq(Seq(Chars)) /\ acc \in Seq(Chars) /\ Len(parts) \in Nat
  BY DEF TypeOK
<1>10. CASE DoubleColon
  <2>1. At(i) = Colon /\ At(i + 1) = Colon /\ i' = i + 2 /\ UNCHANGED <<parts, result>>
        /\ acc' = acc \o <<Colon, Colon>>
    BY <1>10 DEF DoubleColon, Divides, PastPair
  <2>2. i \in 1 .. Len(s) /\ i + 1 \in 1 .. Len(s) /\ s[i] = Colon /\ s[i + 1] = Colon
    BY <1>2, <1>3, <2>1, LettersAssumption DEF Chars, At
  <2>3. i \notin Cuts(s) /\ i + 1 \notin Cuts(s)
    <3>1. i' # i /\ i \in i .. i' - 1 /\ i + 1 \in i .. i' - 1
      BY <1>3, <2>1
    <3> QED BY <1>6, <1>7, <2>1, <3>1
  <2>4. PICK q \in 1 .. Len(s) : q = i + 1
    BY <2>2
  <2>5. /\ Piece(s, q) = Append(acc, Colon)
        /\ {d \in Cuts(s) : d < q} = {d \in Cuts(s) : d < i}
    BY <1>3, <1>4, <2>2, <2>3, <2>4, PieceGrows
  <2>6. /\ Piece(s, q + 1) = Append(Append(acc, Colon), Colon)
        /\ {d \in Cuts(s) : d < q + 1} = {d \in Cuts(s) : d < q}
    BY <1>3, <2>2, <2>3, <2>4, <2>5, PieceGrows
  <2>7. acc' = Append(Append(acc, Colon), Colon)
    <3>1. Colon \in Chars
      BY DEF Chars
    <3> QED BY <1>9, <2>1, <3>1
  <2>8. q + 1 = i'
    BY <1>3, <2>1, <2>4
  <2> QED BY <1>4, <1>8, <2>1, <2>5, <2>6, <2>7, <2>8
<1>11. CASE SingleColon
  <2>1. At(i) = Colon /\ i' = i + 1 /\ parts' = Append(parts, acc) /\ acc' = <<>>
        /\ UNCHANGED result
    BY <1>11 DEF SingleColon, Divides
  <2>2. i \in 1 .. Len(s)
    BY <1>2, <1>3, <2>1, LettersAssumption DEF Chars, At
  <2>3. /\ Len(parts') = Len(parts) + 1
        /\ \A k \in 1 .. Len(parts) : parts'[k] = parts[k]
        /\ parts'[Len(parts) + 1] = acc
    BY <1>9, <2>1, AppendProperties
  <2>4. i \in Cuts(s)
    <3>1. parts' # parts
      BY <1>9, <2>3
    <3>2. i' # i /\ i \in i .. i' - 1
      BY <1>3, <2>1
    <3> QED BY <1>6, <1>7, <2>2, <3>1, <3>2
  <2>5. /\ Piece(s, i') = <<>> /\ {d \in Cuts(s) : d < i'} = UpTo(s, i)
        /\ Cardinality(UpTo(s, i)) = Len(parts) + 1
    BY <1>3, <1>4, <2>1, <2>4, PieceBegins
  <2>6. NthCut(s, Len(parts) + 1) = i
    BY <1>3, <2>4, <2>5, NthCutIs
  <2>7. ASSUME NEW k \in 1 .. Len(parts')
        PROVE  parts'[k] = Piece(s, NthCut(s, k))
    <3>1. k \in 1 .. Len(parts) \/ k = Len(parts) + 1
      BY <1>9, <2>3
    <3>2. parts'[Len(parts) + 1] = Piece(s, NthCut(s, Len(parts) + 1))
      BY <1>4, <2>3, <2>6
    <3> QED BY <1>4, <2>3, <3>1, <3>2
  <2> QED BY <1>8, <2>1, <2>3, <2>5, <2>7
<1>12. CASE Letter
  <2>1. At(i) \in Letters /\ i' = i + 1 /\ acc' = Append(acc, At(i)) /\ UNCHANGED <<parts, result>>
    BY <1>12 DEF Letter
  <2>2. i \in 1 .. Len(s) /\ At(i) = s[i]
    BY <1>2, <1>3, <1>5, <2>1, LettersAssumption DEF Chars, At
  <2>3. i \notin Cuts(s)
    <3>1. i' # i /\ i \in i .. i' - 1
      BY <1>3, <2>1
    <3> QED BY <1>6, <1>7, <2>1, <3>1
  <2>4. Piece(s, i') = Append(acc, s[i]) /\ {d \in Cuts(s) : d < i'} = {d \in Cuts(s) : d < i}
    BY <1>3, <1>4, <2>1, <2>2, <2>3, PieceGrows
  <2> QED BY <1>4, <1>8, <2>1, <2>2, <2>4
<1>13. CASE Return
  <2>1. /\ At(i) = "end" /\ s # <<>> /\ UNCHANGED <<i, acc, parts>>
        /\ result' = IF AllParts = <<>> THEN Thrown ELSE Identifier(AllParts)
    BY <1>2, <1>13 DEF Return, Running
  <2>2. i = Len(s) + 1
    <3>1. i \notin 1 .. Len(s)
      BY <1>2, <2>1, AtFacts
    <3> QED BY <1>3, <3>1
  <2>3. {d \in Cuts(s) : d < i} = Cuts(s)
    BY <1>3, <2>2, CutFacts
  <2>4. PICK n \in Nat : n = Cardinality(Cuts(s)) /\ Len(parts) = n
    BY <1>4, <1>9, <2>3
  <2>5. /\ Pieces(s) \in Seq(Seq(Chars))
        /\ Len(Pieces(s)) = IF acc = <<>> THEN n ELSE n + 1
        /\ \A k \in 1 .. n : Pieces(s)[k] = parts[k]
        /\ acc # <<>> => Pieces(s)[n + 1] = acc
        /\ Pieces(s) # <<>>
    <3>1. acc = Piece(s, Len(s) + 1)
      BY <1>4, <2>2
    <3>2. /\ Pieces(s) \in Seq(Seq(Chars))
          /\ Len(Pieces(s)) = IF acc = <<>> THEN n ELSE n + 1
          /\ \A k \in 1 .. n : Pieces(s)[k] = Piece(s, NthCut(s, k))
          /\ acc # <<>> => Pieces(s)[n + 1] = acc
          /\ Pieces(s) # <<>>
      BY <1>3, <2>1, <2>4, <3>1, PiecesFacts
    <3> QED BY <1>4, <2>4, <3>2
  <2>6. AllParts = Pieces(s)
    <3>1. CASE acc = <<>>
      BY <1>9, <2>4, <2>5, <3>1, SeqEqual DEF AllParts
    <3>2. CASE acc # <<>>
      <4> DEFINE A == Append(parts, acc)
      <4>1. /\ A \in Seq(Seq(Chars)) /\ Len(A) = n + 1 /\ A[n + 1] = acc
            /\ \A k \in 1 .. n : A[k] = parts[k]
        BY <1>9, <2>4, AppendProperties
      <4> HIDE DEF A
      <4>2. Len(Pieces(s)) = n + 1 /\ Pieces(s)[n + 1] = acc
        BY <2>5, <3>2
      <4>3. \A k \in 1 .. n + 1 : k \in 1 .. n \/ k = n + 1
        OBVIOUS
      <4>4. \A k \in 1 .. n + 1 : A[k] = Pieces(s)[k]
        BY <2>5, <4>1, <4>2, <4>3
      <4>5. A = Pieces(s)
        BY <2>5, <4>1, <4>2, <4>4, SeqEqual
      <4> QED BY <3>2, <4>5 DEF AllParts, A
    <3> QED BY <3>1, <3>2
  <2>7. result' = Meaning(s)
    BY <2>1, <2>5, <2>6 DEF Meaning
  <2>8. Collected' /\ Returned'
    BY <1>3, <1>4, <2>1, <2>7 DEF Collected, Returned
  <2> QED BY <2>8
<1>14. CASE Refuse
  <2>1. Joined = <<>> /\ UNCHANGED <<i, acc, parts>>
    BY <1>14 DEF Refuse
  <2>2. Collected' /\ Returned'
    BY <1>2, <1>3, <1>4, <2>1 DEF Collected, Returned
  <2> QED BY <2>2
<1>15. CASE Finished \/ UNCHANGED vars
  <2>1. UNCHANGED <<i, acc, parts, result>>
    BY <1>15 DEF Finished, vars
  <2> QED BY <1>4, <1>8, <2>1
<1> QED BY <1>10, <1>11, <1>12, <1>13, <1>14, <1>15 DEF Next

\* parseIdentifier returns, for names of any length, the identifier whose parts
\* are the pieces between the single colons, and throws for none but the empty
\* name: the error for identifiers without a name is never reached.
THEOREM ReturnsMeaning == Spec => []DividedAtSingleColons
<1>1. Init => TypeOK /\ EvenBehind /\ Collected /\ Returned
  BY TypeInit, EvenInit, CollectedInit
<1>2. TypeOK /\ EvenBehind /\ Collected /\ Returned /\ [Next]_vars =>
        (TypeOK /\ EvenBehind /\ Collected /\ Returned)'
  BY TypeStep, EvenStep, CollectedStep
<1>3. Returned => DividedAtSingleColons
  BY DEF Returned, DividedAtSingleColons
<1> QED BY <1>1, <1>2, <1>3, PTL DEF Spec
-----------------------------------------------------------------------------
(* The name that __using makes of two                                      *)

\* Texts that agree position by position, d apart, have equal parts.
LEMMA SamePart ==
  ASSUME NEW s, NEW t, NEW a \in Int, NEW b \in Int, NEW d \in Int,
         \A k \in a .. b : s[d + k] = t[k] /\ t[k] \in Chars
  PROVE  SubSeq(s, d + a, d + b) = SubSeq(t, a, b)
<1>1. PICK u \in Int, v \in Int : u = d + a /\ v = d + b
  OBVIOUS
<1>2. \A j \in u .. v : s[j] \in Chars
  <2> TAKE j \in u .. v
  <2>1. j - d \in a .. b /\ d + (j - d) = j
    BY <1>1
  <2> QED BY <2>1
<1>3. /\ SubSeq(s, u, v) \in Seq(Chars)
      /\ Len(SubSeq(s, u, v)) = IF u <= v THEN v - u + 1 ELSE 0
      /\ \A j \in 1 .. v - u + 1 : SubSeq(s, u, v)[j] = s[u + j - 1]
  BY <1>2, SubSeqProperties
<1>4. /\ SubSeq(t, a, b) \in Seq(Chars)
      /\ Len(SubSeq(t, a, b)) = IF a <= b THEN b - a + 1 ELSE 0
      /\ \A j \in 1 .. b - a + 1 : SubSeq(t, a, b)[j] = t[a + j - 1]
  BY SubSeqProperties
<1>5. v - u + 1 = b - a + 1 /\ (u <= v <=> a <= b) /\ Len(SubSeq(s, u, v)) = Len(SubSeq(t, a, b))
  BY <1>1, <1>3, <1>4
<1>6. ASSUME NEW j \in 1 .. b - a + 1 PROVE s[u + j - 1] = t[a + j - 1]
  <2>1. a + j - 1 \in a .. b /\ d + (a + j - 1) = u + j - 1
    BY <1>1
  <2> QED BY <2>1
<1>7. \A j \in 1 .. Len(SubSeq(s, u, v)) : j \in 1 .. b - a + 1
  BY <1>3, <1>5
<1>8. \A j \in 1 .. Len(SubSeq(s, u, v)) : SubSeq(s, u, v)[j] = SubSeq(t, a, b)[j]
  BY <1>3, <1>4, <1>5, <1>6, <1>7
<1>9. SubSeq(s, u, v) = SubSeq(t, a, b)
  BY <1>3, <1>4, <1>5, <1>8, SeqEqual
<1> QED BY <1>1, <1>9

\* Two names with a colon between that stands alone: one, at position m.
Beside(f, t, s, m) ==
  /\ f \in Seq(Chars) /\ t \in Seq(Chars) /\ s \in Seq(Chars)
  /\ f # <<>> /\ f[Len(f)] # Colon /\ t # <<>> /\ t[1] # Colon
  /\ m = Len(f) + 1 /\ s = f \o <<Colon>> \o t

LEMMA BesideFacts ==
  ASSUME NEW f, NEW t, NEW s, NEW m, Beside(f, t, s, m)
  PROVE  /\ Len(f) \in Nat \ {0} /\ Len(t) \in Nat \ {0} /\ m \in Nat /\ m = Len(f) + 1
         /\ Len(s) = m + Len(t) /\ s[m] = Colon
         /\ \A p \in 1 .. Len(f) : s[p] = f[p] /\ f[p] \in Chars
         /\ \A p \in 1 .. Len(t) : s[m + p] = t[p] /\ t[p] \in Chars
<1>1. /\ f \in Seq(Chars) /\ t \in Seq(Chars) /\ s \in Seq(Chars)
      /\ f # <<>> /\ t # <<>>
      /\ m = Len(f) + 1 /\ s = f \o <<Colon>> \o t
  BY DEF Beside
<1>2. Len(f) \in Nat \ {0} /\ Len(t) \in Nat \ {0}
  BY <1>1, EmptySeq
<1> DEFINE u == f \o <<Colon>>
<1>3. <<Colon>> \in Seq(Chars) /\ Len(<<Colon>>) = 1 /\ <<Colon>>[1] = Colon
  BY DEF Chars
<1>4. /\ u \in Seq(Chars) /\ Len(u) = Len(f) + 1
      /\ \A p \in 1 .. Len(f) + 1 : u[p] = IF p <= Len(f) THEN f[p] ELSE <<Colon>>[p - Len(f)]
  BY <1>1, <1>3, ConcatProperties
<1> HIDE DEF u
<1>5. /\ Len(s) = m + Len(t)
      /\ \A p \in 1 .. m + Len(t) : s[p] = IF p <= m THEN u[p] ELSE t[p - m]
  BY <1>1, <1>4, ConcatProperties DEF u
<1>6. s[m] = Colon
  <2>1. m \in 1 .. m + Len(t) /\ m <= m /\ ~(m <= Len(f)) /\ m - Len(f) = 1
    BY <1>1, <1>2
  <2>2. s[m] = u[m]
    BY <1>5, <2>1
  <2> QED BY <1>1, <1>2, <1>3, <1>4, <2>1, <2>2
<1>7. ASSUME NEW p \in 1 .. Len(f) PROVE s[p] = f[p] /\ f[p] \in Chars
  BY <1>1, <1>2, <1>4, <1>5, ElementOfSeq
<1>8. ASSUME NEW p \in 1 .. Len(t) PROVE s[m + p] = t[p] /\ t[p] \in Chars
  <2>1. m + p \in 1 .. m + Len(t) /\ ~(m + p <= m) /\ (m + p) - m = p
    BY <1>1, <1>2
  <2>2. s[m + p] = t[p]
    BY <1>5, <2>1
  <2> QED BY <1>1, <2>2, ElementOfSeq
<1> QED BY <1>1, <1>2, <1>5, <1>6, <1>7, <1>8

\* It is divided where either of the two is, and at the colon between.
LEMMA BesideCuts ==
  ASSUME NEW f, NEW t, NEW s, NEW m, Beside(f, t, s, m)
  PROVE  Cuts(s) = Cuts(f) \cup {m} \cup {m + c : c \in Cuts(t)}
<1>1. /\ Len(f) \in Nat \ {0} /\ Len(t) \in Nat \ {0} /\ m \in Nat /\ m = Len(f) + 1
      /\ Len(s) = m + Len(t) /\ s[m] = Colon
  BY BesideFacts
<1>2. /\ \A p \in 1 .. Len(f) : s[p] = f[p]
      /\ \A p \in 1 .. Len(t) : s[m + p] = t[p]
      /\ f[Len(f)] # Colon /\ t[1] # Colon
  BY BesideFacts DEF Beside
<1>3. ASSUME NEW p \in 1 .. Len(f)
      PROVE  OddRunEnds(s, p) <=> OddRunEnds(f, p)
  <2>1. CASE p = Len(f)
    BY <1>1, <1>2, <2>1 DEF OddRunEnds
  <2>2. CASE p < Len(f)
    <3>1. p + 1 \in 1 .. Len(f) /\ p < Len(s) /\ s[p] = f[p] /\ s[p + 1] = f[p + 1]
      BY <1>1, <1>2, <2>2
    <3>2. ASSUME NEW n \in Nat, 2 * n < p
          PROVE  /\ n \in 0 .. Len(s) /\ n \in 0 .. Len(f)
                 /\ \A k \in p - 2 * n .. p : s[k] = f[k]
                 /\ p - 2 * n > 1 => s[p - 2 * n - 1] = f[p - 2 * n - 1]
      <4>1. n \in 0 .. Len(s) /\ n \in 0 .. Len(f)
        BY <1>1, <2>2, <3>2
      <4>2. \A k \in p - 2 * n .. p : k \in 1 .. Len(f)
        BY <1>1, <2>2, <3>2
      <4>3. p - 2 * n > 1 => p - 2 * n - 1 \in 1 .. Len(f)
        BY <1>1, <2>2, <3>2
      <4> QED BY <1>2, <4>1, <4>2, <4>3
    <3>3. \A n \in 0 .. Len(s) : n \in Nat
      OBVIOUS
    <3>4. \A n \in 0 .. Len(f) : n \in Nat
      OBVIOUS
    <3>5. OddRunEnds(s, p) => OddRunEnds(f, p)
      BY <2>2, <3>1, <3>2, <3>3 DEF OddRunEnds
    <3>6. OddRunEnds(f, p) => OddRunEnds(s, p)
      BY <2>2, <3>1, <3>2, <3>4 DEF OddRunEnds
    <3> QED BY <3>5, <3>6
  <2> QED BY <1>1, <2>1, <2>2
<1>4. OddRunEnds(s, m)
  <2>1. s[m + 1] # Colon /\ s[m - 1] # Colon
    <3>1. 1 \in 1 .. Len(t) /\ Len(f) \in 1 .. Len(f) /\ m - 1 = Len(f)
      BY <1>1
    <3> QED BY <1>2, <3>1
  <2>2. 0 \in 0 .. Len(s) /\ m - 2 * 0 = m /\ \A k \in m .. m : k = m
    BY <1>1
  <2> QED BY <1>1, <2>1, <2>2 DEF OddRunEnds
<1>5. ASSUME NEW p \in 1 .. Len(t)
      PROVE  OddRunEnds(s, m + p) <=> OddRunEnds(t, p)
  <2>1. PICK q \in Nat : q = m + p
    BY <1>1
  <2>2. s[q] = t[p] /\ (q < Len(s) <=> p < Len(t)) /\ (p < Len(t) => s[q + 1] = t[p + 1])
    <3>1. p < Len(t) => p + 1 \in 1 .. Len(t) /\ m + (p + 1) = q + 1
      BY <1>1, <2>1
    <3> QED BY <1>1, <1>2, <2>1, <3>1
  <2>3. ASSUME NEW n \in Nat, 2 * n < p
        PROVE  /\ n \in 0 .. Len(s) /\ n \in 0 .. Len(t) /\ 2 * n < q
               /\ (\A k \in q - 2 * n .. q : s[k] = Colon) <=> (\A k \in p - 2 * n .. p : t[k] = Colon)
               /\ p - 2 * n > 1 => s[q - 2 * n - 1] = t[p - 2 * n - 1]
    <3>1. n \in 0 .. Len(s) /\ n \in 0 .. Len(t) /\ 2 * n < q
      BY <1>1, <2>1, <2>3
    <3>2. \A k \in q - 2 * n .. q : k - m \in p - 2 * n .. p /\ k - m \in 1 .. Len(t) /\ m + (k - m) = k
      BY <1>1, <2>1, <2>3
    <3>3. \A k \in p - 2 * n .. p : m + k \in q - 2 * n .. q /\ k \in 1 .. Len(t)
      BY <1>1, <2>1, <2>3
    <3>4. p - 2 * n > 1 => p - 2 * n - 1 \in 1 .. Len(t) /\ m + (p - 2 * n - 1) = q - 2 * n - 1
      BY <1>1, <2>1, <2>3
    <3>5. (\A k \in q - 2 * n .. q : s[k] = Colon) => (\A k \in p - 2 * n .. p : t[k] = Colon)
      BY <1>2, <3>3
    <3>6. (\A k \in p - 2 * n .. p : t[k] = Colon) => (\A k \in q - 2 * n .. q : s[k] = Colon)
      BY <1>2, <3>2
    <3>7. p - 2 * n > 1 => s[q - 2 * n - 1] = t[p - 2 * n - 1]
      BY <1>2, <3>4
    <3> QED BY <3>1, <3>5, <3>6, <3>7
  <2>4. ASSUME NEW n \in Nat, 2 * n < q, \A k \in q - 2 * n .. q : s[k] = Colon
        PROVE  2 * n < p /\ p - 2 * n > 1 /\ q - 2 * n > 1
    <3>1. s[m + 1] # Colon
      <4>1. 1 \in 1 .. Len(t)
        BY <1>1
      <4> QED BY <1>2, <4>1
    <3>2. m + 1 \notin q - 2 * n .. q
      BY <2>4, <3>1
    <3> QED BY <1>1, <2>1, <3>2
  <2>5. ASSUME NEW n \in Nat, 2 * n < p, \A k \in p - 2 * n .. p : t[k] = Colon
        PROVE  p - 2 * n > 1 /\ q - 2 * n > 1
    <3>1. 1 \notin p - 2 * n .. p
      BY <1>2, <2>5
    <3> QED BY <1>1, <2>1, <2>5, <3>1
  <2>6. OddRunEnds(s, q) => OddRunEnds(t, p)
    <3>1. SUFFICES ASSUME OddRunEnds(s, q) PROVE OddRunEnds(t, p)
      OBVIOUS
    <3>2. PICK n \in 0 .. Len(s) : /\ 2 * n < q
                                   /\ \A k \in q - 2 * n .. q : s[k] = Colon
                                   /\ q - 2 * n > 1 => s[q - 2 * n - 1] # Colon
      BY <3>1 DEF OddRunEnds
    <3>3. n \in Nat
      OBVIOUS
    <3>4. 2 * n < p /\ p - 2 * n > 1 /\ q - 2 * n > 1
      BY <2>4, <3>2, <3>3
    <3>5. /\ n \in 0 .. Len(t)
          /\ \A k \in p - 2 * n .. p : t[k] = Colon
          /\ t[p - 2 * n - 1] # Colon
      BY <2>3, <3>2, <3>3, <3>4
    <3> QED BY <2>2, <3>1, <3>4, <3>5 DEF OddRunEnds
  <2>7. OddRunEnds(t, p) => OddRunEnds(s, q)
    <3>1. SUFFICES ASSUME OddRunEnds(t, p) PROVE OddRunEnds(s, q)
      OBVIOUS
    <3>2. PICK n \in 0 .. Len(t) : /\ 2 * n < p
                                   /\ \A k \in p - 2 * n .. p : t[k] = Colon
                                   /\ p - 2 * n > 1 => t[p - 2 * n - 1] # Colon
      BY <3>1 DEF OddRunEnds
    <3>3. n \in Nat
      OBVIOUS
    <3>4. p - 2 * n > 1 /\ q - 2 * n > 1
      BY <2>5, <3>2, <3>3
    <3>5. /\ n \in 0 .. Len(s) /\ 2 * n < q
          /\ \A k \in q - 2 * n .. q : s[k] = Colon
          /\ s[q - 2 * n - 1] # Colon
      BY <2>3, <3>2, <3>3, <3>4
    <3> QED BY <2>2, <3>1, <3>5 DEF OddRunEnds
  <2> QED BY <2>1, <2>6, <2>7
<1>6. ASSUME NEW p \in Cuts(s) PROVE p \in Cuts(f) \cup {m} \cup {m + c : c \in Cuts(t)}
  <2>1. p \in 1 .. Len(s) /\ OddRunEnds(s, p)
    BY DEF Cuts
  <2>2. CASE p \in 1 .. Len(f)
    BY <1>3, <2>1, <2>2 DEF Cuts
  <2>3. CASE p - m \in 1 .. Len(t)
    <3>1. PICK q \in 1 .. Len(t) : p = m + q
      <4>1. p = m + (p - m)
        BY <1>1, <2>1
      <4> QED BY <2>3, <4>1
    <3>2. q \in Cuts(t)
      BY <1>5, <2>1, <3>1 DEF Cuts
    <3> QED BY <3>1, <3>2
  <2>4. p \in 1 .. Len(f) \/ p = m \/ p - m \in 1 .. Len(t)
    BY <1>1, <2>1
  <2> QED BY <2>2, <2>3, <2>4
<1>7. Cuts(f) \subseteq Cuts(s)
  BY <1>1, <1>3 DEF Cuts
<1>8. m \in Cuts(s)
  BY <1>1, <1>4 DEF Cuts
<1>9. ASSUME NEW c \in Cuts(t) PROVE m + c \in Cuts(s)
  <2>1. c \in 1 .. Len(t) /\ OddRunEnds(t, c)
    BY DEF Cuts
  <2>2. m + c \in 1 .. Len(s) /\ OddRunEnds(s, m + c)
    BY <1>1, <1>5, <2>1
  <2> QED BY <2>2 DEF Cuts
<1> QED BY <1>6, <1>7, <1>8, <1>9

\* Shifting a set of numbers does not change how many there are.
LEMMA ShiftedCount ==
  ASSUME NEW T, IsFiniteSet(T), T \subseteq Int, NEW m \in Int
  PROVE  IsFiniteSet({m + c : c \in T}) /\ Cardinality({m + c : c \in T}) = Cardinality(T)
<1> DEFINE U == {m + c : c \in T}
           g == [c \in T |-> m + c]
<1>1. g \in [T -> U] /\ \A a, b \in T : g[a] = g[b] => a = b
  OBVIOUS
<1>2. \A u \in U : \E c \in T : g[c] = u
  OBVIOUS
<1>3. g \in Bijection(T, U)
  <2> HIDE DEF g, U
  <2> QED BY <1>1, <1>2 DEF Bijection, Injection, Surjection, IsInjective
<1>4. ExistsBijection(T, U)
  <2> HIDE DEF g, U
  <2> QED BY <1>3 DEF ExistsBijection
<1> HIDE DEF U
<1>5. IsFiniteSet(U) /\ Cardinality(U) = Cardinality(T)
  BY <1>4, FS_Bijection
<1> QED BY <1>5 DEF U

\* The pieces of the first name stay pieces, its last one ends at the colon
\* between, and those of the second name follow.
LEMMA BesidePieces ==
  ASSUME NEW f, NEW t, NEW s, NEW m, Beside(f, t, s, m)
  PROVE  /\ \A c \in Cuts(f) : Piece(s, c) = Piece(f, c) /\ UpTo(s, c) = UpTo(f, c)
         /\ Piece(s, m) = Piece(f, Len(f) + 1) /\ Piece(s, m) # <<>>
         /\ UpTo(s, m) = Cuts(f) \cup {m}
         /\ \A p \in 1 .. Len(t) + 1 : Piece(s, m + p) = Piece(t, p)
         /\ \A c \in Cuts(t) : UpTo(s, m + c) = Cuts(f) \cup {m} \cup {m + d : d \in UpTo(t, c)}
<1>1. /\ Len(f) \in Nat \ {0} /\ Len(t) \in Nat \ {0} /\ m \in Nat /\ m = Len(f) + 1
      /\ Len(s) = m + Len(t) /\ s[m] = Colon
      /\ \A p \in 1 .. Len(f) : s[p] = f[p] /\ f[p] \in Chars
      /\ \A p \in 1 .. Len(t) : s[m + p] = t[p] /\ t[p] \in Chars
  BY BesideFacts
<1>2. f \in Seq(Chars) /\ t \in Seq(Chars) /\ s \in Seq(Chars) /\ f[Len(f)] # Colon
  BY DEF Beside
<1>3. Cuts(s) = Cuts(f) \cup {m} \cup {m + c : c \in Cuts(t)}
  BY BesideCuts
<1>4. Cuts(f) \subseteq 1 .. Len(f) /\ Cuts(t) \subseteq 1 .. Len(t)
  BY <1>2, CutFacts
<1>5. /\ \A c \in Cuts(f) : c \in Nat \ {0} /\ c < m
      /\ \A c \in Cuts(t) : c \in Nat \ {0} /\ m + c > m
  BY <1>1, <1>4
<1>6. ASSUME NEW p \in 1 .. m
      PROVE  LastCut(s, p) = LastCut(f, p) /\ Piece(s, p) = Piece(f, p)
  <2>0. p \in Nat \ {0}
    BY <1>1
  <2>1. PICK c \in Nat : c = LastCut(f, p)
    BY <1>2, <2>0, LastCutExists
  <2>2. c \in Cuts(f) \cup {0} /\ c < p /\ \A d \in Cuts(f) : d < p => d <= c
    BY <1>2, <2>0, <2>1, LastCutExists
  <2>3. \A d \in Cuts(s) : d < p => d \in Cuts(f)
    BY <1>1, <1>3, <1>5
  <2>4. LastCut(s, p) = c
    BY <1>2, <1>3, <2>2, <2>3, LastCutIs
  <2>5. \A k \in 1 + c .. p - 1 : s[0 + k] = f[k] /\ f[k] \in Chars
    BY <1>1, <2>1
  <2>6. SubSeq(s, 0 + (1 + c), 0 + (p - 1)) = SubSeq(f, 1 + c, p - 1)
    <3>1. 1 + c \in Int /\ p - 1 \in Int /\ 0 \in Int
      BY <1>1
    <3> QED BY <2>5, <3>1, SamePart
  <2>7. 0 + (1 + c) = 1 + c /\ 0 + (p - 1) = p - 1
    BY <1>1
  <2> QED BY <2>1, <2>4, <2>6, <2>7 DEF Piece
<1>7. ASSUME NEW p \in 1 .. Len(t) + 1
      PROVE  Piece(s, m + p) = Piece(t, p)
  <2>0. p \in Nat \ {0}
    BY <1>1
  <2>1. PICK c \in Nat : c = LastCut(t, p)
    BY <1>2, <2>0, LastCutExists
  <2>2. c \in Cuts(t) \cup {0} /\ c < p /\ \A d \in Cuts(t) : d < p => d <= c
    BY <1>2, <2>0, <2>1, LastCutExists
  <2>3. PICK q \in Nat, e \in Nat : q = m + p /\ e = m + c
    BY <1>1
  <2>4. e \in Cuts(s) /\ e < q
    BY <1>1, <1>3, <2>2, <2>3
  <2>5. ASSUME NEW d \in Cuts(s), d < q PROVE d <= e
    <3>1. CASE d \in Cuts(f) \/ d = m
      BY <1>1, <1>5, <2>3, <3>1
    <3>2. ASSUME NEW b \in Cuts(t), d = m + b PROVE d <= e
      <4>1. b < p /\ b \in Nat
        BY <1>1, <1>5, <2>3, <2>5, <3>2
      <4>2. b <= c
        BY <2>2, <4>1
      <4> QED BY <1>1, <2>3, <3>2, <4>1, <4>2
    <3> QED BY <1>3, <3>1, <3>2
  <2>6. LastCut(s, q) = e
    BY <1>2, <2>4, <2>5, LastCutIs
  <2>7. \A k \in 1 + c .. p - 1 : s[m + k] = t[k] /\ t[k] \in Chars
    <3>1. \A k \in 1 + c .. p - 1 : k \in 1 .. Len(t)
      BY <1>1, <2>1
    <3> QED BY <1>1, <3>1
  <2>8. SubSeq(s, m + (1 + c), m + (p - 1)) = SubSeq(t, 1 + c, p - 1)
    <3>1. 1 + c \in Int /\ p - 1 \in Int /\ m \in Int
      BY <1>1
    <3> QED BY <2>7, <3>1, SamePart
  <2>9. m + (1 + c) = 1 + e /\ m + (p - 1) = q - 1
    BY <1>1, <2>3
  <2> QED BY <2>1, <2>3, <2>6, <2>8, <2>9 DEF Piece
<1>8. \A c \in Cuts(f) : UpTo(s, c) = UpTo(f, c)
  BY <1>1, <1>3, <1>5 DEF UpTo
<1>9. UpTo(s, m) = Cuts(f) \cup {m}
  BY <1>1, <1>3, <1>5 DEF UpTo
<1>10. ASSUME NEW c \in Cuts(t)
       PROVE  UpTo(s, m + c) = Cuts(f) \cup {m} \cup {m + d : d \in UpTo(t, c)}
  <2>1. \A d \in Cuts(f) \cup {m} : d <= m + c
    BY <1>1, <1>5
  <2>2. \A d \in Cuts(t) : m + d <= m + c <=> d <= c
    BY <1>1, <1>5
  <2> QED BY <1>3, <2>1, <2>2 DEF UpTo
<1>11. Piece(s, m) # <<>>
  <2>1. PICK c \in Nat : c = LastCut(f, m)
    BY <1>1, <1>2, LastCutExists
  <2>2. c \in Cuts(f) \cup {0} /\ c < m
    BY <1>1, <1>2, <2>1, LastCutExists
  <2>3. c # Len(f)
    <3>1. Len(f) \notin Cuts(f)
      BY <1>2 DEF Cuts, OddRunEnds
    <3> QED BY <1>1, <2>2, <3>1
  <2>4. 1 + c <= m - 1
    BY <1>1, <2>2, <2>3
  <2>5. \A k \in 1 + c .. m - 1 : f[k] \in Chars
    BY <1>1, <2>1
  <2>6. Len(SubSeq(f, 1 + c, m - 1)) = (m - 1) - (1 + c) + 1
    <3>1. 1 + c \in Int /\ m - 1 \in Int
      BY <1>1
    <3> QED BY <2>4, <2>5, <3>1, SubSeqProperties
  <2>7. Len(Piece(f, m)) # 0
    BY <1>1, <2>1, <2>4, <2>6 DEF Piece
  <2>8. Piece(s, m) = Piece(f, m)
    BY <1>1, <1>6
  <2> QED BY <2>7, <2>8
<1>12. \A c \in Cuts(f) : Piece(s, c) = Piece(f, c)
  BY <1>1, <1>5, <1>6
<1>13. Piece(s, m) = Piece(f, Len(f) + 1)
  BY <1>1, <1>6
<1> QED BY <1>7, <1>8, <1>9, <1>10, <1>11, <1>12, <1>13

\* The pieces of the joined name are those of the one and those of the other.
LEMMA PiecesJoin ==
  ASSUME NEW f, NEW t, NEW s, NEW m, Beside(f, t, s, m)
  PROVE  Pieces(s) = Pieces(f) \o Pieces(t)
<1>1. /\ Len(f) \in Nat \ {0} /\ Len(t) \in Nat \ {0} /\ m \in Nat /\ m = Len(f) + 1
      /\ Len(s) = m + Len(t)
      /\ f \in Seq(Chars) /\ t \in Seq(Chars) /\ s \in Seq(Chars)
  BY BesideFacts DEF Beside
<1>2. PICK nf \in Nat, nt \in Nat : nf = Cardinality(Cuts(f)) /\ nt = Cardinality(Cuts(t))
  BY <1>1, CutFacts
<1>3. /\ IsFiniteSet(Cuts(f)) /\ IsFiniteSet(Cuts(t))
      /\ Cuts(f) \subseteq 1 .. Len(f) /\ Cuts(t) \subseteq 1 .. Len(t)
      /\ Cuts(s) = Cuts(f) \cup {m} \cup {m + c : c \in Cuts(t)}
  BY <1>1, CutFacts, BesideCuts
<1>4. ASSUME NEW T \in SUBSET Cuts(t)
      PROVE  Cardinality(Cuts(f) \cup {m} \cup {m + c : c \in T}) = nf + 1 + Cardinality(T)
  <2> DEFINE F == Cuts(f) \cup {m}
             G == {m + c : c \in T}
  <2>0. m \in Int
    BY <1>1
  <2>1. IsFiniteSet(T) /\ T \subseteq Int /\ Cardinality(T) \in Nat
    BY <1>1, <1>3, CutFacts
  <2>2. IsFiniteSet(G) /\ Cardinality(G) = Cardinality(T)
    BY <2>1, <2>0, ShiftedCount
  <2>3. m \notin Cuts(f)
    BY <1>1, <1>3
  <2>4. IsFiniteSet(F) /\ Cardinality(F) = nf + 1
    BY <1>2, <1>3, <2>3, FS_AddElement
  <2>5. F \cap G = {}
    BY <1>1, <1>3
  <2> HIDE DEF F, G
  <2>6. Cardinality(F \cup G) = nf + 1 + Cardinality(T) - 0
    BY <2>2, <2>4, <2>5, FS_Union, FS_EmptySet
  <2> QED BY <1>2, <2>1, <2>6 DEF F, G
<1>5. Cardinality(Cuts(s)) = nf + 1 + nt
  BY <1>2, <1>3, <1>4
<1>6. /\ \A c \in Cuts(f) : Piece(s, c) = Piece(f, c) /\ UpTo(s, c) = UpTo(f, c)
      /\ Piece(s, m) = Piece(f, Len(f) + 1) /\ Piece(s, m) # <<>>
      /\ UpTo(s, m) = Cuts(f) \cup {m}
      /\ \A p \in 1 .. Len(t) + 1 : Piece(s, m + p) = Piece(t, p)
      /\ \A c \in Cuts(t) : UpTo(s, m + c) = Cuts(f) \cup {m} \cup {m + d : d \in UpTo(t, c)}
  BY BesidePieces
<1>7. ASSUME NEW k \in 1 .. nf
      PROVE  Piece(s, NthCut(s, k)) = Piece(f, NthCut(f, k))
  <2>1. PICK c \in Cuts(f) : c = NthCut(f, k) /\ Cardinality(UpTo(f, c)) = k
    BY <1>1, <1>2, NthCutExists
  <2>2. c \in Cuts(s) /\ UpTo(s, c) = UpTo(f, c)
    BY <1>3, <1>6
  <2>3. NthCut(s, k) = c
    BY <1>1, <2>1, <2>2, NthCutIs
  <2> QED BY <1>6, <2>1, <2>3
<1>8. NthCut(s, nf + 1) = m
  <2>1. m \in Cuts(s) /\ m \notin Cuts(f)
    BY <1>1, <1>3
  <2>2. Cardinality(UpTo(s, m)) = nf + 1
    BY <1>2, <1>3, <1>6, <2>1, FS_AddElement
  <2> QED BY <1>1, <2>1, <2>2, NthCutIs
<1>9. ASSUME NEW k \in 1 .. nt
      PROVE  Piece(s, NthCut(s, nf + 1 + k)) = Piece(t, NthCut(t, k))
  <2>1. PICK c \in Cuts(t) : c = NthCut(t, k) /\ Cardinality(UpTo(t, c)) = k
    BY <1>1, <1>2, NthCutExists
  <2>2. UpTo(t, c) \in SUBSET Cuts(t)
    BY DEF UpTo
  <2>3. Cardinality(UpTo(s, m + c)) = nf + 1 + k
    BY <1>4, <1>6, <2>1, <2>2
  <2>4. m + c \in Cuts(s)
    BY <1>3
  <2>5. NthCut(s, nf + 1 + k) = m + c
    BY <1>1, <2>3, <2>4, NthCutIs
  <2>6. c \in 1 .. Len(t) + 1
    BY <1>1, <1>3
  <2> QED BY <1>6, <2>1, <2>5, <2>6
<1>10. PICK rt : rt = Piece(t, Len(t) + 1) /\ rt = Piece(s, Len(s) + 1)
  <2>1. Len(t) + 1 \in 1 .. Len(t) + 1 /\ m + (Len(t) + 1) = Len(s) + 1
    BY <1>1
  <2> QED BY <1>6, <2>1
<1>11. PICK pf \in Seq(Seq(Chars)), pt \in Seq(Seq(Chars)), ps \in Seq(Seq(Chars)) :
         pf = Pieces(f) /\ pt = Pieces(t) /\ ps = Pieces(s)
  BY <1>1, PiecesFacts
<1>12. /\ Len(pf) = nf + 1
       /\ \A k \in 1 .. nf : pf[k] = Piece(f, NthCut(f, k))
       /\ pf[nf + 1] = Piece(s, m)
  BY <1>1, <1>2, <1>6, <1>11, PiecesFacts
<1>13. /\ Len(pt) = IF rt = <<>> THEN nt ELSE nt + 1
       /\ \A k \in 1 .. nt : pt[k] = Piece(t, NthCut(t, k))
       /\ rt # <<>> => pt[nt + 1] = rt
  BY <1>1, <1>2, <1>10, <1>11, PiecesFacts
<1>14. PICK ns \in Nat : ns = nf + 1 + nt
  OBVIOUS
<1>15. /\ Len(ps) = IF rt = <<>> THEN ns ELSE ns + 1
       /\ \A k \in 1 .. ns : ps[k] = Piece(s, NthCut(s, k))
       /\ rt # <<>> => ps[ns + 1] = rt
  BY <1>1, <1>5, <1>10, <1>11, <1>14, PiecesFacts
<1> DEFINE c == pf \o pt
<1>16. /\ c \in Seq(Seq(Chars)) /\ Len(c) = Len(pf) + Len(pt)
       /\ \A k \in 1 .. Len(pf) + Len(pt) : c[k] = IF k <= Len(pf) THEN pf[k] ELSE pt[k - Len(pf)]
  BY <1>11, ConcatProperties
<1> HIDE DEF c
<1>17. Len(c) = Len(ps)
  BY <1>12, <1>13, <1>14, <1>15, <1>16
<1>18. ASSUME NEW k \in 1 .. Len(ps) PROVE ps[k] = c[k]
  <2>1. CASE k \in 1 .. nf
    <3>1. k \in 1 .. ns /\ k \in 1 .. Len(pf) + Len(pt) /\ k <= Len(pf)
      BY <1>12, <1>14, <1>16, <1>17, <2>1
    <3>2. c[k] = pf[k]
      BY <1>16, <3>1
    <3> QED BY <1>7, <1>12, <1>15, <2>1, <3>1, <3>2
  <2>2. CASE k = nf + 1
    <3>1. k \in 1 .. ns /\ k \in 1 .. Len(pf) + Len(pt) /\ k <= Len(pf)
      BY <1>12, <1>14, <1>16, <1>17, <2>2
    <3>2. c[k] = pf[k]
      BY <1>16, <3>1
    <3> QED BY <1>8, <1>12, <1>15, <2>2, <3>1, <3>2
  <2>3. CASE k - (nf + 1) \in 1 .. nt
    <3>1. PICK h \in 1 .. nt : k = nf + 1 + h /\ h = k - Len(pf)
      <4>1. k = nf + 1 + (k - (nf + 1))
        OBVIOUS
      <4> QED BY <1>12, <2>3, <4>1
    <3>2. k \in 1 .. ns /\ k \in 1 .. Len(pf) + Len(pt) /\ ~(k <= Len(pf))
      BY <1>12, <1>14, <1>16, <1>17, <3>1
    <3>3. c[k] = pt[h]
      BY <1>16, <3>1, <3>2
    <3> QED BY <1>9, <1>13, <1>15, <3>1, <3>2, <3>3
  <2>4. CASE k = ns + 1
    <3>1. rt # <<>>
      BY <1>15, <2>4
    <3>2. k \in 1 .. Len(pf) + Len(pt) /\ ~(k <= Len(pf)) /\ k - Len(pf) = nt + 1
      BY <1>12, <1>14, <1>16, <1>17, <2>4
    <3>3. c[k] = pt[nt + 1]
      BY <1>16, <3>2
    <3> QED BY <1>13, <1>15, <2>4, <3>1, <3>3
  <2> QED BY <1>14, <1>15, <2>1, <2>2, <2>3, <2>4
<1>19. ps = c
  BY <1>11, <1>16, <1>17, <1>18, SeqEqual
<1> QED BY <1>11, <1>19 DEF c

\* A text that does not begin with a colon has a first piece that is not empty,
\* and one that does not end with a colon such a last one.
LEMMA FirstPiece ==
  ASSUME NEW t \in Seq(Chars), t # <<>>, t[1] # Colon
  PROVE  Pieces(t)[1] # <<>>
<1>1. Len(t) \in Nat
  BY LenProperties
<1>2. PICK nt \in Nat : nt = Cardinality(Cuts(t))
  BY CutFacts
<1>3. PICK rt : rt = Piece(t, Len(t) + 1)
  OBVIOUS
<1>4. /\ Len(Pieces(t)) = IF rt = <<>> THEN nt ELSE nt + 1
      /\ \A k \in 1 .. nt : Pieces(t)[k] = Piece(t, NthCut(t, k))
      /\ rt # <<>> => Pieces(t)[nt + 1] = rt
      /\ Pieces(t) # <<>> /\ Pieces(t) \in Seq(Seq(Chars))
  BY <1>2, <1>3, PiecesFacts
<1>5. CASE nt = 0
  <2>1. Len(Pieces(t)) # 0
    BY <1>4, EmptySeq
  <2> QED BY <1>4, <1>5, <2>1
<1>6. CASE nt # 0
  <2>1. 1 \in 1 .. nt
    BY <1>2, <1>6
  <2>2. PICK c \in Cuts(t) : c = NthCut(t, 1) /\ Cardinality(UpTo(t, c)) = 1
    BY <1>2, <2>1, NthCutExists
  <2>3. c \in 1 .. Len(t) /\ c \in Nat \ {0} /\ t[c] = Colon
    BY CutFacts DEF Cuts, OddRunEnds
  <2>4. c > 1
    BY <2>3
  <2>5. LastCut(t, c) = 0
    <3>1. PICK d \in Nat : d = LastCut(t, c) /\ d \in Cuts(t) \cup {0} /\ d < c
      BY <2>3, LastCutExists
    <3>2. ASSUME d \in Cuts(t) PROVE FALSE
      <4>1. Cardinality(UpTo(t, d)) < 1 /\ Cardinality(UpTo(t, d)) \in 1 .. nt
        BY <1>2, <2>2, <3>1, <3>2, CountFacts
      <4> QED BY <4>1
    <3> QED BY <3>1, <3>2
  <2>6. Len(SubSeq(t, 1, c - 1)) = (c - 1) - 1 + 1
    <3>1. \A k \in 1 .. c - 1 : t[k] \in Chars
      <4>1. \A k \in 1 .. c - 1 : k \in 1 .. Len(t)
        BY <1>1, <2>3
      <4> QED BY <4>1, ElementOfSeq
    <3>2. c - 1 \in Int /\ 1 \in Int /\ 1 <= c - 1
      BY <2>3, <2>4
    <3> QED BY <3>1, <3>2, SubSeqProperties
  <2>7. Len(Piece(t, c)) # 0
    BY <2>3, <2>4, <2>5, <2>6 DEF Piece
  <2>8. Pieces(t)[1] = Piece(t, c)
    BY <1>4, <2>1, <2>2
  <2> QED BY <2>7, <2>8
<1> QED BY <1>5, <1>6

LEMMA LastPiece ==
  ASSUME NEW f, NEW t, NEW s, NEW m, Beside(f, t, s, m)
  PROVE  Pieces(f)[Len(Pieces(f))] # <<>>
<1>1. f \in Seq(Chars) /\ m = Len(f) + 1
  BY DEF Beside
<1>2. PICK n \in Nat : n = Cardinality(Cuts(f))
  BY <1>1, CutFacts
<1>3. Piece(f, Len(f) + 1) # <<>>
  BY <1>1, BesidePieces
<1> QED BY <1>1, <1>2, <1>3, PiecesFacts

\* What is known of the part before the last element, of a longer sequence and
\* of the rest, in terms of the length.
LEMMA BeforeLast ==
  ASSUME NEW P, NEW s \in Seq(P), NEW n \in Nat, Len(s) = n + 1,
         NEW c, c = SubSeq(s, 1, Len(s) - 1)
  PROVE  c \in Seq(P) /\ Len(c) = n /\ \A k \in 1 .. n : c[k] = s[k]
<1>1. Len(s) - 1 = n /\ \A k \in 1 .. n : k \in 1 .. Len(s) /\ k \in 1 .. n - 1 + 1 /\ 1 + k - 1 = k
  OBVIOUS
<1>2. \A k \in 1 .. n : s[k] \in P
  BY <1>1, ElementOfSeq
<1>3. /\ SubSeq(s, 1, n) \in Seq(P)
      /\ Len(SubSeq(s, 1, n)) = IF 1 <= n THEN n - 1 + 1 ELSE 0
      /\ \A k \in 1 .. n - 1 + 1 : SubSeq(s, 1, n)[k] = s[1 + k - 1]
  BY <1>2, SubSeqProperties
<1>4. c = SubSeq(s, 1, n)
  BY <1>1
<1> QED BY <1>1, <1>3, <1>4

LEMMA Lengthened ==
  ASSUME NEW P, NEW s \in Seq(P), NEW u \in P, NEW n, Len(s) = n, NEW c, c = Append(s, u)
  PROVE  /\ c \in Seq(P) /\ Len(c) = n + 1 /\ c[n + 1] = u
         /\ \A k \in 1 .. n : c[k] = s[k]
<1>1. /\ Append(s, u) \in Seq(P) /\ Len(Append(s, u)) = Len(s) + 1
      /\ \A k \in 1 .. Len(s) : Append(s, u)[k] = s[k]
      /\ Append(s, u)[Len(s) + 1] = u
  BY AppendProperties
<1> QED BY <1>1

LEMMA WithoutFirst ==
  ASSUME NEW P, NEW s \in Seq(P), NEW n \in Nat, Len(s) = n + 1, NEW c, c = Tail(s)
  PROVE  c \in Seq(P) /\ Len(c) = n /\ \A k \in 1 .. n : c[k] = s[k + 1]
<1>1. s # <<>>
  BY EmptySeq
<1>2. Tail(s) \in Seq(P) /\ Len(Tail(s)) = Len(s) - 1 /\ \A k \in 1 .. Len(Tail(s)) : Tail(s)[k] = s[k + 1]
  BY <1>1, HeadTailProperties
<1> QED BY <1>2

\* An identifier of two groups of pieces has those of the first in front of its
\* path, and is absolute if the first is.
LEMMA IdentifierOfBoth ==
  ASSUME NEW P, NEW a \in Seq(P), NEW b \in Seq(P), a # <<>>, b # <<>>,
         a[Len(a)] # <<>>, b[1] # <<>>
  PROVE  Identifier(a \o b) = [absolute |-> Identifier(a).absolute,
                               path |-> Append(Identifier(a).path, Identifier(a).name)
                                          \o Identifier(b).path,
                               name |-> Identifier(b).name]
<1>1. PICK m \in Nat, n \in Nat : Len(a) = m + 1 /\ Len(b) = n + 1
  <2>1. Len(a) \in Nat \ {0} /\ Len(b) \in Nat \ {0}
    BY EmptySeq
  <2>2. Len(a) - 1 \in Nat /\ Len(b) - 1 \in Nat /\ Len(a) = (Len(a) - 1) + 1
        /\ Len(b) = (Len(b) - 1) + 1
    BY <2>1
  <2> QED BY <2>2
<1>2. PICK u \in P : u = a[m + 1]
  <2>1. m + 1 \in 1 .. Len(a)
    BY <1>1
  <2> QED BY <2>1, ElementOfSeq
<1>a. PICK pa, pb, ab, pc :
        /\ pa = SubSeq(a, 1, Len(a) - 1) /\ pb = SubSeq(b, 1, Len(b) - 1)
        /\ ab = a \o b /\ pc = SubSeq(ab, 1, Len(ab) - 1)
  OBVIOUS
<1>3. pa \in Seq(P) /\ Len(pa) = m /\ \A k \in 1 .. m : pa[k] = a[k]
  BY <1>1, <1>a, BeforeLast
<1>4. pb \in Seq(P) /\ Len(pb) = n /\ \A k \in 1 .. n : pb[k] = b[k]
  BY <1>1, <1>a, BeforeLast
<1>5. /\ ab \in Seq(P) /\ Len(ab) = (m + 1) + (n + 1)
      /\ \A k \in 1 .. (m + 1) + (n + 1) : ab[k] = IF k <= m + 1 THEN a[k] ELSE b[k - (m + 1)]
  <2>1. /\ ab \in Seq(P) /\ Len(ab) = Len(a) + Len(b)
        /\ \A k \in 1 .. Len(a) + Len(b) :
             ab[k] = IF k <= Len(a) THEN a[k] ELSE b[k - Len(a)]
    BY <1>a, ConcatProperties
  <2> QED BY <1>1, <2>1
<1>6. /\ pc \in Seq(P) /\ Len(pc) = (m + 1) + n
      /\ \A k \in 1 .. (m + 1) + n : pc[k] = ab[k]
  <2>1. PICK q \in Nat : q = (m + 1) + n /\ (m + 1) + (n + 1) = q + 1
    OBVIOUS
  <2>2. ab \in Seq(P) /\ Len(ab) = q + 1
    BY <1>5, <2>1
  <2>3. pc \in Seq(P) /\ Len(pc) = q /\ \A k \in 1 .. q : pc[k] = ab[k]
    BY <1>a, <2>2, BeforeLast
  <2> QED BY <2>1, <2>3
<1>7. ab[Len(ab)] = b[Len(b)]
  <2>1. /\ (m + 1) + (n + 1) \in 1 .. (m + 1) + (n + 1)
        /\ ~((m + 1) + (n + 1) <= m + 1) /\ ((m + 1) + (n + 1)) - (m + 1) = n + 1
    OBVIOUS
  <2> QED BY <1>1, <1>5, <2>1
<1>8. a = Append(pa, u)
  <2>0. PICK c : c = Append(pa, u)
    OBVIOUS
  <2>1. /\ c \in Seq(P) /\ Len(c) = m + 1 /\ c[m + 1] = u
        /\ \A k \in 1 .. m : c[k] = pa[k]
    BY <1>3, <2>0, Lengthened
  <2>2. \A k \in 1 .. m + 1 : k \in 1 .. m \/ k = m + 1
    OBVIOUS
  <2>3. \A k \in 1 .. m + 1 : c[k] = a[k]
    BY <1>2, <1>3, <2>1, <2>2
  <2>4. c = a
    BY <1>1, <2>1, <2>3, SeqEqual
  <2> QED BY <2>0, <2>4
<1>9. pc = a \o pb
  <2>0. PICK c : c = a \o pb
    OBVIOUS
  <2>1. /\ c \in Seq(P) /\ Len(c) = (m + 1) + n
        /\ \A k \in 1 .. (m + 1) + n : c[k] = IF k <= m + 1 THEN a[k] ELSE pb[k - (m + 1)]
    <3>1. /\ c \in Seq(P) /\ Len(c) = Len(a) + Len(pb)
          /\ \A k \in 1 .. Len(a) + Len(pb) :
               c[k] = IF k <= Len(a) THEN a[k] ELSE pb[k - Len(a)]
      BY <1>4, <2>0, ConcatProperties
    <3> QED BY <1>1, <1>4, <3>1
  <2>2. ASSUME NEW k \in 1 .. (m + 1) + n PROVE pc[k] = c[k]
    <3>1. k \in 1 .. (m + 1) + (n + 1) /\ (~(k <= m + 1) => k - (m + 1) \in 1 .. n)
      OBVIOUS
    <3> QED BY <1>4, <1>5, <1>6, <2>1, <3>1
  <2>3. pc = c
    <3>1. pc \in Seq(P) /\ c \in Seq(P) /\ Len(pc) = Len(c) /\ Len(pc) = (m + 1) + n
      BY <1>6, <2>1
    <3> QED BY <2>2, <3>1, SeqEqual
  <2> QED BY <2>0, <2>3
<1>10. ~IsAbsolute(pb)
  <2>1. pb # <<>> => n # 0
    BY <1>4, EmptySeq
  <2>2. n # 0 => 1 \in 1 .. n
    OBVIOUS
  <2> QED BY <1>4, <2>1, <2>2 DEF IsAbsolute
<1>11. pc # <<>> /\ pc[1] = a[1]
  <2>1. 1 \in 1 .. (m + 1) + n /\ 1 \in 1 .. (m + 1) + (n + 1) /\ 1 <= m + 1 /\ (m + 1) + n # 0
    OBVIOUS
  <2> QED BY <1>5, <1>6, <2>1, EmptySeq
<1>12. IsAbsolute(pc) <=> IsAbsolute(pa)
  <2>1. CASE m = 0
    <3>1. pa = <<>> /\ a[1] # <<>>
      BY <1>1, <1>3, <2>1, EmptySeq
    <3> QED BY <1>11, <3>1 DEF IsAbsolute
  <2>2. CASE m # 0
    <3>1. 1 \in 1 .. m /\ Len(pa) # 0
      BY <1>3, <2>2
    <3>2. pa # <<>> /\ pa[1] = a[1]
      BY <1>3, <3>1, EmptySeq
    <3> QED BY <1>11, <3>2 DEF IsAbsolute
  <2> QED BY <2>1, <2>2
<1>13. /\ Identifier(a).absolute = IsAbsolute(pa)
       /\ Identifier(a).path = IF IsAbsolute(pa) THEN Tail(pa) ELSE pa
       /\ Identifier(a).name = u
  BY <1>1, <1>2, <1>a DEF Identifier
<1>14. Identifier(b).path = pb /\ Identifier(b).name = b[Len(b)]
  BY <1>10, <1>a DEF Identifier
<1>15. Identifier(ab) = [absolute |-> IsAbsolute(pc),
                         path |-> IF IsAbsolute(pc) THEN Tail(pc) ELSE pc,
                         name |-> b[Len(b)]]
  BY <1>7, <1>a DEF Identifier
<1>16. PICK ns \in Seq(P) : ns = Identifier(a).path
  <2>1. IsAbsolute(pa) => Tail(pa) \in Seq(P)
    BY <1>3, HeadTailProperties DEF IsAbsolute
  <2> QED BY <1>3, <1>13, <2>1
<1>17. Append(ns, u) \o pb = IF IsAbsolute(pc) THEN Tail(pc) ELSE pc
  <2>1. CASE ~IsAbsolute(pa)
    BY <1>8, <1>9, <1>12, <1>13, <1>16, <2>1
  <2>2. CASE IsAbsolute(pa)
    <3>1. pa # <<>> /\ ns = Tail(pa)
      BY <1>13, <1>16, <2>2 DEF IsAbsolute
    <3>2. Tail(a) = Append(ns, u)
      BY <1>8, <3>1, HeadTailAppend
    <3>0. PICK ta, tc, c : ta = Tail(a) /\ tc = Tail(pc) /\ c = ta \o pb
      OBVIOUS
    <3>3. ta \in Seq(P) /\ Len(ta) = m /\ \A k \in 1 .. m : ta[k] = a[k + 1]
      BY <1>1, <3>0, WithoutFirst
    <3>4. tc \in Seq(P) /\ Len(tc) = m + n /\ \A k \in 1 .. m + n : tc[k] = pc[k + 1]
      <4>1. PICK q \in Nat : q = m + n /\ (m + 1) + n = q + 1
        OBVIOUS
      <4>2. pc \in Seq(P) /\ Len(pc) = q + 1
        BY <1>6, <4>1
      <4>3. tc \in Seq(P) /\ Len(tc) = q /\ \A k \in 1 .. q : tc[k] = pc[k + 1]
        BY <3>0, <4>2, WithoutFirst
      <4> QED BY <4>1, <4>3
    <3>5. /\ c \in Seq(P) /\ Len(c) = m + n
          /\ \A k \in 1 .. m + n : c[k] = IF k <= m THEN ta[k] ELSE pb[k - m]
      <4>1. /\ c \in Seq(P) /\ Len(c) = Len(ta) + Len(pb)
            /\ \A k \in 1 .. Len(ta) + Len(pb) :
                 c[k] = IF k <= Len(ta) THEN ta[k] ELSE pb[k - Len(ta)]
        <5>1. ta \in Seq(P) /\ pb \in Seq(P) /\ c = ta \o pb
          BY <1>4, <3>0, <3>3
        <5> QED BY <5>1, ConcatProperties
      <4> QED BY <1>4, <3>3, <4>1
    <3>6. ASSUME NEW k \in 1 .. m + n PROVE tc[k] = c[k]
      <4>1. PICK h \in Nat : h = k + 1
        OBVIOUS
      <4>2. /\ h \in 1 .. (m + 1) + n /\ h \in 1 .. (m + 1) + (n + 1)
            /\ (h <= m + 1 <=> k <= m) /\ h - (m + 1) = k - m
            /\ (k <= m => k \in 1 .. m) /\ (~(k <= m) => k - m \in 1 .. n)
        BY <4>1
      <4>3. tc[k] = IF k <= m THEN a[h] ELSE b[k - m]
        BY <1>5, <1>6, <3>4, <4>1, <4>2
      <4> QED BY <1>4, <3>3, <3>5, <4>1, <4>2, <4>3
    <3>7. tc = c
      <4>1. tc \in Seq(P) /\ c \in Seq(P) /\ Len(tc) = Len(c) /\ Len(tc) = m + n
        BY <3>4, <3>5
      <4> QED BY <3>6, <4>1, SeqEqual
    <3> QED BY <1>12, <2>2, <3>0, <3>2, <3>7
  <2> QED BY <2>1, <2>2
<1>18. Identifier(ab) = [absolute |-> Identifier(a).absolute, path |-> Append(ns, u) \o pb,
                         name |-> Identifier(b).name]
  <2>1. [absolute |-> IsAbsolute(pc), path |-> Append(ns, u) \o pb, name |-> b[Len(b)]]
          = [absolute |-> Identifier(a).absolute, path |-> Append(ns, u) \o pb,
             name |-> Identifier(b).name]
    <3>1. IsAbsolute(pc) = IsAbsolute(pa)
      BY <1>12 DEF IsAbsolute
    <3> QED BY <1>13, <1>14, <3>1
  <2> QED BY <1>15, <1>17, <2>1
<1> QED BY <1>a, <1>13, <1>14, <1>16, <1>18

\* Where the colon that __using puts between the two stands alone, the result
\* names what thing names, inside the namespace that from names: for names of
\* any length, and absolute exactly if from is.
THEOREM UsingJoins == Spec => []UsingNamesThing
<1>1. TypeOK /\ DividedAtSingleColons => UsingNamesThing
  <2> SUFFICES ASSUME TypeOK, DividedAtSingleColons,
                      result # None, from # None, from # <<>>, from[Len(from)] # Colon,
                      thing # <<>>, thing[1] # Colon
               PROVE  result = [absolute |-> Meaning(from).absolute,
                                path |-> Append(Meaning(from).path, Meaning(from).name)
                                           \o Meaning(thing).path,
                                name |-> Meaning(thing).name]
    BY DEF UsingNamesThing
  <2>1. PICK s : s = Joined
    OBVIOUS
  <2>2. Beside(from, thing, s, Len(from) + 1)
    <3>1. from \in Seq(Chars) /\ thing \in Seq(Chars) /\ s \in Seq(Chars)
      BY <2>1, AtFacts DEF TypeOK
    <3>2. s = from \o <<Colon>> \o thing
      BY <2>1 DEF Joined
    <3> QED BY <3>1, <3>2 DEF Beside
  <2>3. s # <<>>
    <3>1. Len(s) = Len(from) + 1 + Len(thing) /\ Len(from) \in Nat /\ Len(thing) \in Nat
      BY <2>2, BesideFacts
    <3> QED BY <3>1
  <2>4. result = Identifier(Pieces(from) \o Pieces(thing))
    BY <2>1, <2>2, <2>3, PiecesJoin DEF DividedAtSingleColons, Meaning
  <2>5. /\ Pieces(from) \in Seq(Seq(Chars)) /\ Pieces(thing) \in Seq(Seq(Chars))
        /\ Pieces(from) # <<>> /\ Pieces(thing) # <<>>
    <3>1. from \in Seq(Chars) /\ thing \in Seq(Chars)
      BY <2>2 DEF Beside
    <3> QED BY <3>1, PiecesFacts
  <2>6. Pieces(from)[Len(Pieces(from))] # <<>> /\ Pieces(thing)[1] # <<>>
    BY <2>2, LastPiece, FirstPiece DEF Beside
  <2> QED BY <2>4, <2>5, <2>6, IdentifierOfBoth DEF Meaning
<1>2. Init => TypeOK
  BY TypeInit
<1>3. TypeOK /\ [Next]_vars => TypeOK'
  BY TypeStep
<1>4. Spec => []DividedAtSingleColons
  BY ReturnsMeaning
<1> QED BY <1>1, <1>2, <1>3, <1>4, PTL DEF Spec
=============================================================================
