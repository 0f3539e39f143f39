----------------------------- MODULE OutputProofs -----------------------------
(***************************************************************************)
(* Proofs about Output for every registry, every set of outputters and     *)
(* files of any length: type correctness, that the dispatcher's cache      *)
(* never serves an outputter the registry would not, and that a file       *)
(* becomes what OutputMeaning says.                                        *)
(***************************************************************************)
EXTENDS OutputMeaning, Induction, FiniteSetTheorems, SequenceTheorems, TLAPS

-----------------------------------------------------------------------------
\* Every program begins well typed.
LEMMA TypeInit == Init => TypeOK
<1> SUFFICES ASSUME Init PROVE TypeOK
  OBVIOUS
<1>1. main \in [count : 0 .. MaxElems, title : Arguments, author : Arguments] /\ main.count = 0
  BY BoundsAssumption DEF Init, Instantiated, Arguments
<1>2. source = <<>> /\ body = <<>> /\ Len(source) = 0
  BY DEF Init
<1> QED BY <1>1, <1>2, BoundsAssumption DEF Init, TypeOK

\* A command keeps the file's storage and document well typed.
LEMMA EvaluatedTypes ==
  ASSUME TypeOK, NEW c \in Commands, NEW m, NEW elems \in Seq(Elements \cup Counts),
         Evaluated(c, m, elems),
         m \in [count : Nat, title : Arguments, author : Arguments],
         m.count <= main.count + 1
  PROVE  TypeOK'
<1>1. /\ Len(source) < MaxElems /\ Len(source) \in Nat /\ main.count \in Nat
      /\ source' \in Seq(Commands) /\ Len(source') = Len(source) + 1
      /\ body' \in Seq(Elements \cup Counts)
  BY DEF Evaluated, TypeOK
<1>2. main' = m /\ m.count <= Len(source') /\ Len(source') <= MaxElems /\ m.count \in Nat
  BY <1>1, BoundsAssumption DEF Evaluated, TypeOK
<1>3. main' \in [count : 0 .. MaxElems, title : Arguments, author : Arguments]
  <2>1. m.count \in 0 .. MaxElems
    BY <1>1, <1>2, BoundsAssumption
  <2> QED BY <1>2, <2>1
<1> QED BY <1>1, <1>2, <1>3 DEF Evaluated, TypeOK, walkVars

\* An outputter that is called is one of the exported ones.
LEMMA FoundIs ==
  ASSUME TypeOK, NEW tag
  PROVE  /\ Found(tag) \subseteq Outputters
         /\ \A by \in Found(tag) : by.tag = tag
BY DEF TypeOK, Found, Cached, Retrieved

\* Steps keep the state well typed.
LEMMA TypeStep == TypeOK /\ [Next]_vars => TypeOK'
<1> SUFFICES ASSUME TypeOK, [Next]_vars PROVE TypeOK'
  OBVIOUS
<1>1. ASSUME NEW m \in Late, Register(m) PROVE TypeOK'
  <2>1. modules' = modules \cup {m}
        /\ UNCHANGED <<number, stage, target, storages, main, source, body, cache, files>>
    BY <1>1 DEF Register, evalVars, walkVars
  <2>2. modules' \subseteq (UNION Registries) \cup Late /\ storages' \subseteq modules'
    BY <2>1 DEF TypeOK
  <2> QED BY <2>1, <2>2 DEF TypeOK
<1>2. ASSUME NEW t \in Targets, StartFile(t) PROVE TypeOK'
  <2>1. main' \in [count : 0 .. MaxElems, title : Arguments, author : Arguments] /\ main'.count = 0
    BY <1>2, BoundsAssumption DEF StartFile, Instantiated, Arguments
  <2>2. source' = <<>> /\ body' = <<>> /\ Len(source') = 0
    BY <1>2 DEF StartFile
  <2> QED BY <1>2, <2>1, <2>2, BoundsAssumption DEF StartFile, TypeOK
<1>3. ASSUME NEW o \in Elements, Put(o) PROVE TypeOK'
  <2>1. [op |-> "put", arg |-> <<o>>] \in Commands /\ <<o>> \in Seq(Elements \cup Counts)
    BY DEF Commands
  <2>2. main \in [count : Nat, title : Arguments, author : Arguments] /\ main.count \in Nat
    BY DEF TypeOK
  <2>3. Evaluated([op |-> "put", arg |-> <<o>>], main, <<o>>)
    BY <1>3 DEF Put
  <2>4. main.count <= main.count + 1
    BY <2>2
  <2> QED BY <2>1, <2>2, <2>3, <2>4, EvaluatedTypes
<1>4. CASE Count
  <2> DEFINE m == [main EXCEPT !.count = @ + 1]
             s == Str(<<"count", Counted>>)
  <2>1. /\ Evaluated([op |-> "count", arg |-> <<>>], m, <<s>>)
        /\ main.count \in Nat /\ main.count <= Len(source) /\ Len(source) \in Nat
        /\ Len(source) < MaxElems
    <3>1. Evaluated([op |-> "count", arg |-> <<>>], m, <<s>>)
      BY <1>4 DEF Count
    <3> QED BY <3>1 DEF TypeOK, Evaluated
  <2>2. Counted \in 1 .. MaxElems
    BY <2>1, BoundsAssumption DEF Counted
  <2>3. s \in Counts
    BY <2>2 DEF Counts
  <2>4. <<s>> \in Seq(Elements \cup Counts)
    BY <2>3
  <2>5. [op |-> "count", arg |-> <<>>] \in Commands
    BY DEF Commands, Arguments
  <2>6. m \in [count : Nat, title : Arguments, author : Arguments] /\ m.count <= main.count + 1
    BY <2>1 DEF TypeOK
  <2> HIDE DEF m, s
  <2> QED BY <2>1, <2>4, <2>5, <2>6, EvaluatedTypes
<1>5. ASSUME NEW c \in Contents, SetTitle(c) \/ SetAuthor(c) PROVE TypeOK'
  <2>1. c \in Arguments /\ <<>> \in Seq(Elements \cup Counts) /\ main.count \in Nat
    BY DEF TypeOK, Arguments
  <2>2. CASE SetTitle(c)
    <3> DEFINE m == [main EXCEPT !.title = c]
    <3>1. Evaluated([op |-> "title", arg |-> c], m, <<>>)
      BY <2>2 DEF SetTitle
    <3>2. [op |-> "title", arg |-> c] \in Commands
      BY <2>1 DEF Commands
    <3>3. m \in [count : Nat, title : Arguments, author : Arguments] /\ m.count <= main.count + 1
      BY <2>1 DEF TypeOK
    <3> HIDE DEF m
    <3> QED BY <2>1, <3>1, <3>2, <3>3, EvaluatedTypes
  <2>3. CASE SetAuthor(c)
    <3> DEFINE m == [main EXCEPT !.author = c]
    <3>1. Evaluated([op |-> "author", arg |-> c], m, <<>>)
      BY <2>3 DEF SetAuthor
    <3>2. [op |-> "author", arg |-> c] \in Commands
      BY <2>1 DEF Commands
    <3>3. m \in [count : Nat, title : Arguments, author : Arguments] /\ m.count <= main.count + 1
      BY <2>1 DEF TypeOK
    <3> HIDE DEF m
    <3> QED BY <2>1, <3>1, <3>2, <3>3, EvaluatedTypes
  <2> QED BY <1>5, <2>2, <2>3
<1>6. CASE Abort
  BY <1>6 DEF Abort, TypeOK, evalVars, walkVars
<1>7. CASE StartWalk
  BY <1>7 DEF StartWalk, EmptyCache, TypeOK, evalVars
<1>8. CASE OutputNode
  <2> DEFINE n == Head(Top.todo).obj
  <2>1. PICK by \in Found(n.tag) : cache' = cache \cup {by} /\ files' = files \cup Binds(by.kind)
    BY <1>8 DEF OutputNode
  <2>2. by \in Outputters
    BY FoundIs
  <2> QED BY <1>8, <2>1, <2>2 DEF OutputNode, TypeOK, evalVars
<1>9. CASE OutputStr \/ Return
  BY <1>9 DEF OutputStr, Return, TypeOK, evalVars
<1>10. CASE Finish \/ Throw
  BY <1>10 DEF Finish, Throw, TypeOK, evalVars
<1>11. CASE UNCHANGED vars
  BY <1>11 DEF vars, TypeOK, evalVars, walkVars
<1> QED BY <1>1, <1>2, <1>3, <1>4, <1>5, <1>6, <1>7, <1>8, <1>9, <1>10, <1>11
        DEF Next, Evaluate, Walk

\* Storage, document, registry, cache and required files are well typed.
THEOREM TypeCorrect == Spec => []TypeOK
BY TypeInit, TypeStep, PTL DEF Spec

-----------------------------------------------------------------------------
\* A lookup that succeeds finds what the registry holds, cached or not.
LEMMA FoundIsFresh ==
  ASSUME TypeOK, CacheFresh, stage = "walking", NEW tag, Cardinality(Found(tag)) = 1,
         NEW by \in Found(tag)
  PROVE  by.tag = tag /\ Retrieved(tag) = {by}
<1>1. by.tag = tag
  BY FoundIs
<1>2. CASE Cached(tag) # {}
  BY <1>1, <1>2 DEF Found, Cached, CacheFresh
<1>3. CASE Cached(tag) = {}
  <2>1. Found(tag) = Retrieved(tag) /\ Retrieved(tag) \subseteq Outputters
    BY <1>3 DEF Found, Retrieved
  <2>2. IsFiniteSet(Retrieved(tag))
    BY <2>1, FiniteAssumption, FS_Subset
  <2>3. PICK x : Retrieved(tag) = {x}
    BY <2>1, <2>2, FS_Singleton
  <2> QED BY <1>1, <2>1, <2>3
<1> QED BY <1>2, <1>3

\* The cache begins empty in every compilation, grows by what the registry
\* holds, and the registry stands still until the compilation is over.
LEMMA CacheStep == TypeOK /\ CacheFresh /\ [Next]_vars => CacheFresh'
<1> SUFFICES ASSUME TypeOK, CacheFresh, [Next]_vars PROVE CacheFresh'
  OBVIOUS
<1>1. CASE StartWalk
  BY <1>1 DEF StartWalk, EmptyCache, CacheFresh
<1>2. CASE OutputNode
  <2> DEFINE n == Head(Top.todo).obj
  <2>1. stage = "walking" /\ Cardinality(Found(n.tag)) = 1
    BY <1>2 DEF OutputNode, AtObject, Walking, CanCall
  <2>2. PICK by \in Found(n.tag) : cache' = cache \cup {by}
    BY <1>2 DEF OutputNode
  <2>3. Retrieved(by.tag) = {by}
    BY <2>1, FoundIsFresh
  <2>4. modules' = modules /\ target' = target
    BY <1>2 DEF OutputNode
  <2> QED BY <2>1, <2>2, <2>3, <2>4 DEF CacheFresh, Retrieved
<1>3. CASE OutputStr \/ Return \/ Finish \/ Throw \/ UNCHANGED vars
  BY <1>3 DEF OutputStr, Return, Finish, Throw, vars, walkVars, CacheFresh, Retrieved
<1>4. CASE Evaluate \/ \E t \in Targets : StartFile(t)
  <2>1. stage' # "walking"
    BY <1>4 DEF Evaluate, Put, Count, SetTitle, SetAuthor, Evaluated, Abort, StartFile
  <2> QED BY <2>1 DEF CacheFresh
<1>5. ASSUME NEW m \in Late, Register(m) PROVE CacheFresh'
  BY <1>5 DEF Register, Between, CacheFresh
<1> QED BY <1>1, <1>2, <1>3, <1>4, <1>5 DEF Next, Walk

\* The dispatcher never serves an outputter of another compilation.
THEOREM CacheStaysFresh == Spec => []CacheFresh
<1>1. Init => CacheFresh
  BY DEF Init, CacheFresh
<1> QED BY <1>1, CacheStep, TypeCorrect, PTL DEF Spec

-----------------------------------------------------------------------------
(* The loops of the definitions *)

\* h holds what has been joined of the objects, after each of them.
JoinedIs(h, W, f, objs) ==
  /\ h \in [0 .. Len(objs) -> Seq(W)] /\ h[0] = <<>>
  /\ \A i \in 1 .. Len(objs) : h[i] = h[i - 1] \o f[objs[i]]
  /\ Joined(f, objs) = h[Len(objs)]

\* Joined is computed by a loop over the objects, which h remembers.
LEMMA JoinedLoop ==
  ASSUME NEW U, NEW W, NEW f \in [U -> Seq(W)], NEW objs \in Seq(U)
  PROVE  \E h : JoinedIs(h, W, f, objs)
<1> DEFINE N == Len(objs)
           A == Seq(W)
           step == [i \in 1 .. N |-> [a \in A |-> a \o f[objs[i]]]]
           Unfold(h) == [i \in 0 .. N |-> IF i = 0 THEN <<>> ELSE h[i - 1] \o f[objs[i]]]
<1>1. N \in Nat /\ N = Len(objs) /\ <<>> \in A /\ \A i \in 1 .. N : f[objs[i]] \in Seq(W)
  BY LenProperties, ElementOfSeq, EmptySeq
<1>2. \A i \in 1 .. N : \A a \in A : a \o f[objs[i]] \in A
  BY <1>1, ConcatProperties
<1>3. step \in [1 .. N -> [A -> A]]
  BY <1>2
<1>4. \A i \in 1 .. N : \A a \in A : step[i][a] = a \o f[objs[i]]
  OBVIOUS
<1>5. Joined(f, objs) = (CHOOSE h : h = Unfold(h))[N]
  BY DEF Joined
<1> HIDE DEF N, A, step
<1>6. PICK g : Loop(g, N, A, <<>>, step)
  BY <1>1, <1>3, Iterates
<1>7. ASSUME NEW i \in 0 .. N, i # 0
      PROVE  g[i] = g[i - 1] \o f[objs[i]]
  <2>1. i \in 1 .. N /\ i - 1 \in 0 .. N
    BY <1>1, <1>7
  <2>2. g[i - 1] \in A
    BY <1>6, <2>1 DEF Loop
  <2> QED BY <1>4, <1>6, <2>1, <2>2 DEF Loop
<1>8. g = Unfold(g)
  BY <1>6, <1>7 DEF Loop
<1> DEFINE h == CHOOSE h : h = Unfold(h)
<1>9. h = Unfold(h)
  BY <1>8
<1> HIDE DEF h
<1>10. h[0] = <<>>
  BY <1>1, <1>9
<1>11. ASSUME NEW i \in 1 .. N
       PROVE  h[i] = h[i - 1] \o f[objs[i]]
  <2>1. i \in 0 .. N /\ i # 0
    BY <1>1
  <2> QED BY <1>9, <2>1
<1>12. \A i \in 1 .. N : h[i - 1] \in A => h[i] \in A
  BY <1>2, <1>11
<1>13. h \in [0 .. N -> A]
  <2>1. h = [i \in 0 .. N |-> h[i]]
    BY <1>9
  <2> QED BY <1>1, <1>10, <1>12, <2>1, LoopStays
<1>14. Joined(f, objs) = h[N]
  BY <1>5 DEF h
<1>15. JoinedIs(h, W, f, objs)
  BY <1>1, <1>10, <1>11, <1>13, <1>14 DEF A, JoinedIs
<1> QED BY <1>15

\* h holds the words among the tokens, after each of them.
WordsIs(h, S, c) ==
  /\ h \in [0 .. Len(c) -> Seq(S)] /\ h[0] = <<>>
  /\ \A i \in 1 .. Len(c) :
       h[i] = IF c[i][1] \in {"word", "count"} THEN Append(h[i - 1], c[i]) ELSE h[i - 1]
  /\ Words(c) = h[Len(c)]

\* So is Words, over the tokens.
LEMMA WordsLoop ==
  ASSUME NEW S, NEW c \in Seq(S)
  PROVE  \E h : WordsIs(h, S, c)
<1> DEFINE N == Len(c)
           A == Seq(S)
           step == [i \in 1 .. N |-> [a \in A |->
                      IF c[i][1] \in {"word", "count"} THEN Append(a, c[i]) ELSE a]]
           Unfold(h) == [i \in 0 .. N |-> IF i = 0 THEN <<>>
                          ELSE IF c[i][1] \in {"word", "count"} THEN Append(h[i - 1], c[i])
                               ELSE h[i - 1]]
<1>1. N \in Nat /\ N = Len(c) /\ <<>> \in A /\ \A i \in 1 .. N : c[i] \in S
  BY LenProperties, ElementOfSeq, EmptySeq
<1>2. \A i \in 1 .. N : \A a \in A : Append(a, c[i]) \in A
  BY <1>1, AppendProperties
<1>3. step \in [1 .. N -> [A -> A]]
  BY <1>2
<1>4. \A i \in 1 .. N : \A a \in A :
        step[i][a] = IF c[i][1] \in {"word", "count"} THEN Append(a, c[i]) ELSE a
  OBVIOUS
<1>5. Words(c) = (CHOOSE h : h = Unfold(h))[N]
  BY DEF Words
<1> HIDE DEF N, A, step
<1>6. PICK g : Loop(g, N, A, <<>>, step)
  BY <1>1, <1>3, Iterates
<1>7. ASSUME NEW i \in 0 .. N, i # 0
      PROVE  g[i] = IF c[i][1] \in {"word", "count"} THEN Append(g[i - 1], c[i]) ELSE g[i - 1]
  <2>1. i \in 1 .. N /\ i - 1 \in 0 .. N
    BY <1>1, <1>7
  <2>2. g[i - 1] \in A
    BY <1>6, <2>1 DEF Loop
  <2> QED BY <1>4, <1>6, <2>1, <2>2 DEF Loop
<1>8. g = Unfold(g)
  BY <1>6, <1>7 DEF Loop
<1> DEFINE h == CHOOSE h : h = Unfold(h)
<1>9. h = Unfold(h)
  BY <1>8
<1> HIDE DEF h
<1>10. h[0] = <<>>
  BY <1>1, <1>9
<1>11. ASSUME NEW i \in 1 .. N
       PROVE  h[i] = IF c[i][1] \in {"word", "count"} THEN Append(h[i - 1], c[i]) ELSE h[i - 1]
  <2>1. i \in 0 .. N /\ i # 0
    BY <1>1
  <2> QED BY <1>9, <2>1
<1>12. \A i \in 1 .. N : h[i - 1] \in A => h[i] \in A
  BY <1>2, <1>11
<1>13. h \in [0 .. N -> A]
  <2>1. h = [i \in 0 .. N |-> h[i]]
    BY <1>9
  <2> QED BY <1>1, <1>10, <1>12, <2>1, LoopStays
<1>14. Words(c) = h[N]
  BY <1>5 DEF h
<1>15. WordsIs(h, S, c)
  BY <1>1, <1>10, <1>11, <1>13, <1>14 DEF A, WordsIs
<1> QED BY <1>15

\* What the commands say of a file, typed.
FileTyped == Title \in Seq(Objects) /\ Author \in Seq(Objects) /\ Written \in Seq(Objects \cup Counts)

\* The texts of a file.
Texts == {o.text : o \in {x \in Here : IsStr(x)}}

\* A node has a tag and elements and is no text.
LEMMA NodeFacts ==
  \A tag, elems : /\ ~IsStr(Node(tag, elems)) /\ Node(tag, elems).tag = tag
                  /\ Node(tag, elems).elems = elems
BY DEF Node, IsStr

\* A text has its text.
LEMMA StrFacts ==
  \A t : IsStr(Str(t)) /\ Str(t).text = t
BY DEF Str, IsStr

\* Every object is a text or a node of such objects.
LEMMA HereFacts ==
  ASSUME FileTyped
  PROVE  /\ \A o \in Here : IsStr(o) => o.text \in Texts
         /\ \A o \in Here : ~IsStr(o) => o.elems \in Seq(Here)
         /\ Title \in Seq(Here) /\ Author \in Seq(Here) /\ Written \in Seq(Here)
         /\ File \in Here /\ <<File>> \in Seq(Here) /\ Objects \cup Counts \subseteq Here
<1>1. Objects \cup Counts \subseteq Here /\ File \in Here /\ Node("__doc", Written) \in Here
  BY DEF Here
<1>2. \A S : Seq(S) = UNION {[1 .. n -> S] : n \in Nat}
  BY SeqDef
<1>3. ASSUME NEW S, NEW s \in Seq(S), S \subseteq Here PROVE s \in Seq(Here)
  <2>1. s \in [1 .. Len(s) -> S] /\ Len(s) \in Nat
    BY LenProperties
  <2>2. s \in [1 .. Len(s) -> Here]
    BY <1>3, <2>1
  <2> QED BY <2>1, <2>2, <1>2
<1>4. Title \in Seq(Here) /\ Author \in Seq(Here) /\ Written \in Seq(Here)
  BY <1>1, <1>3 DEF FileTyped
<1>5. <<File>> \in Seq(Here)
  BY <1>1
<1>6. ASSUME NEW o \in Here, ~IsStr(o) PROVE o.elems \in Seq(Here)
  <2>1. CASE o \in Objects
    BY <1>1, <1>3, <1>6, <2>1, ObjectsAssumption
  <2>2. CASE o \in Counts
    BY <1>6, <2>2, StrFacts DEF Counts
  <2>3. CASE o = Node("__doc", Written)
    BY <1>4, <2>3, NodeFacts
  <2>4. CASE o = File
    <3>1. <<Node("__doc", Written)>> \in Seq(Here)
      BY <1>1
    <3> QED BY <2>4, <3>1, NodeFacts DEF File
  <2> QED BY <2>1, <2>2, <2>3, <2>4 DEF Here
<1> QED BY <1>1, <1>4, <1>5, <1>6 DEF Texts

\* The output of a node contains objects of the file.
LEMMA ContainedTyped ==
  ASSUME FileTyped, NEW n \in Here, ~IsStr(n)
  PROVE  Contained(n) \in Seq(Here)
<1>1. n.elems \in Seq(Here) /\ Title \in Seq(Here) /\ Author \in Seq(Here) /\ <<>> \in Seq(Here)
  BY HereFacts
<1>2. Title \o Author \in Seq(Here)
  BY <1>1, ConcatProperties
<1>3. (Title \o Author) \o n.elems \in Seq(Here)
  BY <1>1, <1>2, ConcatProperties
<1> QED BY <1>1, <1>2, <1>3 DEF Contained

\* What is joined are the values of the function.
LEMMA JoinedTyped ==
  ASSUME NEW U, NEW W, NEW f \in [U -> Seq(W)], NEW objs \in Seq(U)
  PROVE  Joined(f, objs) \in Seq(W)
<1>1. PICK h : JoinedIs(h, W, f, objs)
  BY JoinedLoop
<1>2. Len(objs) \in Nat
  BY LenProperties
<1> QED BY <1>1, <1>2 DEF JoinedIs

\* h is the text of each object, d nested nodes deep.
TextIs(h) ==
  /\ h \in [0 .. MaxDepth -> [Here -> Seq(Texts)]]
  /\ \A d \in 0 .. MaxDepth : \A o \in Here :
       h[d][o] = IF IsStr(o) THEN <<o.text>>
                 ELSE IF d = 0 THEN <<>> ELSE Joined(h[d - 1], Contained(o))

\* Text is well defined.
LEMMA TextLoop ==
  ASSUME FileTyped
  PROVE  TextIs(Text)
<1> DEFINE N == MaxDepth
           A == [Here -> Seq(Texts)]
           start == [o \in Here |-> IF IsStr(o) THEN <<o.text>> ELSE <<>>]
           Grow(a) == [o \in Here |-> IF IsStr(o) THEN <<o.text>> ELSE Joined(a, Contained(o))]
           step == [i \in 1 .. N |-> [a \in A |-> Grow(a)]]
           Unfold(h) == [d \in 0 .. N |->
             [o \in Here |-> IF IsStr(o) THEN <<o.text>>
                             ELSE IF d = 0 THEN <<>> ELSE Joined(h[d - 1], Contained(o))]]
<1>1. N \in Nat /\ N = MaxDepth
  BY BoundsAssumption
<1>2. \A o \in Here : IsStr(o) => <<o.text>> \in Seq(Texts)
  BY HereFacts
<1>3. start \in A
  BY <1>2, EmptySeq
<1>4. ASSUME NEW a \in A PROVE Grow(a) \in A
  <2>1. \A o \in Here : ~IsStr(o) => Joined(a, Contained(o)) \in Seq(Texts)
    BY ContainedTyped, JoinedTyped
  <2> QED BY <1>2, <2>1
<1>5. step \in [1 .. N -> [A -> A]]
  BY <1>4
<1>6. \A i \in 1 .. N : \A a \in A : step[i][a] = Grow(a)
  OBVIOUS
<1>7. Text = CHOOSE h : h = Unfold(h)
  BY DEF Text
<1>8. \A h : Unfold(h) = [d \in 0 .. N |-> IF d = 0 THEN start ELSE Grow(h[d - 1])]
  BY <1>1
<1> HIDE DEF N, A, step, start, Grow, Unfold
<1>9. PICK g : Loop(g, N, A, start, step)
  BY <1>1, <1>3, <1>5, Iterates
<1>10. ASSUME NEW i \in 0 .. N, i # 0
       PROVE  g[i] = Grow(g[i - 1])
  <2>1. i \in 1 .. N /\ i - 1 \in 0 .. N
    BY <1>1, <1>10
  <2>2. g[i - 1] \in A
    BY <1>9, <2>1 DEF Loop
  <2> QED BY <1>6, <1>9, <2>1, <2>2 DEF Loop
<1>11. g = Unfold(g)
  BY <1>8, <1>9, <1>10 DEF Loop
<1>12. Text = Unfold(Text)
  BY <1>7, <1>11
<1>13. Text[0] = start
  BY <1>1, <1>8, <1>12
<1>14. ASSUME NEW i \in 1 .. N PROVE Text[i] = Grow(Text[i - 1])
  <2>1. i \in 0 .. N /\ i # 0
    BY <1>1
  <2> QED BY <1>8, <1>12, <2>1
<1>15. \A i \in 1 .. N : Text[i - 1] \in A => Text[i] \in A
  BY <1>4, <1>14
<1>16. Text \in [0 .. N -> A]
  <2>1. Text = [i \in 0 .. N |-> Text[i]]
    BY <1>8, <1>12
  <2> QED BY <1>1, <1>3, <1>13, <1>15, <2>1, LoopStays
<1>17. ASSUME NEW d \in 0 .. MaxDepth, NEW o \in Here
       PROVE  Text[d][o] = IF IsStr(o) THEN <<o.text>>
                           ELSE IF d = 0 THEN <<>> ELSE Joined(Text[d - 1], Contained(o))
  <2>1. Text[0] = start /\ \A i \in 1 .. N : Text[i] = Grow(Text[i - 1])
    BY <1>13, <1>14
  <2>2. CASE d = 0
    BY <2>1, <2>2 DEF start
  <2>3. CASE d # 0
    <3>1. d \in 1 .. N
      BY <1>1, <2>3
    <3>2. Text[d] = Grow(Text[d - 1])
      BY <2>1, <3>1
    <3> QED BY <2>3, <3>2 DEF Grow
  <2> QED BY <2>2, <2>3
<1> QED BY <1>1, <1>16, <1>17 DEF TextIs, A

\* h is the nodes in each object, d nested nodes deep.
NodesIs(h) ==
  /\ h \in [0 .. MaxDepth -> [Here -> SUBSET Here]]
  /\ \A d \in 0 .. MaxDepth : \A o \in Here :
       h[d][o] = IF IsStr(o) \/ d = 0 THEN {}
                 ELSE {o} \cup UNION {h[d - 1][Contained(o)[i]] : i \in DOMAIN Contained(o)}

\* NodesIn is well defined.
LEMMA NodesLoop ==
  ASSUME FileTyped
  PROVE  NodesIs(NodesIn)
<1> DEFINE N == MaxDepth
           A == [Here -> SUBSET Here]
           start == [o \in Here |-> {}]
           Grow(a) == [o \in Here |-> IF IsStr(o) THEN {}
                          ELSE {o} \cup UNION {a[Contained(o)[i]] : i \in DOMAIN Contained(o)}]
           step == [i \in 1 .. N |-> [a \in A |-> Grow(a)]]
           Unfold(h) == [d \in 0 .. N |->
             [o \in Here |-> IF IsStr(o) \/ d = 0 THEN {}
                 ELSE {o} \cup UNION {h[d - 1][Contained(o)[i]] : i \in DOMAIN Contained(o)}]]
<1>1. N \in Nat /\ N = MaxDepth
  BY BoundsAssumption
<1>2. start \in A
  OBVIOUS
<1>3. ASSUME NEW a \in A PROVE Grow(a) \in A
  <2>1. ASSUME NEW o \in Here, ~IsStr(o), NEW i \in DOMAIN Contained(o)
        PROVE  a[Contained(o)[i]] \subseteq Here
    <3>1. Contained(o) \in Seq(Here)
      BY <2>1, ContainedTyped
    <3>2. Contained(o)[i] \in Here
      BY <2>1, <3>1, ElementOfSeq
    <3> QED BY <3>2
  <2> QED BY <2>1
<1>4. step \in [1 .. N -> [A -> A]]
  BY <1>3
<1>5. \A i \in 1 .. N : \A a \in A : step[i][a] = Grow(a)
  OBVIOUS
<1>6. NodesIn = CHOOSE h : h = Unfold(h)
  BY DEF NodesIn
<1>7. \A h : Unfold(h) = [d \in 0 .. N |-> IF d = 0 THEN start ELSE Grow(h[d - 1])]
  BY <1>1
<1> HIDE DEF N, A, step, start, Grow, Unfold
<1>8. PICK g : Loop(g, N, A, start, step)
  BY <1>1, <1>2, <1>4, Iterates
<1>9. ASSUME NEW i \in 0 .. N, i # 0
      PROVE  g[i] = Grow(g[i - 1])
  <2>1. i \in 1 .. N /\ i - 1 \in 0 .. N
    BY <1>1, <1>9
  <2>2. g[i - 1] \in A
    BY <1>8, <2>1 DEF Loop
  <2> QED BY <1>5, <1>8, <2>1, <2>2 DEF Loop
<1>10. g = Unfold(g)
  BY <1>7, <1>8, <1>9 DEF Loop
<1>11. NodesIn = Unfold(NodesIn)
  BY <1>6, <1>10
<1>12. NodesIn[0] = start
  BY <1>1, <1>7, <1>11
<1>13. ASSUME NEW i \in 1 .. N PROVE NodesIn[i] = Grow(NodesIn[i - 1])
  <2>1. i \in 0 .. N /\ i # 0
    BY <1>1
  <2> QED BY <1>7, <1>11, <2>1
<1>14. \A i \in 1 .. N : NodesIn[i - 1] \in A => NodesIn[i] \in A
  BY <1>3, <1>13
<1>15. NodesIn \in [0 .. N -> A]
  <2>1. NodesIn = [i \in 0 .. N |-> NodesIn[i]]
    BY <1>7, <1>11
  <2> QED BY <1>1, <1>2, <1>12, <1>14, <2>1, LoopStays
<1>16. ASSUME NEW d \in 0 .. MaxDepth, NEW o \in Here
       PROVE  NodesIn[d][o] = IF IsStr(o) \/ d = 0 THEN {}
                 ELSE {o} \cup UNION {NodesIn[d - 1][Contained(o)[i]] : i \in DOMAIN Contained(o)}
  <2>1. CASE d = 0
    BY <1>12, <2>1 DEF start
  <2>2. CASE d # 0
    <3>1. d \in 1 .. N
      BY <1>1, <2>2
    <3>2. NodesIn[d] = Grow(NodesIn[d - 1])
      BY <1>13, <3>1
    <3> QED BY <2>2, <3>2 DEF Grow
  <2> QED BY <2>1, <2>2
<1> QED BY <1>1, <1>15, <1>16 DEF NodesIs, A

\* h is the objects with no more than d nested nodes.
FittingIs(h) ==
  /\ h \in [0 .. MaxDepth -> SUBSET Here]
  /\ \A d \in 0 .. MaxDepth :
       h[d] = {o \in Here : IsStr(o)
             \/ (d > 0 /\ \A i \in DOMAIN Contained(o) : Contained(o)[i] \in h[d - 1])}

\* Fitting is well defined.
LEMMA FittingLoop ==
  ASSUME FileTyped
  PROVE  FittingIs(Fitting)
<1> DEFINE N == MaxDepth
           A == SUBSET Here
           start == {o \in Here : IsStr(o)}
           Grow(a) == {o \in Here : IsStr(o) \/ \A i \in DOMAIN Contained(o) : Contained(o)[i] \in a}
           step == [i \in 1 .. N |-> [a \in A |-> Grow(a)]]
           Unfold(h) == [d \in 0 .. N |-> IF d = 0 THEN start ELSE Grow(h[d - 1])]
<1>1. N \in Nat /\ N = MaxDepth
  BY BoundsAssumption
<1>2. start \in A
  OBVIOUS
<1>3. ASSUME NEW a \in A PROVE Grow(a) \in A
  OBVIOUS
<1>4. step \in [1 .. N -> [A -> A]]
  BY <1>3
<1>5. \A i \in 1 .. N : \A a \in A : step[i][a] = Grow(a)
  OBVIOUS
<1>6. Fitting = CHOOSE h : h = Unfold(h)
  BY DEF Fitting
<1>7. \A h : Unfold(h) = [d \in 0 .. N |-> IF d = 0 THEN start ELSE Grow(h[d - 1])]
  BY <1>1
<1> HIDE DEF N, A, step, start, Grow, Unfold
<1>8. PICK g : Loop(g, N, A, start, step)
  BY <1>1, <1>2, <1>4, Iterates
<1>9. ASSUME NEW i \in 0 .. N, i # 0
      PROVE  g[i] = Grow(g[i - 1])
  <2>1. i \in 1 .. N /\ i - 1 \in 0 .. N
    BY <1>1, <1>9
  <2>2. g[i - 1] \in A
    BY <1>8, <2>1 DEF Loop
  <2> QED BY <1>5, <1>8, <2>1, <2>2 DEF Loop
<1>10. g = Unfold(g)
  BY <1>7, <1>8, <1>9 DEF Loop
<1>11. Fitting = Unfold(Fitting)
  BY <1>6, <1>10
<1>12. Fitting[0] = start
  BY <1>1, <1>7, <1>11
<1>13. ASSUME NEW i \in 1 .. N PROVE Fitting[i] = Grow(Fitting[i - 1])
  <2>1. i \in 0 .. N /\ i # 0
    BY <1>1
  <2> QED BY <1>7, <1>11, <2>1
<1>14. \A i \in 1 .. N : Fitting[i - 1] \in A => Fitting[i] \in A
  BY <1>3, <1>13
<1>15. Fitting \in [0 .. N -> A]
  <2>1. Fitting = [i \in 0 .. N |-> Fitting[i]]
    BY <1>7, <1>11
  <2> QED BY <1>1, <1>2, <1>12, <1>14, <2>1, LoopStays
<1>16. ASSUME NEW d \in 0 .. MaxDepth
       PROVE  Fitting[d] = {o \in Here : IsStr(o)
             \/ (d > 0 /\ \A i \in DOMAIN Contained(o) : Contained(o)[i] \in Fitting[d - 1])}
  <2>1. CASE d = 0
    BY <1>12, <2>1 DEF start
  <2>2. CASE d # 0
    <3>1. d \in 1 .. N
      BY <1>1, <2>2
    <3>2. Fitting[d] = Grow(Fitting[d - 1])
      BY <1>13, <3>1
    <3> QED BY <2>2, <3>2 DEF Grow
  <2> QED BY <2>1, <2>2
<1> QED BY <1>1, <1>15, <1>16 DEF FittingIs, A

-----------------------------------------------------------------------------
(* One more command *)

\* The commands that were given are typed, and few enough to count.
SourceTyped == source \in Seq(Commands) /\ Len(source) <= MaxElems

\* The arguments of a command are objects.
LEMMA ArgumentsTyped ==
  ASSUME NEW c \in Commands
  PROVE  c.arg \in Seq(Objects)
<1>1. c.arg \in Contents \cup {<<>>} \cup {<<o>> : o \in Elements}
  BY DEF Commands, Arguments
<1>2. ASSUME NEW o \in Elements PROVE <<o>> \in Seq(Objects)
  BY ObjectsAssumption
<1>3. CASE c.arg \in Contents
  BY <1>3, ObjectsAssumption
<1> QED BY <1>1, <1>2, <1>3, EmptySeq

\* There are no more counts than commands.
LEMMA CountsBounded ==
  ASSUME SourceTyped, NEW k \in 0 .. Len(source)
  PROVE  /\ CountsUpTo(k) \in 0 .. k
         /\ k > 0 /\ source[k].op = "count" => CountsUpTo(k) > 0
<1>1. Len(source) \in Nat /\ k \in Nat /\ IsFiniteSet(1 .. k) /\ Cardinality(1 .. k) = k
  BY LenProperties, FS_Interval DEF SourceTyped
<1> DEFINE S == {j \in 1 .. k : source[j].op = "count"}
<1>2. S \subseteq 1 .. k
  OBVIOUS
<1>3. IsFiniteSet(S) /\ Cardinality(S) <= k /\ Cardinality(S) \in Nat
  BY <1>1, <1>2, FS_Subset, FS_CardinalityType
<1>4. CountsUpTo(k) = Cardinality(S)
  BY DEF CountsUpTo
<1>5. ASSUME k > 0, source[k].op = "count" PROVE Cardinality(S) # 0
  <2>1. k \in S
    BY <1>1, <1>5
  <2> HIDE DEF S
  <2> QED BY <1>3, <2>1, FS_EmptySet
<1> QED BY <1>1, <1>3, <1>4, <1>5

\* A command puts objects and counts into the document.
LEMMA PutsTyped ==
  ASSUME SourceTyped, NEW k \in 1 .. Len(source)
  PROVE  Puts(k) \in Seq(Objects \cup Counts)
<1>1. source[k] \in Commands /\ Len(source) \in Nat
  BY LenProperties, ElementOfSeq DEF SourceTyped
<1>2. PICK a : a = source[k].arg /\ a \in Seq(Objects)
  BY <1>1, ArgumentsTyped
<1>3. a \in [1 .. Len(a) -> Objects] /\ Len(a) \in Nat
  BY <1>2, LenProperties
<1>4. a \in [1 .. Len(a) -> Objects \cup Counts]
  BY <1>3
<1>5. a \in Seq(Objects \cup Counts)
  BY <1>3, <1>4, SeqDef
<1>6. ASSUME source[k].op = "count" PROVE <<Str(<<"count", CountsUpTo(k)>>)>> \in Seq(Objects \cup Counts)
  <2>1. CountsUpTo(k) \in 1 .. MaxElems
    BY <1>1, <1>6, CountsBounded, BoundsAssumption DEF SourceTyped
  <2>2. PICK x : x = Str(<<"count", CountsUpTo(k)>>) /\ x \in Counts
    BY <2>1 DEF Counts
  <2>3. <<x>> \in Seq(Objects \cup Counts)
    BY <2>2
  <2> QED BY <2>2, <2>3
<1> QED BY <1>2, <1>5, <1>6, EmptySeq DEF Puts

\* h is the document after each of the commands.
WrittenIs(h) ==
  /\ h \in [0 .. Len(source) -> Seq(Objects \cup Counts)] /\ h[0] = <<>>
  /\ \A k \in 1 .. Len(source) : h[k] = h[k - 1] \o Puts(k)
  /\ Written = h[Len(source)]

\* Written is well defined.
LEMMA WrittenLoop == SourceTyped => \E h : WrittenIs(h)
<1> SUFFICES ASSUME SourceTyped PROVE \E h : WrittenIs(h)
  OBVIOUS
<1> DEFINE N == Len(source)
           A == Seq(Objects \cup Counts)
           step == [i \in 1 .. N |-> [a \in A |-> a \o Puts(i)]]
           Unfold(h) == [k \in 0 .. N |-> IF k = 0 THEN <<>> ELSE h[k - 1] \o Puts(k)]
<1>1. N \in Nat /\ N = Len(source) /\ <<>> \in A /\ \A i \in 1 .. N : Puts(i) \in A
  BY LenProperties, EmptySeq, PutsTyped DEF SourceTyped
<1>2. \A i \in 1 .. N : \A a \in A : a \o Puts(i) \in A
  BY <1>1, ConcatProperties
<1>3. step \in [1 .. N -> [A -> A]]
  BY <1>2
<1>4. \A i \in 1 .. N : \A a \in A : step[i][a] = a \o Puts(i)
  OBVIOUS
<1>5. Written = (CHOOSE h : h = Unfold(h))[N]
  BY DEF Written
<1> HIDE DEF N, A, step
<1>6. PICK g : Loop(g, N, A, <<>>, step)
  BY <1>1, <1>3, Iterates
<1>7. ASSUME NEW i \in 0 .. N, i # 0
      PROVE  g[i] = g[i - 1] \o Puts(i)
  <2>1. i \in 1 .. N /\ i - 1 \in 0 .. N
    BY <1>1, <1>7
  <2>2. g[i - 1] \in A
    BY <1>6, <2>1 DEF Loop
  <2> QED BY <1>4, <1>6, <2>1, <2>2 DEF Loop
<1>8. g = Unfold(g)
  BY <1>6, <1>7 DEF Loop
<1> DEFINE h == CHOOSE h : h = Unfold(h)
<1>9. h = Unfold(h)
  BY <1>8
<1> HIDE DEF h
<1>10. h[0] = <<>>
  BY <1>1, <1>9
<1>11. ASSUME NEW i \in 1 .. N
       PROVE  h[i] = h[i - 1] \o Puts(i)
  <2>1. i \in 0 .. N /\ i # 0
    BY <1>1
  <2> QED BY <1>9, <2>1
<1>12. \A i \in 1 .. N : h[i - 1] \in A => h[i] \in A
  BY <1>2, <1>11
<1>13. h \in [0 .. N -> A]
  <2>1. h = [i \in 0 .. N |-> h[i]]
    BY <1>9
  <2> QED BY <1>1, <1>10, <1>12, <2>1, LoopStays
<1>14. Written = h[N]
  BY <1>5 DEF h
<1>15. WrittenIs(h)
  BY <1>1, <1>10, <1>11, <1>13, <1>14 DEF A, WrittenIs
<1> QED BY <1>15

\* And is so after a step.
LEMMA WrittenLoopNext == (SourceTyped => \E h : WrittenIs(h))'
BY WrittenLoop, PTL

\* What the file says with one more command.
LEMMA OneMore ==
  ASSUME SourceTyped, SourceTyped', NEW c \in Commands, source' = Append(source, c)
  PROVE  /\ Title' = IF c.op = "title" THEN c.arg ELSE Title
         /\ Author' = IF c.op = "author" THEN c.arg ELSE Author
         /\ CountsUpTo(Len(source))' = CountsUpTo(Len(source)) + (IF c.op = "count" THEN 1 ELSE 0)
         /\ Written' = Written \o (CASE c.op = "put" -> c.arg
                                     [] c.op = "count" -> <<Str(<<"count", CountsUpTo(Len(source))'>>)>>
                                     [] OTHER -> <<>>)
<1>0. PICK N \in Nat : N = Len(source)
  BY LenProperties DEF SourceTyped
<1>1. /\ N \in Nat /\ Len(source') = N + 1 /\ source'[N + 1] = c
      /\ \A k \in 1 .. N : source'[k] = source[k]
      /\ DOMAIN source = 1 .. N /\ DOMAIN source' = 1 .. N + 1
  BY <1>0, LenProperties, AppendProperties DEF SourceTyped
<1>2. ASSUME NEW op PROVE LastArg(op)' = IF c.op = op THEN c.arg ELSE LastArg(op)
  <2>1. Uses(op)' = Uses(op) \cup (IF c.op = op THEN {N + 1} ELSE {})
    BY <1>1 DEF Uses
  <2>2. Uses(op) \subseteq 1 .. N
    BY <1>1 DEF Uses
  <2>3. CASE c.op = op
    <3>1. N + 1 \in Uses(op)' /\ \A j \in Uses(op)' : j <= N + 1
      BY <1>1, <2>1, <2>2, <2>3
    <3>2. \A k \in Uses(op)' : (\A j \in Uses(op)' : j <= k) => k = N + 1
      BY <1>1, <2>1, <2>2, <3>1
    <3>3. LastUse(op)' = N + 1
      BY <3>1, <3>2 DEF LastUse
    <3> QED BY <1>1, <2>3, <3>1, <3>3 DEF LastArg
  <2>4. CASE c.op # op
    <3>1. Uses(op)' = Uses(op)
      BY <2>1, <2>4
    <3>2. LastUse(op)' = LastUse(op)
      BY <3>1 DEF LastUse
    <3>3. CASE Uses(op) = {}
      BY <2>4, <3>1, <3>3 DEF LastArg
    <3>4. CASE Uses(op) # {}
      <4>1. IsFiniteSet(1 .. N)
        BY <1>1, FS_Interval
      <4>2. IsFiniteSet(Uses(op)) /\ \A k \in Uses(op) : k \in Int
        BY <1>1, <2>2, <4>1, FS_Subset
      <4>3. \E k \in Uses(op) : \A j \in Uses(op) : j <= k
        <5> DEFINE Rest == {N - k : k \in Uses(op)}
        <5>1. Rest \subseteq Nat /\ Rest # {}
          BY <1>1, <2>2, <3>4
        <5>2. PICK r \in Rest : \A q \in Rest : ~(q < r)
          BY <5>1, LeastNumber
        <5>3. PICK k \in Uses(op) : r = N - k
          BY <5>2
        <5>4. ASSUME NEW j \in Uses(op) PROVE j <= k
          <6>1. ~(N - j < N - k)
            BY <5>2, <5>3
          <6> QED BY <1>1, <2>2, <6>1
        <5> QED BY <5>4
      <4>4. LastUse(op) \in Uses(op)
        BY <4>3 DEF LastUse
      <4>5. source'[LastUse(op)] = source[LastUse(op)]
        BY <1>1, <2>2, <4>4
      <4> QED BY <2>4, <3>1, <3>2, <3>4, <4>5 DEF LastArg
    <3> QED BY <3>3, <3>4
  <2> QED BY <2>3, <2>4
<1>3. ASSUME NEW k \in 0 .. N PROVE CountsUpTo(k)' = CountsUpTo(k)
  <2>1. {j \in 1 .. k : source'[j].op = "count"} = {j \in 1 .. k : source[j].op = "count"}
    BY <1>1
  <2> QED BY <2>1 DEF CountsUpTo
<1>4. CountsUpTo(N + 1)' = CountsUpTo(N) + (IF c.op = "count" THEN 1 ELSE 0)
  <2> DEFINE S == {j \in 1 .. N : source[j].op = "count"}
             Q == {j \in 1 .. N + 1 : source'[j].op = "count"}
  <2>1. Q = IF c.op = "count" THEN S \cup {N + 1} ELSE S
    BY <1>1
  <2>2. IsFiniteSet(S) /\ N + 1 \notin S
    <3>1. IsFiniteSet(1 .. N)
      BY <1>1, FS_Interval
    <3> QED BY <1>1, <3>1, FS_Subset
  <2>3. CountsUpTo(N) = Cardinality(S) /\ CountsUpTo(N + 1)' = Cardinality(Q)
    BY DEF CountsUpTo
  <2>4. Cardinality(S) \in Nat
    BY <2>2, FS_CardinalityType
  <2> HIDE DEF S, Q
  <2>5. Cardinality(S \cup {N + 1}) = Cardinality(S) + 1
    BY <2>2, FS_AddElement
  <2> QED BY <2>1, <2>3, <2>4, <2>5
<1>5. CountsUpTo(Len(source))' = CountsUpTo(N + 1)'
  BY <1>1
<1>6. PICK h : WrittenIs(h)
  BY WrittenLoop
<1>7. PICK g : WrittenIs(g)'
  BY WrittenLoopNext
<1>8. ASSUME NEW k \in 1 .. N PROVE Puts(k)' = Puts(k)
  BY <1>1, <1>3 DEF Puts
<1> DEFINE T == {k \in Nat : k <= N => g[k] = h[k]}
<1>9. 0 \in T
  BY <1>6, <1>7 DEF WrittenIs
<1>10. ASSUME NEW k \in Nat, k \in T PROVE k + 1 \in T
  <2> SUFFICES ASSUME k + 1 <= N PROVE g[k + 1] = h[k + 1]
    OBVIOUS
  <2>1. k + 1 \in 1 .. N /\ k + 1 \in 1 .. N + 1 /\ (k + 1) - 1 = k /\ g[k] = h[k]
    BY <1>1, <1>10
  <2>2. h[k + 1] = h[k] \o Puts(k + 1)
    BY <1>0, <1>6, <2>1 DEF WrittenIs
  <2>3. g[k + 1] = g[k] \o Puts(k + 1)'
    BY <1>1, <1>7, <2>1 DEF WrittenIs
  <2> QED BY <1>8, <2>1, <2>2, <2>3
<1> HIDE DEF T
<1>11. N \in T
  BY <1>1, <1>9, <1>10, Induct
<1>12. g[N] = h[N]
  BY <1>1, <1>11 DEF T
<1>13. Written = h[N] /\ Written' = g[N + 1]
  BY <1>0, <1>1, <1>6, <1>7 DEF WrittenIs
<1>14. g[N + 1] = g[N] \o Puts(N + 1)'
  <2>1. N + 1 \in 1 .. N + 1 /\ (N + 1) - 1 = N
    BY <1>1
  <2> QED BY <1>1, <1>7, <2>1 DEF WrittenIs
<1>15. Puts(N + 1)' = CASE c.op = "put" -> c.arg
                        [] c.op = "count" -> <<Str(<<"count", CountsUpTo(N + 1)'>>)>>
                        [] OTHER -> <<>>
  BY <1>1 DEF Puts
<1>16. Written' = Written \o Puts(N + 1)'
  BY <1>12, <1>13, <1>14
<1> QED BY <1>0, <1>2, <1>4, <1>5, <1>15, <1>16 DEF Title, Author

-----------------------------------------------------------------------------
(* Sequences from the left *)

\* Induction on sequences that grow at the end.
LEMMA SeqInduct ==
  ASSUME NEW S, NEW T, <<>> \in T, \A s \in Seq(S) : \A e \in S : s \in T => Append(s, e) \in T
  PROVE  Seq(S) \subseteq T
<1> DEFINE R == {n \in Nat : \A s \in Seq(S) : Len(s) = n => s \in T}
<1>1. 0 \in R
  BY EmptySeq
<1>2. ASSUME NEW n \in Nat, n \in R PROVE n + 1 \in R
  <2> SUFFICES ASSUME NEW s \in Seq(S), Len(s) = n + 1 PROVE s \in T
    OBVIOUS
  <2>1. s # <<>>
    BY EmptySeq
  <2>2. PICK r \in Seq(S), e \in S : s = Append(r, e)
    BY <2>1, SequenceEmptyOrAppend
  <2>3. Len(r) = n
    BY <2>2, AppendProperties, LenProperties
  <2>4. r \in T
    BY <1>2, <2>3
  <2> QED BY <2>2, <2>4
<1> HIDE DEF R
<1>3. Nat \subseteq R
  BY <1>1, <1>2, Induct
<1>4. ASSUME NEW s \in Seq(S) PROVE s \in T
  <2>1. Len(s) \in Nat
    BY LenProperties
  <2> QED BY <1>3, <2>1 DEF R
<1> QED BY <1>4

\* A longer concatenation.
LEMMA ConcatAppend ==
  ASSUME NEW S, NEW s \in Seq(S), NEW t \in Seq(S), NEW e \in S
  PROVE  s \o Append(t, e) = Append(s \o t, e)
<1>1. <<e>> \in Seq(S) /\ s \o t \in Seq(S)
  BY ConcatProperties
<1>2. Append(t, e) = t \o <<e>> /\ Append(s \o t, e) = (s \o t) \o <<e>>
  BY <1>1, AppendIsConcat
<1> QED BY <1>1, <1>2, ConcatAssociative

\* Of nothing, nothing is joined.
LEMMA JoinedNone ==
  ASSUME NEW f PROVE Joined(f, <<>>) = <<>>
<1> DEFINE g == [x \in {} |-> <<>>]
           Unfold(h) == [i \in 0 .. Len(<<>>) |-> IF i = 0 THEN <<>> ELSE h[i - 1] \o f[<<>>[i]]]
           k == [i \in 0 .. 0 |-> <<>>]
<1>2. Len(<<>>) = 0
  BY EmptySeq
<1>3. k = Unfold(k)
  BY <1>2
<1>4. Joined(f, <<>>) = (CHOOSE h : h = Unfold(h))[Len(<<>>)]
  BY DEF Joined
<1> DEFINE h == CHOOSE h : h = Unfold(h)
<1> HIDE DEF k
<1>5. h = Unfold(h)
  BY <1>3
<1> HIDE DEF h
<1>6. h[0] = <<>>
  BY <1>2, <1>5
<1> QED BY <1>2, <1>4, <1>6 DEF h

\* One more object is joined at the end.
LEMMA JoinedAppend ==
  ASSUME NEW U, NEW W, NEW f \in [U -> Seq(W)], NEW s \in Seq(U), NEW u \in U
  PROVE  Joined(f, Append(s, u)) = Joined(f, s) \o f[u]
<1> DEFINE t == Append(s, u)
<1>1. PICK N \in Nat : N = Len(s)
  BY LenProperties
<1>2. t \in Seq(U) /\ Len(t) = N + 1 /\ t[N + 1] = u /\ \A i \in 1 .. N : t[i] = s[i]
  BY <1>1, AppendProperties
<1>3. PICK h : JoinedIs(h, W, f, s)
  BY JoinedLoop
<1> HIDE DEF t
<1>4. PICK g : JoinedIs(g, W, f, t)
  BY <1>2, JoinedLoop
<1> DEFINE T == {i \in Nat : i <= N => g[i] = h[i]}
<1>5. 0 \in T
  BY <1>3, <1>4 DEF JoinedIs
<1>6. ASSUME NEW i \in Nat, i \in T PROVE i + 1 \in T
  <2> SUFFICES ASSUME i + 1 <= N PROVE g[i + 1] = h[i + 1]
    OBVIOUS
  <2>1. i + 1 \in 1 .. N /\ i + 1 \in 1 .. N + 1 /\ (i + 1) - 1 = i /\ g[i] = h[i]
    BY <1>6
  <2>2. h[i + 1] = h[i] \o f[s[i + 1]]
    BY <1>1, <1>3, <2>1 DEF JoinedIs
  <2>3. g[i + 1] = g[i] \o f[t[i + 1]]
    BY <1>2, <1>4, <2>1 DEF JoinedIs
  <2> QED BY <1>2, <2>1, <2>2, <2>3
<1> HIDE DEF T
<1>7. g[N] = h[N]
  <2>1. Nat \subseteq T
    BY <1>5, <1>6, Induct
  <2>2. N \in T
    BY <2>1
  <2> QED BY <2>2 DEF T
<1>8. g[N + 1] = g[N] \o f[u]
  <2>1. N + 1 \in 1 .. N + 1 /\ (N + 1) - 1 = N
    OBVIOUS
  <2> QED BY <1>2, <1>4, <2>1 DEF JoinedIs
<1>9. Joined(f, s) = h[N] /\ Joined(f, t) = g[N + 1]
  BY <1>1, <1>2, <1>3, <1>4 DEF JoinedIs
<1> QED BY <1>7, <1>8, <1>9 DEF t

\* Joining distributes over concatenation.
LEMMA JoinedConcat ==
  ASSUME NEW U, NEW W, NEW f \in [U -> Seq(W)], NEW s \in Seq(U), NEW t \in Seq(U)
  PROVE  Joined(f, s \o t) = Joined(f, s) \o Joined(f, t)
<1> DEFINE T == {r \in Seq(U) : Joined(f, s \o r) = Joined(f, s) \o Joined(f, r)}
<1>1. <<>> \in T
  <2>1. <<>> \in Seq(U) /\ s \o <<>> = s
    BY EmptySeq, ConcatEmptySeq
  <2>2. Joined(f, s) \in Seq(W)
    BY JoinedTyped
  <2>3. Joined(f, s) \o <<>> = Joined(f, s)
    BY <2>2, ConcatEmptySeq
  <2> QED BY <2>1, <2>3, JoinedNone
<1>2. ASSUME NEW r \in Seq(U), NEW u \in U, r \in T PROVE Append(r, u) \in T
  <2>1. s \o r \in Seq(U) /\ Append(r, u) \in Seq(U) /\ s \o Append(r, u) = Append(s \o r, u)
    BY ConcatProperties, AppendProperties, ConcatAppend
  <2>2. Joined(f, Append(s \o r, u)) = Joined(f, s \o r) \o f[u]
    BY <2>1, JoinedAppend
  <2>3. Joined(f, Append(r, u)) = Joined(f, r) \o f[u]
    BY JoinedAppend
  <2>4. Joined(f, s) \in Seq(W) /\ Joined(f, r) \in Seq(W) /\ f[u] \in Seq(W)
    BY JoinedTyped
  <2>5. (Joined(f, s) \o Joined(f, r)) \o f[u] = Joined(f, s) \o (Joined(f, r) \o f[u])
    BY <2>4, ConcatAssociative
  <2>6. Joined(f, s \o r) = Joined(f, s) \o Joined(f, r)
    BY <1>2
  <2> QED BY <2>1, <2>2, <2>3, <2>5, <2>6
<1> HIDE DEF T
<1>3. t \in T
  BY <1>1, <1>2, SeqInduct
<1> QED BY <1>3 DEF T

\* Of one object, its value.
LEMMA JoinedOne ==
  ASSUME NEW U, NEW W, NEW f \in [U -> Seq(W)], NEW u \in U
  PROVE  Joined(f, <<u>>) = f[u]
<1>1. <<u>> = Append(<<>>, u)
  BY EmptySeq, AppendIsConcat, ConcatEmptySeq
<1>2. Joined(f, Append(<<>>, u)) = Joined(f, <<>>) \o f[u]
  <2>1. <<>> \in Seq(U)
    BY EmptySeq
  <2> QED BY <2>1, JoinedAppend
<1>3. f[u] \in Seq(W)
  OBVIOUS
<1> QED BY <1>1, <1>2, <1>3, JoinedNone, ConcatEmptySeq

\* A token that is text or a count, and not a mark of the target language.
IsWord(t) == t[1] \in {"word", "count"}

\* Words are tokens of the code.
LEMMA WordsTyped ==
  ASSUME NEW S, NEW c \in Seq(S) PROVE Words(c) \in Seq(S)
<1>1. PICK h : WordsIs(h, S, c)
  BY WordsLoop
<1>2. Len(c) \in Nat
  BY LenProperties
<1> QED BY <1>1, <1>2 DEF WordsIs

\* Empty code has no words.
LEMMA WordsNone == Words(<<>>) = <<>>
<1>1. <<>> \in Seq({}) /\ Len(<<>>) = 0
  BY EmptySeq
<1>2. PICK h : WordsIs(h, {}, <<>>)
  BY <1>1, WordsLoop
<1> QED BY <1>1, <1>2 DEF WordsIs

\* One more token is a word or is not.
LEMMA WordsAppend ==
  ASSUME NEW S, NEW c \in Seq(S), NEW t \in S
  PROVE  Words(Append(c, t)) = IF IsWord(t) THEN Append(Words(c), t) ELSE Words(c)
<1> DEFINE e == Append(c, t)
<1>1. PICK N \in Nat : N = Len(c)
  BY LenProperties
<1>2. e \in Seq(S) /\ Len(e) = N + 1 /\ e[N + 1] = t /\ \A i \in 1 .. N : e[i] = c[i]
  BY <1>1, AppendProperties
<1>3. PICK h : WordsIs(h, S, c)
  BY WordsLoop
<1> HIDE DEF e
<1>4. PICK g : WordsIs(g, S, e)
  BY <1>2, WordsLoop
<1> DEFINE T == {i \in Nat : i <= N => g[i] = h[i]}
<1>5. 0 \in T
  BY <1>3, <1>4 DEF WordsIs
<1>6. ASSUME NEW i \in Nat, i \in T PROVE i + 1 \in T
  <2> SUFFICES ASSUME i + 1 <= N PROVE g[i + 1] = h[i + 1]
    OBVIOUS
  <2>1. i + 1 \in 1 .. N /\ i + 1 \in 1 .. N + 1 /\ (i + 1) - 1 = i /\ g[i] = h[i]
    BY <1>6
  <2>2. h[i + 1] = IF IsWord(c[i + 1]) THEN Append(h[i], c[i + 1]) ELSE h[i]
    BY <1>1, <1>3, <2>1 DEF WordsIs, IsWord
  <2>3. g[i + 1] = IF IsWord(e[i + 1]) THEN Append(g[i], e[i + 1]) ELSE g[i]
    BY <1>2, <1>4, <2>1 DEF WordsIs, IsWord
  <2> QED BY <1>2, <2>1, <2>2, <2>3
<1> HIDE DEF T
<1>7. g[N] = h[N]
  <2>1. Nat \subseteq T
    BY <1>5, <1>6, Induct
  <2>2. N \in T
    BY <2>1
  <2> QED BY <2>2 DEF T
<1>8. g[N + 1] = IF IsWord(t) THEN Append(g[N], t) ELSE g[N]
  <2>1. N + 1 \in 1 .. N + 1 /\ (N + 1) - 1 = N
    OBVIOUS
  <2> QED BY <1>2, <1>4, <2>1 DEF WordsIs, IsWord
<1>9. Words(c) = h[N] /\ Words(e) = g[N + 1]
  BY <1>1, <1>2, <1>3, <1>4 DEF WordsIs
<1> QED BY <1>7, <1>8, <1>9 DEF e

\* The words of a concatenation.
LEMMA WordsConcat ==
  ASSUME NEW S, NEW c \in Seq(S), NEW e \in Seq(S)
  PROVE  Words(c \o e) = Words(c) \o Words(e)
<1> DEFINE T == {r \in Seq(S) : Words(c \o r) = Words(c) \o Words(r)}
<1>1. <<>> \in T
  BY EmptySeq, WordsNone, WordsTyped, ConcatEmptySeq
<1>2. ASSUME NEW r \in Seq(S), NEW t \in S, r \in T PROVE Append(r, t) \in T
  <2>1. c \o r \in Seq(S) /\ Append(r, t) \in Seq(S) /\ c \o Append(r, t) = Append(c \o r, t)
    BY ConcatProperties, AppendProperties, ConcatAppend
  <2>2. Words(Append(c \o r, t)) = IF IsWord(t) THEN Append(Words(c \o r), t) ELSE Words(c \o r)
    BY <2>1, WordsAppend
  <2>3. Words(Append(r, t)) = IF IsWord(t) THEN Append(Words(r), t) ELSE Words(r)
    BY WordsAppend
  <2>4. Words(c) \in Seq(S) /\ Words(r) \in Seq(S)
    BY WordsTyped
  <2>5. Words(c) \o Append(Words(r), t) = Append(Words(c) \o Words(r), t)
    BY <2>4, ConcatAppend
  <2>6. Words(c \o r) = Words(c) \o Words(r)
    BY <1>2
  <2> QED BY <2>1, <2>2, <2>3, <2>5, <2>6
<1> HIDE DEF T
<1>3. e \in T
  BY <1>1, <1>2, SeqInduct
<1> QED BY <1>3 DEF T

\* The words of one token.
LEMMA WordsOne ==
  ASSUME NEW t PROVE Words(<<t>>) = IF IsWord(t) THEN <<t>> ELSE <<>>
<1>1. t \in {t} /\ <<>> \in Seq({t})
  BY EmptySeq
<1>2. <<t>> = Append(<<>>, t)
  BY <1>1, AppendIsConcat, ConcatEmptySeq
<1> QED BY <1>1, <1>2, WordsAppend, WordsNone

-----------------------------------------------------------------------------
(* The invariant *)

\* The tokens that the code of a file is made of.
Names == {o.tag : o \in Outputters} \cup {"header", "h1", "subtitle", "title", "author", "document"}
Tokens == Texts \cup {<<mark, name>> : mark \in {"open", "close", "empty"}, name \in Names}

\* Calls of an outputter that have not returned.
Frames == [by : Outputters \cup {Bottom.by}, leaf : BOOLEAN,
           todo : Seq([part : 1 .. 3, obj : Here]), made : [1 .. 3 -> Seq(Tokens)]]

\* The node that the frame at k of the stack s was called for; the pass has the file.
Pass == [tag |-> CHOOSE t : t \notin {o.tag : o \in Outputters}, elems |-> <<File>>]
Called(s, k) == IF k = 1 THEN Pass ELSE Head(s[k - 1].todo).obj

\* The objects of the parts of a call, and the first m of them.
PartOf(by, n, p) ==
  CASE p = 1 /\ by.kind = "bare" -> <<>>
    [] p = 1 /\ by.kind = "htmlTitle" -> Title
    [] p = 1 /\ by.kind \notin {"bare", "htmlTitle"} -> n.elems
    [] p = 2 /\ by.kind = "htmlTitle" -> Author
    [] p = 2 /\ by.kind = "latexRoot" -> Title
    [] p = 3 /\ by.kind = "latexRoot" -> Author
    [] OTHER -> <<>>
Taken(s, m) == SubSeq(s, 1, IF m < 0 THEN 0 ELSE IF m > Len(s) THEN Len(s) ELSE m)

\* An object whose nodes all can be output, with the files fs.
Served(fs, n) ==
  \E by \in Outputters : /\ Offered(n.tag) = {by} /\ Binds(by.kind) \subseteq fs
                         /\ ReadsMain(by) => HasMain
Fine(fs, d, o) == o \in Fitting[d] /\ \A n \in NodesIn[d][o] : Served(fs, n)

\* The frame f, called for n, has output i of its objects: their words are in its
\* code, and they are fine.
Progress(fs, f, n, d, i) ==
  LET x == PartOf(f.by, n, 1)
      y == PartOf(f.by, n, 2)
      z == PartOf(f.by, n, 3)
  IN /\ i \in 0 .. Len(Parts(f.by, n))
     /\ f.todo = SubSeq(Parts(f.by, n), i + 1, Len(Parts(f.by, n)))
     /\ Words(f.made[1]) = Joined(Text[d], Taken(x, i))
     /\ Words(f.made[2]) = Joined(Text[d], Taken(y, i - Len(x)))
     /\ Words(f.made[3]) = Joined(Text[d], Taken(z, i - (Len(x) + Len(y))))
     /\ \A j \in 1 .. i : Fine(fs, d, Parts(f.by, n)[j].obj)

\* What the node n contains belongs to the file, d calls before the last.
Belongs(n, d) ==
  \A j \in 1 .. Len(Contained(n)) :
    /\ NodesIn[d][Contained(n)[j]] \subseteq Shown
    /\ HasRoom => Contained(n)[j] \in Fitting[d]

\* The frame f is that of the call for n, by the one outputter n has.
Serves(fs, f, n) ==
  /\ ~IsStr(n) /\ Offered(n.tag) = {f.by} /\ Binds(f.by.kind) \subseteq fs
  /\ f.by.kind = "htmlTitle" => HasMain
  /\ f.leaf = (n.elems = <<>>)

\* The k-th call of the stack s is for a node of the file and has done part of it.
CallInv(s, fs, k) ==
  LET n == Called(s, k)
  IN /\ IF k = 1 THEN s[1].by = Bottom.by ELSE s[k - 1].todo # <<>> /\ Serves(fs, s[k], n)
     /\ Belongs(n, MaxDepth - k)
     /\ \E i \in Nat : Progress(fs, s[k], n, MaxDepth - k, i)

\* The pass is on its way: each call is, and the files are among those needed.
Walks(s, fs) ==
  /\ s \in Seq(Frames) /\ Len(s) \in 1 .. MaxDepth
  /\ \A k \in 1 .. Len(s) : CallInv(s, fs, k)
  /\ fs \subseteq Needed /\ Consistent(fs)
WalkInv == stage = "walking" => Walks(stack, files) /\ Cardinality(OfferedProviders) = 1

\* The storage of std::main and the document hold what the commands say.
StoreInv ==
  /\ main.title = Title /\ main.author = Author
  /\ main.count = CountsUpTo(Len(source)) /\ body = Written

\* Nothing registers while a file is being compiled, nor is a file required.
LifeInv ==
  /\ stage \in {"evaluating", "walking"} => modules = storages
  /\ stage = "evaluating" => files = {}

\* What a call has to do.
Todos == [part : 1 .. 3, obj : Here]

\* The items of a part are its objects.
LEMMA ItemsFacts ==
  ASSUME NEW p \in 1 .. 3, NEW s \in Seq(Here)
  PROVE  /\ Items(p, s) \in Seq(Todos) /\ Len(Items(p, s)) = Len(s)
         /\ \A i \in 1 .. Len(s) : Items(p, s)[i].part = p /\ Items(p, s)[i].obj = s[i]
<1>1. PICK N \in Nat : N = Len(s)
  BY LenProperties
<1>2. DOMAIN s = 1 .. N /\ \A i \in 1 .. N : s[i] \in Here
  BY <1>1, LenProperties, ElementOfSeq
<1>3. Items(p, s) \in [1 .. N -> Todos]
  BY <1>2 DEF Items, Todos
<1>4. Items(p, s) \in Seq(Todos)
  BY <1>3, SeqDef
<1>5. Len(Items(p, s)) = N
  <2>1. DOMAIN Items(p, s) = 1 .. N
    BY <1>3
  <2> QED BY <1>4, <2>1, LenProperties
<1> QED BY <1>1, <1>2, <1>4, <1>5 DEF Items

\* The parts of a call are objects of the file.
LEMMA PartTyped ==
  ASSUME FileTyped, NEW by, NEW n, n.elems \in Seq(Here)
  PROVE  /\ PartOf(by, n, 1) \in Seq(Here) /\ PartOf(by, n, 2) \in Seq(Here)
         /\ PartOf(by, n, 3) \in Seq(Here)
BY HereFacts, EmptySeq DEF PartOf

\* The objects of a call, part by part.
Three(P, x, y, z) ==
  /\ P \in Seq(Todos) /\ Len(P) = Len(x) + Len(y) + Len(z)
  /\ \A j \in 1 .. Len(x) : P[j].part = 1 /\ P[j].obj = x[j]
  /\ \A j \in 1 .. Len(y) : P[Len(x) + j].part = 2 /\ P[Len(x) + j].obj = y[j]
  /\ \A j \in 1 .. Len(z) : P[Len(x) + Len(y) + j].part = 3 /\ P[Len(x) + Len(y) + j].obj = z[j]

\* A call has to output its parts one after the other.
LEMMA PartsFacts ==
  ASSUME FileTyped, main.title = Title, main.author = Author, NEW by, NEW n, n.elems \in Seq(Here),
         NEW x, NEW y, NEW z,
         x = PartOf(by, n, 1), y = PartOf(by, n, 2), z = PartOf(by, n, 3)
  PROVE  Three(Parts(by, n), x, y, z)
<1>1. x \in Seq(Here) /\ y \in Seq(Here) /\ z \in Seq(Here) /\ Len(<<>>) = 0
  BY PartTyped, EmptySeq
<1>2. PICK X, Y, Z : X = Items(1, x) /\ Y = Items(2, y) /\ Z = Items(3, z)
  OBVIOUS
<1>3. /\ X \in Seq(Todos) /\ Len(X) = Len(x)
      /\ \A i \in 1 .. Len(x) : X[i].part = 1 /\ X[i].obj = x[i]
  BY <1>1, <1>2, ItemsFacts
<1>4. /\ Y \in Seq(Todos) /\ Len(Y) = Len(y)
      /\ \A i \in 1 .. Len(y) : Y[i].part = 2 /\ Y[i].obj = y[i]
  BY <1>1, <1>2, ItemsFacts
<1>5. /\ Z \in Seq(Todos) /\ Len(Z) = Len(z)
      /\ \A i \in 1 .. Len(z) : Z[i].part = 3 /\ Z[i].obj = z[i]
  BY <1>1, <1>2, ItemsFacts
<1>6. Len(x) \in Nat /\ Len(y) \in Nat /\ Len(z) \in Nat
  BY <1>1, LenProperties
<1>7. /\ X \o Y \in Seq(Todos) /\ Len(X \o Y) = Len(x) + Len(y)
      /\ \A i \in 1 .. Len(x) + Len(y) : (X \o Y)[i] = IF i <= Len(x) THEN X[i] ELSE Y[i - Len(x)]
  <2>1. X \in Seq(Todos) /\ Y \in Seq(Todos) /\ Len(X) = Len(x) /\ Len(Y) = Len(y)
    BY <1>3, <1>4
  <2>2. /\ X \o Y \in Seq(Todos) /\ Len(X \o Y) = Len(X) + Len(Y)
        /\ \A i \in 1 .. Len(X) + Len(Y) : (X \o Y)[i] = IF i <= Len(X) THEN X[i] ELSE Y[i - Len(X)]
    BY <2>1, ConcatProperties, Zenon
  <2> QED BY <2>1, <2>2, Zenon
<1>8. /\ (X \o Y) \o Z \in Seq(Todos) /\ Len((X \o Y) \o Z) = Len(x) + Len(y) + Len(z)
      /\ \A i \in 1 .. Len(x) + Len(y) + Len(z) :
           ((X \o Y) \o Z)[i] = IF i <= Len(x) + Len(y) THEN (X \o Y)[i] ELSE Z[i - (Len(x) + Len(y))]
  <2>0. PICK W : W = X \o Y
    OBVIOUS
  <2>1. W \in Seq(Todos) /\ Z \in Seq(Todos) /\ Len(W) = Len(x) + Len(y) /\ Len(Z) = Len(z)
    BY <2>0, <1>5, <1>7, Zenon
  <2>3. W \in Seq(Todos) /\ Z \in Seq(Todos)
    BY <2>1
  <2>2. /\ W \o Z \in Seq(Todos) /\ Len(W \o Z) = Len(W) + Len(Z)
        /\ \A i \in 1 .. Len(W) + Len(Z) : (W \o Z)[i] = IF i <= Len(W) THEN W[i] ELSE Z[i - Len(W)]
    BY <2>3, ConcatProperties, Zenon
  <2> QED BY <2>0, <2>1, <2>2, Zenon
<1>9. Parts(by, n) = (X \o Y) \o Z
  <2>1. x = <<>> => X = <<>>
    BY <1>1, <1>3, EmptySeq
  <2>2. y = <<>> => Y = <<>>
    BY <1>1, <1>4, EmptySeq
  <2>3. z = <<>> => Z = <<>>
    BY <1>1, <1>5, EmptySeq
  <2>4. X \o <<>> = X /\ (X \o Y) \o <<>> = X \o Y /\ <<>> \o <<>> = <<>>
    BY <1>3, <1>7, ConcatEmptySeq, EmptySeq
  <2>5. CASE by.kind = "bare"
    BY <1>2, <2>1, <2>2, <2>3, <2>4, <2>5 DEF Parts, PartOf
  <2>6. CASE by.kind = "htmlTitle"
    BY <1>2, <2>3, <2>4, <2>6 DEF Parts, PartOf
  <2>7. CASE by.kind = "latexRoot"
    BY <1>2, <2>7 DEF Parts, PartOf
  <2>8. CASE by.kind \notin {"bare", "htmlTitle", "latexRoot"}
    <3>1. Parts(by, n) = Items(1, n.elems)
      BY <2>8 DEF Parts
    <3>2. x = n.elems /\ y = <<>> /\ z = <<>>
      BY <2>8 DEF PartOf
    <3> QED BY <1>2, <2>2, <2>3, <2>4, <3>1, <3>2
  <2> QED BY <2>5, <2>6, <2>7, <2>8
<1>10. PICK Q : Q = (X \o Y) \o Z
  OBVIOUS
<1>11. \A i \in 1 .. Len(x) : Q[i].part = 1 /\ Q[i].obj = x[i]
  BY <1>3, <1>6, <1>7, <1>8, <1>10
<1>12. ASSUME NEW i \in 1 .. Len(y)
       PROVE  Q[Len(x) + i].part = 2 /\ Q[Len(x) + i].obj = y[i]
  <2>1. PICK k : k = Len(x) + i
    OBVIOUS
  <2>2. k \in 1 .. Len(x) + Len(y) /\ ~(k <= Len(x)) /\ k - Len(x) = i
        /\ k <= Len(x) + Len(y) /\ k \in 1 .. Len(x) + Len(y) + Len(z)
    BY <1>6, <2>1
  <2>3. Q[k] = (X \o Y)[k] /\ (X \o Y)[k] = Y[i]
    BY <1>7, <1>8, <1>10, <2>2, Zenon
  <2> QED BY <1>4, <2>1, <2>3
<1>13. ASSUME NEW i \in 1 .. Len(z)
       PROVE  Q[Len(x) + Len(y) + i].part = 3 /\ Q[Len(x) + Len(y) + i].obj = z[i]
  <2>1. PICK k : k = Len(x) + Len(y) + i
    OBVIOUS
  <2>2. k \in 1 .. Len(x) + Len(y) + Len(z) /\ ~(k <= Len(x) + Len(y)) /\ k - (Len(x) + Len(y)) = i
    BY <1>6, <2>1
  <2>3. Q[k] = Z[i]
    BY <1>8, <1>10, <2>2, Zenon
  <2> QED BY <1>5, <2>1, <2>3
<1>14. Q \in Seq(Todos) /\ Len(Q) = Len(x) + Len(y) + Len(z) /\ Parts(by, n) = Q
  BY <1>8, <1>9, <1>10
<1> QED BY <1>11, <1>12, <1>13, <1>14 DEF Three

\* The first m objects, and one more.
LEMMA TakenFacts ==
  ASSUME NEW S, NEW s \in Seq(S), NEW m \in Int
  PROVE  /\ Taken(s, m) \in Seq(S)
         /\ m <= 0 => Taken(s, m) = <<>>
         /\ m >= Len(s) => Taken(s, m) = s
         /\ 0 <= m /\ m < Len(s) => Taken(s, m + 1) = Append(Taken(s, m), s[m + 1])
         /\ m < 0 \/ m >= Len(s) => Taken(s, m + 1) = Taken(s, m)
<1>1. Len(s) \in Nat /\ \A i \in 1 .. Len(s) : s[i] \in S
  BY LenProperties, ElementOfSeq
<1>2. SubSeq(s, 1, 0) = <<>> /\ SubSeq(s, 1, Len(s)) = s
  BY SubSeqEmpty, SubSeqFull
<1>3. ASSUME NEW k \in 0 .. Len(s) PROVE SubSeq(s, 1, k) \in Seq(S)
  BY <1>1, SubSeqProperties
<1>4. ASSUME 0 <= m, m < Len(s) PROVE SubSeq(s, 1, m + 1) = Append(SubSeq(s, 1, m), s[m + 1])
  <2>1. 1 \in 1 .. Len(s) /\ m + 1 \in 1 .. Len(s) /\ (m + 1) - 1 = m
    BY <1>1, <1>4
  <2>2. SubSeq(s, 1, m + 1) = SubSeq(s, 1, m) \o <<s[m + 1]>>
    BY <2>1, SubSeqRecursiveSecond
  <2>3. SubSeq(s, 1, m) \in Seq(S)
    BY <1>3, <1>1, <1>4
  <2> QED BY <1>1, <2>1, <2>2, <2>3, AppendIsConcat
<1>5. Taken(s, m) \in Seq(S)
  BY <1>1, <1>3 DEF Taken
<1>6. m <= 0 => Taken(s, m) = <<>>
  <2>1. CASE m < 0
    BY <1>2, <2>1 DEF Taken
  <2>2. CASE m = 0
    BY <1>1, <1>2, <2>2 DEF Taken
  <2> QED BY <2>1, <2>2
<1>7. m >= Len(s) => Taken(s, m) = s
  <2>1. CASE m = Len(s)
    BY <1>1, <1>2, <2>1 DEF Taken
  <2>2. CASE m > Len(s)
    BY <1>1, <1>2, <2>2 DEF Taken
  <2> QED BY <1>1, <2>1, <2>2
<1>8. 0 <= m /\ m < Len(s) => Taken(s, m + 1) = Append(Taken(s, m), s[m + 1])
  <2> SUFFICES ASSUME 0 <= m, m < Len(s) PROVE Taken(s, m + 1) = Append(Taken(s, m), s[m + 1])
    OBVIOUS
  <2>1. Taken(s, m + 1) = SubSeq(s, 1, m + 1) /\ Taken(s, m) = SubSeq(s, 1, m)
    BY <1>1 DEF Taken
  <2> QED BY <1>4, <2>1
<1>9. m < 0 \/ m >= Len(s) => Taken(s, m + 1) = Taken(s, m)
  <2>1. CASE m < 0
    <3>1. CASE m + 1 < 0
      BY <2>1, <3>1 DEF Taken
    <3>2. CASE m + 1 = 0
      BY <1>1, <2>1, <3>2 DEF Taken
    <3> QED BY <2>1, <3>1, <3>2
  <2>2. CASE m >= Len(s)
    BY <1>1, <2>2 DEF Taken
  <2> QED BY <2>1, <2>2
<1> QED BY <1>5, <1>6, <1>7, <1>8, <1>9

\* What is said of the pass depends on the file and the registry alone.
LEMMA WalksSame ==
  ASSUME UNCHANGED <<modules, target, storages, main, source, body>>,
         NEW s, NEW fs, Walks(s, fs)
  PROVE  Walks(s, fs)'
<1>1. Title' = Title /\ Author' = Author /\ Written' = Written
  BY DEF Title, Author, Written, LastArg, LastUse, Uses, Puts, CountsUpTo
<1>2. File' = File /\ Here' = Here
  BY <1>1 DEF File, Here
<1>3. \A n : Contained(n)' = Contained(n)
  BY <1>1 DEF Contained, KindsOf, Offered
<1>4. Text' = Text
  BY <1>1, <1>2 DEF Text, Contained, KindsOf, Offered
<1>5. NodesIn' = NodesIn
  BY <1>1, <1>2 DEF NodesIn, Contained, KindsOf, Offered
<1>6. Fitting' = Fitting
  BY <1>1, <1>2 DEF Fitting, Contained, KindsOf, Offered
<1>7. \A tag : Offered(tag)' = Offered(tag)
  BY DEF Offered
<1>8. HasMain' = HasMain /\ Shown' = Shown /\ HasRoom' = HasRoom
  BY <1>2, <1>5, <1>6 DEF HasMain, Shown, HasRoom
<1>9. Needed' = Needed
  BY <1>7, <1>8 DEF Needed
<1>10. Frames' = Frames /\ Bottom.by' = Bottom.by
  <2>1. Bottom.by' = Bottom.by
    BY DEF Bottom
  <2>2. Texts' = Texts
    BY <1>2 DEF Texts
  <2>3. Tokens' = Tokens
    BY <2>2 DEF Tokens
  <2> QED BY <1>2, <2>1, <2>3 DEF Frames
<1>11. \A n, d : Belongs(n, d) => Belongs(n, d)'
  BY <1>3, <1>5, <1>6, <1>8 DEF Belongs
<1>12. \A g, f, n : Serves(g, f, n) => Serves(g, f, n)'
  BY <1>7, <1>8 DEF Serves
<1>13. \A g, f, n, d, i : Progress(g, f, n, d, i) => Progress(g, f, n, d, i)'
  <2>1. \A by, n : Parts(by, n)' = Parts(by, n) /\ \A p : PartOf(by, n, p)' = PartOf(by, n, p)
    BY <1>1 DEF Parts, PartOf
  <2>2. \A g, n : Served(g, n) => Served(g, n)'
    BY <1>7, <1>8 DEF Served
  <2>3. \A g, d, o : Fine(g, d, o) => Fine(g, d, o)'
    BY <2>2, <1>5, <1>6 DEF Fine
  <2>4. ASSUME NEW g, NEW f, NEW n, NEW d, NEW i, Progress(g, f, n, d, i)
        PROVE  Progress(g, f, n, d, i)'
    <3>1. PICK by : by = f.by
      OBVIOUS
    <3>2. Parts(by, n)' = Parts(by, n) /\ PartOf(by, n, 1)' = PartOf(by, n, 1)
          /\ PartOf(by, n, 2)' = PartOf(by, n, 2) /\ PartOf(by, n, 3)' = PartOf(by, n, 3)
      BY <2>1
    <3> QED BY <1>4, <2>3, <2>4, <3>1, <3>2 DEF Progress
  <2> QED BY <2>4
<1>14. \A k : Called(s, k)' = Called(s, k)
  BY <1>2 DEF Called, Pass
<1>15. \A k : CallInv(s, fs, k) => CallInv(s, fs, k)'
  BY <1>10, <1>11, <1>12, <1>13, <1>14 DEF CallInv
<1>16. Consistent(fs)' = Consistent(fs)
  BY DEF Consistent
<1> QED BY <1>9, <1>10, <1>15, <1>16 DEF Walks

-----------------------------------------------------------------------------
(* The progress of a call *)

\* What the store holds is what the commands of the file say.
Stored == /\ FileTyped /\ main.title = Title /\ main.author = Author /\ body = Written

\* The node contains what an outputter of the kind of by shows.
KindFits(by, n) ==
  \A kind \in {"htmlTitle", "bare", "latexRoot"} : by.kind = kind <=> KindsOf(n) = {kind}

\* The one outputter of a node is of the kind its tag asks for.
LEMMA RetrievedFits ==
  ASSUME NEW n, NEW by, Offered(n.tag) = {by}
  PROVE  by \in Outputters /\ by.tag = n.tag /\ KindFits(by, n)
<1>1. by \in Outputters /\ by.tag = n.tag
  BY DEF Offered
<1>2. KindsOf(n) = {by.kind}
  BY DEF KindsOf
<1> QED BY <1>1, <1>2 DEF KindFits

\* The call of the pass itself is for the file.
LEMMA PassFits == KindFits(Bottom.by, Pass) /\ KindsOf(Pass) = {} /\ Pass.elems = <<File>>
<1>1. PICK S : S = {o.tag : o \in Outputters}
  OBVIOUS
<1>2. \E t : t \notin S
  <2>1. {x \in S : x \notin x} \notin S
    OBVIOUS
  <2> QED BY <2>1
<1>3. Pass.tag \notin {o.tag : o \in Outputters}
  BY <1>1, <1>2 DEF Pass
<1>4. KindsOf(Pass) = {}
  BY <1>3 DEF KindsOf, Offered
<1>5. Bottom.by.kind = "pass"
  BY DEF Bottom
<1>6. Pass.elems = <<File>>
  BY DEF Pass
<1> QED BY <1>4, <1>5, <1>6 DEF KindFits

\* A call that begins has done nothing.
LEMMA ProgressNone ==
  ASSUME Stored, NEW fs, NEW f, NEW n, n.elems \in Seq(Here), NEW d \in 0 .. MaxDepth,
         f.todo = Parts(f.by, n), f.made = NoCode
  PROVE  Progress(fs, f, n, d, 0)
<1>1. PICK x, y, z, P : x = PartOf(f.by, n, 1) /\ y = PartOf(f.by, n, 2) /\ z = PartOf(f.by, n, 3)
                        /\ P = Parts(f.by, n)
  OBVIOUS
<1>2. x \in Seq(Here) /\ y \in Seq(Here) /\ z \in Seq(Here) /\ P \in Seq(Todos)
  <2>1. Three(P, x, y, z)
    BY <1>1, PartsFacts DEF Stored
  <2> QED BY <1>1, <2>1, PartTyped DEF Stored, Three
<1>3. Len(x) \in Nat /\ Len(y) \in Nat /\ Len(z) \in Nat /\ Len(P) \in Nat
  BY <1>2, LenProperties
<1>4. Taken(x, 0) = <<>> /\ Taken(y, 0 - Len(x)) = <<>> /\ Taken(z, 0 - (Len(x) + Len(y))) = <<>>
  BY <1>2, <1>3, TakenFacts
<1>5. SubSeq(P, 0 + 1, Len(P)) = P
  BY <1>2, SubSeqFull
<1>6. \A p \in 1 .. 3 : Words(f.made[p]) = <<>>
  BY WordsNone DEF NoCode
<1> QED BY <1>1, <1>3, <1>4, <1>5, <1>6, JoinedNone DEF Progress

\* When the code of an object comes back, the call has done one object more.
LEMMA ProgressStep ==
  ASSUME Stored, NEW fs, NEW f \in Frames, NEW n, n.elems \in Seq(Here), NEW d \in 0 .. MaxDepth,
         NEW i \in Nat, Progress(fs, f, n, d, i), f.todo # <<>>, NEW c \in Seq(Tokens),
         Words(c) = Text[d][Head(f.todo).obj], Fine(fs, d, Head(f.todo).obj)
  PROVE  Advanced(f, c) \in Frames /\ Progress(fs, Advanced(f, c), n, d, i + 1)
<1>1. PICK x, y, z, P : x = PartOf(f.by, n, 1) /\ y = PartOf(f.by, n, 2) /\ z = PartOf(f.by, n, 3)
                        /\ P = Parts(f.by, n)
  OBVIOUS
<1>2. x \in Seq(Here) /\ y \in Seq(Here) /\ z \in Seq(Here)
  BY <1>1, PartTyped DEF Stored
<1>3. /\ P \in Seq(Todos) /\ Len(P) = Len(x) + Len(y) + Len(z)
      /\ \A j \in 1 .. Len(x) : P[j].part = 1 /\ P[j].obj = x[j]
      /\ \A j \in 1 .. Len(y) : P[Len(x) + j].part = 2 /\ P[Len(x) + j].obj = y[j]
      /\ \A j \in 1 .. Len(z) : P[Len(x) + Len(y) + j].part = 3 /\ P[Len(x) + Len(y) + j].obj = z[j]
  <2>1. Three(P, x, y, z)
    BY <1>1, PartsFacts DEF Stored
  <2> QED BY <2>1 DEF Three
<1>4. Len(x) \in Nat /\ Len(y) \in Nat /\ Len(z) \in Nat /\ Len(P) \in Nat
  BY <1>2, <1>3, LenProperties
<1>5. i \in 0 .. Len(P) /\ f.todo = SubSeq(P, i + 1, Len(P))
  BY <1>1 DEF Progress
<1>6. i < Len(P)
  <2>1. i = Len(P) => SubSeq(P, i + 1, Len(P)) = <<>>
    BY <1>4, SubSeqEmpty
  <2> QED BY <1>4, <1>5, <2>1
<1>7. i + 1 \in 1 .. Len(P) /\ Len(P) \in (i + 1) .. Len(P)
  BY <1>4, <1>6
<1>8. Head(f.todo) = P[i + 1] /\ Tail(f.todo) = SubSeq(P, (i + 1) + 1, Len(P))
  BY <1>3, <1>5, <1>7, HeadTailOfSubSeq
<1>9. PICK p, o : P[i + 1].part = p /\ P[i + 1].obj = o /\ p \in 1 .. 3 /\ o \in Here
  <2>1. P[i + 1] \in Todos
    BY <1>3, <1>7, ElementOfSeq
  <2> QED BY <2>1 DEF Todos
<1>10. PICK g : g = Advanced(f, c)
  OBVIOUS
<1>11. /\ g.by = f.by /\ g.leaf = f.leaf /\ g.todo = Tail(f.todo)
       /\ g.made[p] = f.made[p] \o c /\ \A q \in 1 .. 3 : q # p => g.made[q] = f.made[q]
       /\ g = [by |-> f.by, leaf |-> f.leaf, todo |-> Tail(f.todo),
               made |-> [f.made EXCEPT ![p] = @ \o c]]
  <2>1. f = [by |-> f.by, leaf |-> f.leaf, todo |-> f.todo, made |-> f.made]
        /\ DOMAIN f.made = 1 .. 3
    BY DEF Frames
  <2>2. g = [f EXCEPT !.made[p] = @ \o c, !.todo = Tail(@)]
    BY <1>8, <1>9, <1>10 DEF Advanced
  <2>3. g = [by |-> f.by, leaf |-> f.leaf, todo |-> Tail(f.todo),
             made |-> [f.made EXCEPT ![p] = @ \o c]]
    BY <2>1, <2>2
  <2> QED BY <1>9, <2>1, <2>3
<1>12. \A q \in 1 .. 3 : f.made[q] \in Seq(Tokens)
  BY DEF Frames
<1>13. f.made[p] \o c \in Seq(Tokens) /\ Words(f.made[p] \o c) = Words(f.made[p]) \o Words(c)
  BY <1>9, <1>12, ConcatProperties, WordsConcat
<1>14. g \in Frames
  <2>1. Tail(f.todo) \in Seq([part : 1 .. 3, obj : Here])
    BY HeadTailProperties DEF Frames
  <2> QED BY <1>11, <1>13, <2>1 DEF Frames
<1>15. ASSUME NEW s \in Seq(Here), NEW m \in 0 .. Len(s), m < Len(s), s[m + 1] = o,
              Words(f.made[p]) = Joined(Text[d], Taken(s, m))
       PROVE  Words(g.made[p]) = Joined(Text[d], Taken(s, m + 1))
  <2>1. Taken(s, m) \in Seq(Here) /\ Taken(s, m + 1) = Append(Taken(s, m), o)
    BY <1>15, TakenFacts, LenProperties
  <2>2. Text[d] \in [Here -> Seq(Texts)]
    BY TextLoop DEF TextIs, Stored
  <2>3. Joined(Text[d], Append(Taken(s, m), o)) = Joined(Text[d], Taken(s, m)) \o Text[d][o]
    BY <1>9, <2>1, <2>2, JoinedAppend
  <2> QED BY <1>8, <1>9, <1>11, <1>13, <1>15, <2>1, <2>3
<1>16. /\ Words(f.made[1]) = Joined(Text[d], Taken(x, i))
       /\ Words(f.made[2]) = Joined(Text[d], Taken(y, i - Len(x)))
       /\ Words(f.made[3]) = Joined(Text[d], Taken(z, i - (Len(x) + Len(y))))
  BY <1>1 DEF Progress
<1>17. /\ Words(g.made[1]) = Joined(Text[d], Taken(x, i + 1))
       /\ Words(g.made[2]) = Joined(Text[d], Taken(y, (i + 1) - Len(x)))
       /\ Words(g.made[3]) = Joined(Text[d], Taken(z, (i + 1) - (Len(x) + Len(y))))
  <2>1. CASE i < Len(x)
    <3>1. i + 1 \in 1 .. Len(x) /\ i \in 0 .. Len(x)
      BY <1>4, <2>1
    <3>2. p = 1 /\ x[i + 1] = o
      BY <1>3, <1>9, <3>1
    <3>3. Taken(y, i - Len(x)) = <<>> /\ Taken(y, (i + 1) - Len(x)) = <<>>
          /\ Taken(z, i - (Len(x) + Len(y))) = <<>> /\ Taken(z, (i + 1) - (Len(x) + Len(y))) = <<>>
      BY <1>2, <1>4, <2>1, TakenFacts
    <3>4. Words(g.made[1]) = Joined(Text[d], Taken(x, i + 1))
      BY <1>2, <1>15, <1>16, <2>1, <3>1, <3>2
    <3>5. g.made[2] = f.made[2] /\ g.made[3] = f.made[3]
      BY <1>11, <3>2
    <3>6. Words(g.made[2]) = Joined(Text[d], Taken(y, (i + 1) - Len(x)))
      BY <1>16, <3>3, <3>5
    <3>7. Words(g.made[3]) = Joined(Text[d], Taken(z, (i + 1) - (Len(x) + Len(y))))
      BY <1>16, <3>3, <3>5
    <3> QED BY <3>4, <3>6, <3>7
  <2>2. CASE Len(x) <= i /\ i < Len(x) + Len(y)
    <3>0. i - Len(x) \in Nat
      BY <1>4, <2>2
    <3>1. PICK m \in Nat : m = i - Len(x)
      BY <3>0
    <3>2. m \in 0 .. Len(y) /\ m < Len(y) /\ m + 1 \in 1 .. Len(y) /\ i + 1 = Len(x) + (m + 1)
          /\ (i + 1) - Len(x) = m + 1
      BY <1>4, <2>2, <3>1
    <3>3. p = 2 /\ y[m + 1] = o
      BY <1>3, <1>9, <3>2
    <3>5. Words(g.made[2]) = Joined(Text[d], Taken(y, m + 1))
      BY <1>2, <1>15, <1>16, <3>1, <3>2, <3>3
    <3>6. g.made[1] = f.made[1] /\ g.made[3] = f.made[3]
      BY <1>11, <3>3
    <3>4. Taken(x, i) = x /\ Taken(x, i + 1) = x
          /\ Taken(z, i - (Len(x) + Len(y))) = <<>> /\ Taken(z, (i + 1) - (Len(x) + Len(y))) = <<>>
      BY <1>2, <1>4, <2>2, TakenFacts
    <3>7. Words(g.made[1]) = Joined(Text[d], Taken(x, i + 1))
      BY <1>16, <3>4, <3>6
    <3>8. Words(g.made[3]) = Joined(Text[d], Taken(z, (i + 1) - (Len(x) + Len(y))))
      BY <1>16, <3>4, <3>6
    <3> QED BY <3>2, <3>5, <3>7, <3>8
  <2>3. CASE Len(x) + Len(y) <= i
    <3>0. i - (Len(x) + Len(y)) \in Nat
      BY <1>4, <2>3
    <3>1. PICK m \in Nat : m = i - (Len(x) + Len(y))
      BY <3>0
    <3>2. m \in 0 .. Len(z) /\ m < Len(z) /\ m + 1 \in 1 .. Len(z) /\ i + 1 = Len(x) + Len(y) + (m + 1)
          /\ (i + 1) - (Len(x) + Len(y)) = m + 1
      BY <1>3, <1>4, <1>6, <2>3, <3>1
    <3>3. p = 3 /\ z[m + 1] = o
      BY <1>3, <1>9, <3>2
    <3>5. Words(g.made[3]) = Joined(Text[d], Taken(z, m + 1))
      BY <1>2, <1>15, <1>16, <3>1, <3>2, <3>3
    <3>6. g.made[1] = f.made[1] /\ g.made[2] = f.made[2]
      BY <1>11, <3>3
    <3>4. Taken(x, i) = x /\ Taken(x, i + 1) = x
          /\ Taken(y, i - Len(x)) = y /\ Taken(y, (i + 1) - Len(x)) = y
      BY <1>2, <1>4, <2>3, TakenFacts
    <3>7. Words(g.made[1]) = Joined(Text[d], Taken(x, i + 1))
      BY <1>16, <3>4, <3>6
    <3>8. Words(g.made[2]) = Joined(Text[d], Taken(y, (i + 1) - Len(x)))
      BY <1>16, <3>4, <3>6
    <3> QED BY <3>2, <3>5, <3>7, <3>8
  <2> QED BY <1>4, <2>1, <2>2, <2>3
<1>18. \A j \in 1 .. i + 1 : Fine(fs, d, P[j].obj)
  <2>1. \A j \in 1 .. i : Fine(fs, d, P[j].obj)
    BY <1>1 DEF Progress
  <2>2. Fine(fs, d, P[i + 1].obj)
    BY <1>8
  <2>3. \A j \in 1 .. i + 1 : j \in 1 .. i \/ j = i + 1
    OBVIOUS
  <2> QED BY <2>1, <2>2, <2>3, Zenon
<1>19. g.by = f.by /\ i + 1 \in 0 .. Len(P) /\ g.todo = SubSeq(P, (i + 1) + 1, Len(P))
  <2>1. i + 1 \in 0 .. Len(P)
    BY <1>4, <1>7
  <2> QED BY <1>8, <1>11, <2>1, Zenon
<1>20. Progress(fs, g, n, d, i + 1)
  BY <1>1, <1>17, <1>18, <1>19, Zenon DEF Progress
<1> QED BY <1>10, <1>14, <1>20

-----------------------------------------------------------------------------
(* The end of a call *)

\* A call with nothing left to do has all its parts in its code.
LEMMA ProgressDone ==
  ASSUME Stored, NEW fs, NEW f, NEW n, n.elems \in Seq(Here), NEW d \in 0 .. MaxDepth,
         NEW i \in Nat, Progress(fs, f, n, d, i), f.todo = <<>>, NEW x, NEW y, NEW z,
         x = PartOf(f.by, n, 1), y = PartOf(f.by, n, 2), z = PartOf(f.by, n, 3)
  PROVE  /\ Words(f.made[1]) = Joined(Text[d], x) /\ Words(f.made[2]) = Joined(Text[d], y)
         /\ Words(f.made[3]) = Joined(Text[d], z)
         /\ \A j \in 1 .. Len(x) : Fine(fs, d, x[j])
         /\ \A j \in 1 .. Len(y) : Fine(fs, d, y[j])
         /\ \A j \in 1 .. Len(z) : Fine(fs, d, z[j])
<1>1. PICK P : P = Parts(f.by, n)
  OBVIOUS
<1>2. x \in Seq(Here) /\ y \in Seq(Here) /\ z \in Seq(Here)
  BY PartTyped DEF Stored
<1>3. Three(P, x, y, z)
  BY <1>1, PartsFacts DEF Stored
<1>4. Len(x) \in Nat /\ Len(y) \in Nat /\ Len(z) \in Nat /\ Len(P) \in Nat /\ P \in Seq(Todos)
      /\ Len(P) = Len(x) + Len(y) + Len(z)
  BY <1>2, <1>3, LenProperties DEF Three
<1>5. i \in 0 .. Len(P) /\ SubSeq(P, i + 1, Len(P)) = <<>>
  BY <1>1 DEF Progress
<1>6. i = Len(P)
  <2> SUFFICES ASSUME i # Len(P) PROVE FALSE
    OBVIOUS
  <2>1. i + 1 \in 1 .. Len(P) /\ Len(P) \in (i + 1) .. Len(P)
    BY <1>4, <1>5
  <2>2. \A j \in (i + 1) .. Len(P) : P[j] \in Todos
    BY <1>4, <1>5, ElementOfSeq
  <2>3. Len(SubSeq(P, i + 1, Len(P))) = Len(P) - (i + 1) + 1
    BY <1>4, <2>1, <2>2, SubSeqProperties
  <2>4. Len(<<>>) = 0
    BY EmptySeq
  <2>5. Len(P) - (i + 1) + 1 = 0
    BY <1>5, <2>3, <2>4
  <2> QED BY <1>4, <1>5, <2>1, <2>5
<1>7. Taken(x, i) = x /\ Taken(y, i - Len(x)) = y /\ Taken(z, i - (Len(x) + Len(y))) = z
  BY <1>2, <1>4, <1>6, TakenFacts
<1>8. /\ Words(f.made[1]) = Joined(Text[d], x) /\ Words(f.made[2]) = Joined(Text[d], y)
      /\ Words(f.made[3]) = Joined(Text[d], z)
  BY <1>7 DEF Progress
<1>9. \A j \in 1 .. Len(P) : Fine(fs, d, P[j].obj)
  BY <1>1, <1>6 DEF Progress
<1>10. ASSUME NEW j \in 1 .. Len(x) PROVE Fine(fs, d, x[j])
  <2>1. j \in 1 .. Len(P) /\ P[j].obj = x[j]
    BY <1>3, <1>4 DEF Three
  <2> QED BY <1>9, <2>1
<1>11. ASSUME NEW j \in 1 .. Len(y) PROVE Fine(fs, d, y[j])
  <2>1. P[Len(x) + j].obj = y[j]
    BY <1>3, Zenon DEF Three
  <2>3. Len(x) + j \in 1 .. Len(P)
    BY <1>4
  <2>2. Fine(fs, d, P[Len(x) + j].obj)
    BY <1>9, <2>3
  <2> QED BY <2>1, <2>2
<1>12. ASSUME NEW j \in 1 .. Len(z) PROVE Fine(fs, d, z[j])
  <2>1. P[Len(x) + Len(y) + j].obj = z[j]
    BY <1>3, Zenon DEF Three
  <2>3. Len(x) + Len(y) + j \in 1 .. Len(P)
    BY <1>4
  <2>2. Fine(fs, d, P[Len(x) + Len(y) + j].obj)
    BY <1>9, <2>3
  <2> QED BY <2>1, <2>2
<1> QED BY <1>8, <1>10, <1>11, <1>12

\* An object is in a sequence.
Has(s, o) == \E j \in 1 .. Len(s) : s[j] = o

\* It is in a concatenation if it is in one of the two.
LEMMA HasConcat ==
  ASSUME NEW S, NEW s \in Seq(S), NEW t \in Seq(S), NEW o
  PROVE  Has(s \o t, o) <=> Has(s, o) \/ Has(t, o)
<1>1. Len(s) \in Nat /\ Len(t) \in Nat
  BY LenProperties
<1>2. /\ Len(s \o t) = Len(s) + Len(t)
      /\ \A i \in 1 .. Len(s) + Len(t) : (s \o t)[i] = IF i <= Len(s) THEN s[i] ELSE t[i - Len(s)]
  BY ConcatProperties
<1>3. ASSUME Has(s \o t, o) PROVE Has(s, o) \/ Has(t, o)
  <2>1. PICK j \in 1 .. Len(s) + Len(t) : (s \o t)[j] = o
    BY <1>2, <1>3 DEF Has
  <2>2. CASE j <= Len(s)
    <3>1. j \in 1 .. Len(s) /\ s[j] = o
      BY <1>1, <1>2, <2>1, <2>2
    <3> QED BY <3>1 DEF Has
  <2>3. CASE ~(j <= Len(s))
    <3>1. j - Len(s) \in 1 .. Len(t) /\ t[j - Len(s)] = o
      BY <1>1, <1>2, <2>1, <2>3
    <3> QED BY <3>1 DEF Has
  <2> QED BY <2>2, <2>3
<1>4. ASSUME Has(s, o) PROVE Has(s \o t, o)
  <2>1. PICK j \in 1 .. Len(s) : s[j] = o
    BY <1>4 DEF Has
  <2>2. j \in 1 .. Len(s) + Len(t) /\ (s \o t)[j] = o
    BY <1>1, <1>2, <2>1
  <2> QED BY <1>2, <2>2 DEF Has
<1>5. ASSUME Has(t, o) PROVE Has(s \o t, o)
  <2>1. PICK j \in 1 .. Len(t) : t[j] = o
    BY <1>5 DEF Has
  <2>2. PICK k : k = Len(s) + j
    OBVIOUS
  <2>3. k \in 1 .. Len(s) + Len(t) /\ ~(k <= Len(s)) /\ k - Len(s) = j
    BY <1>1, <2>2
  <2>4. (s \o t)[k] = o
    BY <1>2, <2>1, <2>3
  <2> QED BY <1>2, <2>3, <2>4 DEF Has
<1> QED BY <1>3, <1>4, <1>5

\* A call outputs what its node contains.
LEMMA PartsAreContained ==
  ASSUME Stored, NEW by, NEW n, n.elems \in Seq(Here), KindFits(by, n), NEW o
  PROVE  Has(Contained(n), o) <=> \/ Has(PartOf(by, n, 1), o) \/ Has(PartOf(by, n, 2), o)
                                  \/ Has(PartOf(by, n, 3), o)
<1>1. Title \in Seq(Here) /\ Author \in Seq(Here) /\ Title \o Author \in Seq(Here)
  BY HereFacts, ConcatProperties DEF Stored
<1>2. ~Has(<<>>, o)
  <2>1. Len(<<>>) = 0 /\ 1 .. 0 = {}
    BY EmptySeq
  <2> QED BY <2>1 DEF Has
<1>3. Has(Title \o Author, o) <=> Has(Title, o) \/ Has(Author, o)
  BY <1>1, HasConcat
<1>4. Has((Title \o Author) \o n.elems, o) <=> Has(Title, o) \/ Has(Author, o) \/ Has(n.elems, o)
  BY <1>1, <1>3, HasConcat
<1>5. CASE by.kind = "bare"
  <2>1. Contained(n) = <<>> /\ \A p \in 1 .. 3 : PartOf(by, n, p) = <<>>
    BY <1>5 DEF KindFits, Contained, PartOf
  <2> QED BY <1>2, <2>1
<1>6. CASE by.kind = "htmlTitle"
  <2>1. Contained(n) = Title \o Author /\ PartOf(by, n, 1) = Title /\ PartOf(by, n, 2) = Author
        /\ PartOf(by, n, 3) = <<>>
    BY <1>6 DEF KindFits, Contained, PartOf
  <2> QED BY <1>2, <1>3, <2>1
<1>7. CASE by.kind = "latexRoot"
  <2>1. KindsOf(n) = {"latexRoot"}
    BY <1>7 DEF KindFits
  <2>2. Contained(n) = (Title \o Author) \o n.elems
    BY <2>1 DEF Contained
  <2>3. PartOf(by, n, 1) = n.elems /\ PartOf(by, n, 2) = Title /\ PartOf(by, n, 3) = Author
    BY <1>7 DEF PartOf
  <2> QED BY <1>4, <2>2, <2>3
<1>8. CASE by.kind \notin {"bare", "htmlTitle", "latexRoot"}
  <2>1. Contained(n) = n.elems /\ PartOf(by, n, 1) = n.elems
        /\ PartOf(by, n, 2) = <<>> /\ PartOf(by, n, 3) = <<>>
    BY <1>8 DEF KindFits, Contained, PartOf
  <2> QED BY <1>2, <2>1
<1> QED BY <1>5, <1>6, <1>7, <1>8

\* Marks of the target language are no words.
LEMMA WrappedFacts ==
  ASSUME NEW tag \in Names, NEW c \in Seq(Tokens)
  PROVE  /\ Wrapped(tag, c) \in Seq(Tokens) /\ Words(Wrapped(tag, c)) = Words(c)
         /\ Empty(tag) \in Seq(Tokens) /\ Words(Empty(tag)) = <<>>
<1>1. PICK a, b, e : a = <<"open", tag>> /\ b = <<"close", tag>> /\ e = <<"empty", tag>>
  OBVIOUS
<1>2. a \in Tokens /\ b \in Tokens /\ e \in Tokens /\ ~IsWord(a) /\ ~IsWord(b) /\ ~IsWord(e)
  BY <1>1 DEF Tokens, IsWord
<1>3. <<a>> \in Seq(Tokens) /\ <<b>> \in Seq(Tokens) /\ <<e>> \in Seq(Tokens)
  BY <1>2
<1>4. Words(<<a>>) = <<>> /\ Words(<<b>>) = <<>> /\ Words(<<e>>) = <<>>
  BY <1>2, WordsOne
<1>5. Words(c) \in Seq(Tokens) /\ <<a>> \o c \in Seq(Tokens)
  BY <1>3, WordsTyped, ConcatProperties
<1>6. (<<a>> \o c) \o <<b>> \in Seq(Tokens)
      /\ Words((<<a>> \o c) \o <<b>>) = Words(<<a>> \o c) \o Words(<<b>>)
  BY <1>3, <1>5, ConcatProperties, WordsConcat
<1>7. Words(<<a>> \o c) = Words(<<a>>) \o Words(c)
  BY <1>3, WordsConcat
<1>8. Words((<<a>> \o c) \o <<b>>) = Words(c)
  BY <1>4, <1>5, <1>6, <1>7, ConcatEmptySeq
<1> QED BY <1>1, <1>3, <1>4, <1>6, <1>8 DEF Wrapped, Empty

\* A function from U to sequences over W.
Gives(f, U, W) == f \in [U -> Seq(W)]

\* JoinedConcat, for such a function.
LEMMA GivesConcat ==
  ASSUME NEW f, NEW U, NEW W, Gives(f, U, W), NEW s \in Seq(U), NEW t \in Seq(U)
  PROVE  Joined(f, s \o t) = Joined(f, s) \o Joined(f, t)
<1>1. f \in [U -> Seq(W)]
  BY DEF Gives
<1> QED BY <1>1, JoinedConcat

\* The code of a finished call holds the text of what its node contains.
LEMMA AssembledFacts ==
  ASSUME Stored, NEW f \in Frames, NEW n, n.elems \in Seq(Here), KindFits(f.by, n),
         f.by \in Outputters, f.leaf = (n.elems = <<>>), NEW d \in 0 .. MaxDepth,
         Words(f.made[1]) = Joined(Text[d], PartOf(f.by, n, 1)),
         Words(f.made[2]) = Joined(Text[d], PartOf(f.by, n, 2)),
         Words(f.made[3]) = Joined(Text[d], PartOf(f.by, n, 3))
  PROVE  Assembled(f) \in Seq(Tokens) /\ Words(Assembled(f)) = Joined(Text[d], Contained(n))
<1>1. PICK a, b, c : a = f.made[1] /\ b = f.made[2] /\ c = f.made[3]
  OBVIOUS
<1>2. a \in Seq(Tokens) /\ b \in Seq(Tokens) /\ c \in Seq(Tokens)
  BY <1>1 DEF Frames
<1>3. f.by.tag \in Names /\ {"header", "h1", "subtitle", "title", "author", "document"} \subseteq Names
  BY DEF Names
<1>4. PICK T : T = Text[d] /\ T \in [Here -> Seq(Texts)]
  BY TextLoop DEF TextIs, Stored
<1>5. Title \in Seq(Here) /\ Author \in Seq(Here) /\ Title \o Author \in Seq(Here)
  BY HereFacts, ConcatProperties DEF Stored
<1>6. Joined(T, Title \o Author) = Joined(T, Title) \o Joined(T, Author)
  <2>1. PICK U, W, s, t : T \in [U -> Seq(W)] /\ s \in Seq(U) /\ t \in Seq(U) /\ s = Title /\ t = Author
    BY <1>4, <1>5
  <2>2. Joined(T, s \o t) = Joined(T, s) \o Joined(T, t)
    BY <2>1, JoinedConcat
  <2> QED BY <2>1, <2>2
<1>11. Joined(T, (Title \o Author) \o n.elems) = Joined(T, Title \o Author) \o Joined(T, n.elems)
  <2>1. Gives(T, Here, Texts)
    BY <1>4 DEF Gives
  <2>2. PICK s : s = Title \o Author /\ s \in Seq(Here)
    BY <1>5
  <2>3. Joined(T, s \o n.elems) = Joined(T, s) \o Joined(T, n.elems)
    BY <2>1, <2>2, GivesConcat
  <2> QED BY <2>2, <2>3
<1>7. CASE f.by.kind = "bare" \/ (f.by.kind = "htmlTag" /\ f.leaf)
  <2>1. Contained(n) = <<>>
    BY <1>7 DEF KindFits, Contained
  <2>2. Assembled(f) = Empty(f.by.tag)
    BY <1>7 DEF Assembled
  <2> QED BY <1>2, <1>3, <2>1, <2>2, WrappedFacts, JoinedNone
<1>8. CASE f.by.kind = "htmlTitle"
  <2>1. Contained(n) = Title \o Author /\ PartOf(f.by, n, 1) = Title /\ PartOf(f.by, n, 2) = Author
    BY <1>8 DEF KindFits, Contained, PartOf
  <2>2. PICK h, s : h = Wrapped("h1", a) /\ s = Wrapped("subtitle", b)
    OBVIOUS
  <2>3. h \in Seq(Tokens) /\ Words(h) = Words(a) /\ s \in Seq(Tokens) /\ Words(s) = Words(b)
    BY <1>2, <1>3, <2>2, WrappedFacts
  <2>4. h \o s \in Seq(Tokens) /\ Words(h \o s) = Words(a) \o Words(b)
    <3>1. h \in Seq(Tokens) /\ s \in Seq(Tokens)
      BY <2>3
    <3>2. h \o s \in Seq(Tokens)
      BY <3>1, ConcatProperties
    <3>3. Words(h \o s) = Words(h) \o Words(s)
      BY <3>1, WordsConcat
    <3> QED BY <2>3, <3>2, <3>3
  <2>5. Assembled(f) = Wrapped("header", h \o s)
    BY <1>1, <1>8, <2>2 DEF Assembled
  <2>6. Assembled(f) \in Seq(Tokens) /\ Words(Assembled(f)) = Words(h \o s)
    <3>1. PICK g : g = h \o s /\ g \in Seq(Tokens)
      BY <2>4
    <3>2. Wrapped("header", g) \in Seq(Tokens) /\ Words(Wrapped("header", g)) = Words(g)
      BY <1>3, <3>1, WrappedFacts
    <3> QED BY <2>5, <3>1, <3>2
  <2> QED BY <1>1, <1>4, <1>6, <2>1, <2>4, <2>6
<1>9. CASE f.by.kind = "latexRoot"
  <2>0. KindsOf(n) = {"latexRoot"}
    BY <1>9 DEF KindFits
  <2>1. Contained(n) = (Title \o Author) \o n.elems
    BY <2>0 DEF Contained
  <2>8. PartOf(f.by, n, 1) = n.elems /\ PartOf(f.by, n, 2) = Title /\ PartOf(f.by, n, 3) = Author
    BY <1>9 DEF PartOf
  <2>2. PICK t, s, b0 : t = Wrapped("title", b) /\ s = Wrapped("author", c) /\ b0 = Wrapped("document", a)
    OBVIOUS
  <2>3. /\ t \in Seq(Tokens) /\ Words(t) = Words(b) /\ s \in Seq(Tokens) /\ Words(s) = Words(c)
        /\ b0 \in Seq(Tokens) /\ Words(b0) = Words(a)
    BY <1>2, <1>3, <2>2, WrappedFacts
  <2>4. t \o s \in Seq(Tokens) /\ Words(t \o s) = Words(b) \o Words(c)
    <3>1. t \in Seq(Tokens) /\ s \in Seq(Tokens)
      BY <2>3
    <3>2. t \o s \in Seq(Tokens)
      BY <3>1, ConcatProperties
    <3>3. Words(t \o s) = Words(t) \o Words(s)
      BY <3>1, WordsConcat
    <3> QED BY <2>3, <3>2, <3>3
  <2>5. (t \o s) \o b0 \in Seq(Tokens) /\ Words((t \o s) \o b0) = Words(t \o s) \o Words(b0)
    <3>1. t \o s \in Seq(Tokens) /\ b0 \in Seq(Tokens)
      BY <2>3, <2>4
    <3>2. (t \o s) \o b0 \in Seq(Tokens)
      BY <3>1, ConcatProperties
    <3>3. Words((t \o s) \o b0) = Words(t \o s) \o Words(b0)
      BY <3>1, WordsConcat
    <3> QED BY <3>2, <3>3
  <2>6. Assembled(f) = (t \o s) \o b0
    BY <1>1, <1>9, <2>2 DEF Assembled
  <2> QED BY <1>1, <1>4, <1>6, <2>1, <2>3, <2>4, <2>5, <2>6, <2>8, <1>11
<1>10. CASE f.by.kind \notin {"bare", "htmlTitle", "latexRoot"} /\ ~(f.by.kind = "htmlTag" /\ f.leaf)
  <2>1. Contained(n) = n.elems /\ PartOf(f.by, n, 1) = n.elems
    BY <1>10 DEF KindFits, Contained, PartOf
  <2>2. Assembled(f) = Wrapped(f.by.tag, a)
    BY <1>1, <1>10 DEF Assembled
  <2> QED BY <1>1, <1>2, <1>3, <2>1, <2>2, WrappedFacts
<1> QED BY <1>7, <1>8, <1>9, <1>10

-----------------------------------------------------------------------------
(* What keeps the walk *)

\* A call is as far as it was when another file is required.
LEMMA CallGrows ==
  ASSUME NEW s, NEW fs, NEW gs, fs \subseteq gs, NEW k, CallInv(s, fs, k)
  PROVE  CallInv(s, gs, k)
<1>1. \A n : Served(fs, n) => Served(gs, n)
  BY DEF Served
<1>2. \A d, o : Fine(fs, d, o) => Fine(gs, d, o)
  BY <1>1 DEF Fine
<1>3. \A f, n, d, i : Progress(fs, f, n, d, i) => Progress(gs, f, n, d, i)
  BY <1>2 DEF Progress
<1>4. \A f, n : Serves(fs, f, n) => Serves(gs, f, n)
  BY DEF Serves
<1> QED BY <1>3, <1>4 DEF CallInv

\* A call is as far as it was when the calls above it change.
LEMMA CallStays ==
  ASSUME NEW s, NEW t, NEW fs, NEW k \in Nat \ {0}, CallInv(s, fs, k), t[k] = s[k], k > 1 => t[k - 1] = s[k - 1]
  PROVE  CallInv(t, fs, k)
BY DEF CallInv, Called

\* What a call was made for.
LEMMA CalledFacts ==
  ASSUME Stored, NEW s, NEW fs, Walks(s, fs), NEW k \in 1 .. Len(s), NEW n, n = Called(s, k)
  PROVE  /\ n.elems \in Seq(Here) /\ KindFits(s[k].by, n) /\ s[k] \in Frames
         /\ k > 1 => n \in Here /\ ~IsStr(n) /\ s[k].by \in Outputters /\ s[k - 1].todo # <<>>
<1>1. s \in Seq(Frames) /\ Len(s) \in Nat /\ CallInv(s, fs, k)
  BY BoundsAssumption DEF Walks
<1>2. s[k] \in Frames
  BY <1>1, ElementOfSeq
<1>3. CASE k = 1
  <2>1. n = Pass /\ s[k].by = Bottom.by
    BY <1>1, <1>3 DEF CallInv, Called
  <2>2. KindFits(s[k].by, n) /\ n.elems = <<File>>
    BY <2>1, PassFits
  <2>3. n.elems \in Seq(Here)
    BY <2>2, HereFacts DEF Stored
  <2> QED BY <1>2, <1>3, <2>2, <2>3
<1>4. CASE k > 1
  <2>1. s[k - 1].todo # <<>> /\ Serves(fs, s[k], n)
    BY <1>1, <1>4 DEF CallInv
  <2>2. k - 1 \in 1 .. Len(s)
    BY <1>1, <1>4
  <2>3. s[k - 1] \in Frames
    BY <1>1, <2>2, ElementOfSeq
  <2>4. s[k - 1].todo \in Seq([part : 1 .. 3, obj : Here])
    BY <2>3 DEF Frames
  <2>5. Head(s[k - 1].todo) \in [part : 1 .. 3, obj : Here]
    BY <2>1, <2>4, HeadTailProperties
  <2>6. n \in Here
    BY <1>4, <2>5 DEF Called
  <2>7. ~IsStr(n) /\ Offered(n.tag) = {s[k].by}
    BY <2>1 DEF Serves
  <2>8. n.elems \in Seq(Here)
    BY <2>6, <2>7, HereFacts DEF Stored
  <2> QED BY <1>2, <2>1, <2>6, <2>7, <2>8, RetrievedFits
<1> QED BY <1>1, <1>3, <1>4

\* What a call outputs next belongs to the file.
LEMMA NextObject ==
  ASSUME Stored, NEW s, NEW fs, Walks(s, fs), NEW k \in 1 .. Len(s), s[k].todo # <<>>,
         NEW o, o = Head(s[k].todo).obj
  PROVE  /\ o \in Here /\ MaxDepth - k \in 0 .. MaxDepth
         /\ NodesIn[MaxDepth - k][o] \subseteq Shown
         /\ HasRoom => o \in Fitting[MaxDepth - k]
<1>1. s \in Seq(Frames) /\ Len(s) \in 1 .. MaxDepth /\ CallInv(s, fs, k)
  BY DEF Walks
<1>2. PICK f, n : f = s[k] /\ n = Called(s, k)
  OBVIOUS
<1>3. n.elems \in Seq(Here) /\ KindFits(f.by, n) /\ f \in Frames
  BY <1>2, CalledFacts
<1>4. PICK i \in Nat : Progress(fs, f, n, MaxDepth - k, i)
  BY <1>1, <1>2 DEF CallInv
<1>5. PICK x, y, z, P : x = PartOf(f.by, n, 1) /\ y = PartOf(f.by, n, 2) /\ z = PartOf(f.by, n, 3)
                        /\ P = Parts(f.by, n)
  OBVIOUS
<1>6. Three(P, x, y, z)
  BY <1>3, <1>5, PartsFacts DEF Stored
<1>7. x \in Seq(Here) /\ y \in Seq(Here) /\ z \in Seq(Here)
  BY <1>3, <1>5, PartTyped DEF Stored
<1>8. Len(x) \in Nat /\ Len(y) \in Nat /\ Len(z) \in Nat /\ Len(P) \in Nat /\ P \in Seq(Todos)
      /\ Len(P) = Len(x) + Len(y) + Len(z)
  BY <1>6, <1>7, LenProperties DEF Three
<1>9. i \in 0 .. Len(P) /\ f.todo = SubSeq(P, i + 1, Len(P))
  BY <1>4, <1>5 DEF Progress
<1>10. i < Len(P)
  <2>1. i = Len(P) => SubSeq(P, i + 1, Len(P)) = <<>>
    BY <1>8, SubSeqEmpty
  <2> QED BY <1>2, <1>8, <1>9, <2>1
<1>11. i + 1 \in 1 .. Len(P) /\ Len(P) \in (i + 1) .. Len(P)
  BY <1>8, <1>10
<1>12. o = P[i + 1].obj
  BY <1>2, <1>8, <1>9, <1>11, HeadTailOfSubSeq
<1>13. Has(x, o) \/ Has(y, o) \/ Has(z, o)
  <2>1. CASE i + 1 <= Len(x)
    <3>1. i + 1 \in 1 .. Len(x)
      BY <1>8, <2>1
    <3>2. P[i + 1].obj = x[i + 1]
      BY <1>6, <3>1 DEF Three
    <3> QED BY <1>12, <3>1, <3>2 DEF Has
  <2>2. CASE Len(x) < i + 1 /\ i + 1 <= Len(x) + Len(y)
    <3>1. PICK j : j = (i + 1) - Len(x)
      OBVIOUS
    <3>2. j \in 1 .. Len(y) /\ i + 1 = Len(x) + j
      BY <1>8, <2>2, <3>1
    <3>3. P[Len(x) + j].obj = y[j]
      BY <1>6, <3>2, Zenon DEF Three
    <3> QED BY <1>12, <3>2, <3>3 DEF Has
  <2>3. CASE Len(x) + Len(y) < i + 1
    <3>1. PICK j : j = (i + 1) - (Len(x) + Len(y))
      OBVIOUS
    <3>2. j \in 1 .. Len(z) /\ i + 1 = Len(x) + Len(y) + j
      BY <1>8, <1>11, <2>3, <3>1
    <3>3. P[Len(x) + Len(y) + j].obj = z[j]
      BY <1>6, <3>2, Zenon DEF Three
    <3> QED BY <1>12, <3>2, <3>3 DEF Has
  <2> QED BY <1>8, <2>1, <2>2, <2>3
<1>14. Has(Contained(n), o)
  BY <1>3, <1>5, <1>13, PartsAreContained
<1>15. PICK j \in 1 .. Len(Contained(n)) : Contained(n)[j] = o
  BY <1>14 DEF Has
<1>16. Belongs(n, MaxDepth - k)
  BY <1>1, <1>2 DEF CallInv
<1>17. NodesIn[MaxDepth - k][o] \subseteq Shown /\ (HasRoom => o \in Fitting[MaxDepth - k])
  BY <1>15, <1>16 DEF Belongs
<1>18. o \in Here
  <2>1. Head(f.todo) \in [part : 1 .. 3, obj : Here]
    BY <1>2, <1>3, HeadTailProperties DEF Frames
  <2> QED BY <1>2, <2>1
<1>19. MaxDepth - k \in 0 .. MaxDepth
  BY <1>1, BoundsAssumption
<1> QED BY <1>17, <1>18, <1>19

\* The pass begins with the file.
LEMMA WalksBottom ==
  ASSUME Stored
  PROVE  Walks(<<Bottom>>, {})
<1>1. MaxDepth - 1 \in 0 .. MaxDepth /\ 1 \in 1 .. MaxDepth
  BY BoundsAssumption
<1>2. Pass.elems \in Seq(Here) /\ <<File>> \in Seq(Here) /\ KindFits(Bottom.by, Pass)
      /\ Pass.elems = <<File>> /\ KindsOf(Pass) = {}
  BY PassFits, HereFacts DEF Stored
<1>3. Bottom.by.kind = "pass" /\ Bottom.leaf = FALSE /\ Bottom.made = NoCode
      /\ Bottom.todo = Items(1, <<File>>)
  BY DEF Bottom, Root, File, Stored
<1>4. Parts(Bottom.by, Pass) = Items(1, <<File>>)
  BY <1>2, <1>3 DEF Parts
<1>5. Progress({}, Bottom, Pass, MaxDepth - 1, 0)
  BY <1>1, <1>2, <1>3, <1>4, ProgressNone
<1>6. Belongs(Pass, MaxDepth - 1)
  <2>1. Contained(Pass) = <<File>>
    BY <1>2 DEF Contained
  <2> QED BY <2>1 DEF Belongs, Shown, HasRoom, Depth
<1>7. Bottom \in Frames
  <2>1. Items(1, <<File>>) \in Seq(Todos)
    <3>1. PICK q : q = <<File>> /\ q \in Seq(Here)
      BY <1>2
    <3>2. Items(1, q) \in Seq(Todos)
      <4>1. PICK p \in 1 .. 3 : p = 1
        OBVIOUS
      <4>2. Items(p, q) \in Seq(Todos)
        BY <3>1, ItemsFacts
      <4> QED BY <4>1, <4>2
    <3> QED BY <3>1, <3>2
  <2>2. NoCode \in [1 .. 3 -> Seq(Tokens)]
    BY EmptySeq DEF NoCode
  <2>3. Bottom = [by |-> Bottom.by, leaf |-> FALSE, todo |-> Bottom.todo, made |-> Bottom.made]
    BY DEF Bottom
  <2> QED BY <1>3, <2>1, <2>2, <2>3 DEF Frames, Todos
<1>8. PICK s : s = <<Bottom>>
  OBVIOUS
<1>9. s \in Seq(Frames) /\ Len(s) = 1 /\ s[1] = Bottom
  BY <1>7, <1>8
<1>10. CallInv(s, {}, 1)
  BY <1>5, <1>6, <1>9 DEF CallInv, Called
<1> QED BY <1>1, <1>8, <1>9, <1>10 DEF Walks, Consistent

\* An object is done.
LEMMA WalksAdvance ==
  ASSUME Stored, NEW s, NEW fs, Walks(s, fs), NEW m \in 1 .. Len(s), s[m].todo # <<>>,
         NEW c \in Seq(Tokens), Words(c) = Text[MaxDepth - m][Head(s[m].todo).obj],
         Fine(fs, MaxDepth - m, Head(s[m].todo).obj),
         NEW t, t = [SubSeq(s, 1, m) EXCEPT ![m] = Advanced(@, c)]
  PROVE  Walks(t, fs) /\ Advanced(s[m], c) \in Frames
<1>1. s \in Seq(Frames) /\ Len(s) \in 1 .. MaxDepth /\ \A k \in 1 .. Len(s) : CallInv(s, fs, k)
  BY DEF Walks
<1>2. PICK f, g, n : f = s[m] /\ g = Advanced(f, c) /\ n = Called(s, m)
  OBVIOUS
<1>3. n.elems \in Seq(Here) /\ f \in Frames
  BY <1>2, CalledFacts
<1>4. MaxDepth - m \in 0 .. MaxDepth
  BY <1>1, BoundsAssumption
<1>5. PICK i \in Nat : Progress(fs, f, n, MaxDepth - m, i)
  BY <1>1, <1>2 DEF CallInv
<1>6. g \in Frames /\ Progress(fs, g, n, MaxDepth - m, i + 1)
  BY <1>2, <1>3, <1>4, <1>5, ProgressStep
<1>7. g.by = f.by /\ g.leaf = f.leaf
  BY <1>2, <1>3 DEF Advanced, Frames
<1>8. t \in Seq(Frames) /\ Len(t) = m /\ t[m] = g /\ \A k \in 1 .. m : k # m => t[k] = s[k]
  <2>1. PICK q : q = SubSeq(s, 1, m)
    OBVIOUS
  <2>2. q \in Seq(Frames) /\ Len(q) = m /\ \A k \in 1 .. m : q[k] = s[k]
    <3>1. \A k \in 1 .. m : s[k] \in Frames
      BY <1>1, ElementOfSeq
    <3>2. 1 <= m /\ m \in Int /\ m - 1 + 1 = m
      BY <1>1
    <3>3. /\ SubSeq(s, 1, m) \in Seq(Frames) /\ Len(SubSeq(s, 1, m)) = m
          /\ \A k \in 1 .. m - 1 + 1 : SubSeq(s, 1, m)[k] = s[1 + k - 1]
      BY <3>1, <3>2, SubSeqProperties
    <3> QED BY <2>1, <3>2, <3>3
  <2>3. m \in 1 .. Len(q) /\ q[m] = f
    BY <1>1, <1>2, <2>2
  <2>4. t = [q EXCEPT ![m] = g]
    BY <1>2, <2>1, <2>3
  <2>5. /\ t \in Seq(Frames) /\ Len(t) = Len(q)
        /\ \A k \in 1 .. Len(q) : t[k] = IF k = m THEN g ELSE q[k]
    <3>1. q \in Seq(Frames) /\ m \in 1 .. Len(q) /\ g \in Frames
      BY <1>6, <2>2, <2>3
    <3>2. /\ [q EXCEPT ![m] = g] \in Seq(Frames) /\ Len([q EXCEPT ![m] = g]) = Len(q)
          /\ \A j \in 1 .. Len(q) : [q EXCEPT ![m] = g][j] = IF j = m THEN g ELSE q[j]
      <4>1. q \in [1 .. m -> Frames] /\ m \in Nat /\ DOMAIN q = 1 .. m
        BY <1>1, <2>2, LenProperties
      <4>2. PICK e : e = [q EXCEPT ![m] = g]
        OBVIOUS
      <4>3. e \in [1 .. m -> Frames] /\ DOMAIN e = 1 .. m
            /\ \A j \in 1 .. m : e[j] = IF j = m THEN g ELSE q[j]
        BY <1>6, <4>1, <4>2
      <4>4. e \in Seq(Frames)
        BY <4>1, <4>3, SeqDef
      <4>5. Len(e) = m
        BY <4>1, <4>3, <4>4, LenProperties
      <4> QED BY <2>2, <4>2, <4>3, <4>4, <4>5
    <3> QED BY <2>4, <3>2
  <2> QED BY <2>2, <2>3, <2>5
<1>9. ASSUME NEW k \in 1 .. m, k # m PROVE CallInv(t, fs, k)
  <2>1. k \in 1 .. Len(s) /\ k \in Nat \ {0} /\ t[k] = s[k] /\ (k > 1 => t[k - 1] = s[k - 1])
    BY <1>1, <1>8, <1>9
  <2>2. CallInv(s, fs, k)
    BY <1>1, <2>1
  <2>3. k \in Nat \ {0} /\ t[k] = s[k] /\ (k > 1 => t[k - 1] = s[k - 1])
    BY <2>1
  <2> QED BY <2>2, <2>3, CallStays, Zenon
<1>10. CallInv(t, fs, m)
  <2>1. CallInv(s, fs, m)
    BY <1>1
  <2>2. m > 1 => t[m - 1] = s[m - 1]
    BY <1>1, <1>8
  <2>3. Called(t, m) = n
    BY <1>1, <1>2, <2>2 DEF Called
  <2>4. Serves(fs, f, n) => Serves(fs, g, n)
    BY <1>7 DEF Serves
  <2>5. \E j \in Nat : Progress(fs, t[m], n, MaxDepth - m, j)
    <3>1. i + 1 \in Nat
      OBVIOUS
    <3> QED BY <1>6, <1>8, <3>1
  <2>6. Belongs(n, MaxDepth - m)
    BY <1>2, <2>1 DEF CallInv
  <2>7. IF m = 1 THEN t[1].by = Bottom.by ELSE t[m - 1].todo # <<>> /\ Serves(fs, t[m], n)
    <3>1. CASE m = 1
      <4>1. s[1].by = Bottom.by
        BY <2>1, <3>1 DEF CallInv
      <4> QED BY <1>2, <1>7, <1>8, <3>1, <4>1
    <3>2. CASE m # 1
      <4>1. s[m - 1].todo # <<>> /\ Serves(fs, f, n)
        BY <1>2, <2>1, <3>2 DEF CallInv
      <4>2. t[m - 1] = s[m - 1]
        BY <1>1, <2>2, <3>2
      <4> QED BY <1>8, <2>4, <3>2, <4>1, <4>2
    <3> QED BY <3>1, <3>2
  <2> QED BY <2>3, <2>5, <2>6, <2>7 DEF CallInv
<1>11. m \in 1 .. MaxDepth
  BY <1>1, BoundsAssumption
<1> QED BY <1>1, <1>2, <1>6, <1>8, <1>9, <1>10, <1>11 DEF Walks

\* A text is output as it is.
LEMMA StrObject ==
  ASSUME Stored, NEW fs, NEW o \in Here, IsStr(o), NEW d \in 0 .. MaxDepth
  PROVE  <<o.text>> \in Seq(Tokens) /\ Words(<<o.text>>) = Text[d][o] /\ Fine(fs, d, o)
<1>1. o.text \in Texts /\ o.text \in Tokens
  BY HereFacts DEF Stored, Tokens
<1>2. IsWord(o.text)
  <2>1. CASE o \in Objects
    BY <2>1, ObjectsAssumption DEF IsWord
  <2>2. CASE o \in Counts
    <3>1. PICK k \in 1 .. MaxElems : o = Str(<<"count", k>>)
      BY <2>2 DEF Counts
    <3>2. o.text = <<"count", k>>
      BY <3>1, StrFacts
    <3> QED BY <3>2 DEF IsWord
  <2>3. CASE o \in {Node("__doc", Written), File}
    BY <2>3, NodeFacts DEF File
  <2> QED BY <2>1, <2>2, <2>3 DEF Here
<1>3. Words(<<o.text>>) = <<o.text>>
  BY <1>2, WordsOne
<1>4. Text[d][o] = <<o.text>>
  BY TextLoop DEF TextIs, Stored
<1>5. NodesIn[d][o] = {}
  BY NodesLoop DEF NodesIs, Stored
<1>6. o \in Fitting[d]
  BY FittingLoop DEF FittingIs, Stored
<1> QED BY <1>1, <1>3, <1>4, <1>5, <1>6 DEF Fine

\* The nodes in what a node contains are nodes in it.
LEMMA NodesInside ==
  ASSUME Stored, NEW n \in Here, ~IsStr(n), NEW d \in 1 .. MaxDepth
  PROVE  /\ NodesIn[d][n] = {n} \cup UNION {NodesIn[d - 1][Contained(n)[j]] : j \in 1 .. Len(Contained(n))}
         /\ n \in Fitting[d] <=> \A j \in 1 .. Len(Contained(n)) : Contained(n)[j] \in Fitting[d - 1]
         /\ Text[d][n] = Joined(Text[d - 1], Contained(n))
<1>1. d \in 0 .. MaxDepth /\ d # 0 /\ d > 0
  BY BoundsAssumption
<1>2. DOMAIN Contained(n) = 1 .. Len(Contained(n))
  BY ContainedTyped, LenProperties DEF Stored
<1>3. NodesIn[d][n] = {n} \cup UNION {NodesIn[d - 1][Contained(n)[j]] : j \in DOMAIN Contained(n)}
  BY <1>1, NodesLoop DEF NodesIs, Stored
<1>4. n \in Fitting[d] <=> \A j \in DOMAIN Contained(n) : Contained(n)[j] \in Fitting[d - 1]
  BY <1>1, FittingLoop DEF FittingIs, Stored
<1>5. Text[d][n] = Joined(Text[d - 1], Contained(n))
  BY <1>1, TextLoop DEF TextIs, Stored
<1> QED BY <1>2, <1>3, <1>4, <1>5

\* The outputter of a node is called.
LEMMA WalksCall ==
  ASSUME Stored, NEW s, NEW fs, Walks(s, fs), NEW m, m = Len(s), m < MaxDepth, s[m].todo # <<>>,
         NEW n, n = Head(s[m].todo).obj, ~IsStr(n), NEW by, Offered(n.tag) = {by},
         Consistent(fs \cup Binds(by.kind)), by.kind = "htmlTitle" => HasMain
  PROVE  Walks(Append(s, Frame(by, n)), fs \cup Binds(by.kind))
<1>1. s \in Seq(Frames) /\ m \in 1 .. MaxDepth /\ (\A k \in 1 .. m : CallInv(s, fs, k)) /\ fs \subseteq Needed
  BY DEF Walks
<1>2. m \in 1 .. Len(s) /\ m \in Nat /\ m + 1 \in 1 .. MaxDepth /\ MaxDepth - m \in 1 .. MaxDepth
      /\ (MaxDepth - m) - 1 = MaxDepth - (m + 1) /\ MaxDepth - (m + 1) \in 0 .. MaxDepth
  BY <1>1, BoundsAssumption
<1>3. n \in Here /\ NodesIn[MaxDepth - m][n] \subseteq Shown /\ (HasRoom => n \in Fitting[MaxDepth - m])
  BY <1>2, NextObject
<1>4. n.elems \in Seq(Here)
  BY <1>3, HereFacts DEF Stored
<1>5. by \in Outputters
  BY RetrievedFits
<1>6. PICK f : f = Frame(by, n)
  OBVIOUS
<1>7. f.by = by /\ f.leaf = (n.elems = <<>>) /\ f.todo = Parts(by, n) /\ f.made = NoCode
  BY <1>6 DEF Frame
<1>8. f \in Frames
  <2>1. PICK x, y, z : x = PartOf(by, n, 1) /\ y = PartOf(by, n, 2) /\ z = PartOf(by, n, 3)
    OBVIOUS
  <2>2. Three(Parts(by, n), x, y, z)
    BY <1>4, <2>1, PartsFacts DEF Stored
  <2>3. Parts(by, n) \in Seq([part : 1 .. 3, obj : Here])
    BY <2>2 DEF Three, Todos
  <2>4. NoCode \in [1 .. 3 -> Seq(Tokens)]
    BY EmptySeq DEF NoCode
  <2> QED BY <1>5, <1>6, <2>3, <2>4 DEF Frame, Frames
<1>9. PICK gs : gs = fs \cup Binds(by.kind) /\ fs \subseteq gs
  OBVIOUS
<1>10. Progress(gs, f, n, MaxDepth - (m + 1), 0)
  BY <1>2, <1>4, <1>7, ProgressNone
<1>11. n \in Shown
  BY <1>2, <1>3, NodesInside
<1>12. Belongs(n, MaxDepth - (m + 1))
  <2>1. \A j \in 1 .. Len(Contained(n)) :
          NodesIn[MaxDepth - (m + 1)][Contained(n)[j]] \subseteq NodesIn[MaxDepth - m][n]
    BY <1>2, <1>3, NodesInside
  <2>2. HasRoom => \A j \in 1 .. Len(Contained(n)) : Contained(n)[j] \in Fitting[MaxDepth - (m + 1)]
    BY <1>2, <1>3, NodesInside
  <2> QED BY <1>3, <2>1, <2>2 DEF Belongs
<1>13. gs \subseteq Needed
  BY <1>1, <1>9, <1>11 DEF Needed
<1>14. PICK t : t = Append(s, f)
  OBVIOUS
<1>15. t \in Seq(Frames) /\ Len(t) = m + 1 /\ t[m + 1] = f /\ \A k \in 1 .. m : t[k] = s[k]
  BY <1>1, <1>8, <1>14, AppendProperties
<1>16. ASSUME NEW k \in 1 .. m PROVE CallInv(t, gs, k)
  <2>1. CallInv(s, gs, k)
    <3>1. CallInv(s, fs, k)
      BY <1>1
    <3> QED BY <1>9, <3>1, CallGrows
  <2>2. k \in Nat \ {0} /\ t[k] = s[k] /\ (k > 1 => t[k - 1] = s[k - 1])
    BY <1>2, <1>15
  <2> QED BY <2>1, <2>2, CallStays
<1>17. CallInv(t, gs, m + 1)
  <2>1. t[m] = s[m] /\ m + 1 # 1 /\ (m + 1) - 1 = m
    BY <1>2, <1>15
  <2>2. Called(t, m + 1) = n
    BY <2>1 DEF Called
  <2>3. Serves(gs, f, n)
    BY <1>7, <1>9 DEF Serves
  <2>4. \E j \in Nat : Progress(gs, t[m + 1], n, MaxDepth - (m + 1), j)
    <3>1. 0 \in Nat
      OBVIOUS
    <3> QED BY <1>10, <1>15, <3>1
  <2>5. t[(m + 1) - 1].todo # <<>> /\ Serves(gs, t[m + 1], n)
    BY <1>15, <2>1, <2>3
  <2> QED BY <1>12, <2>1, <2>2, <2>4, <2>5 DEF CallInv
<1>18. \A k \in 1 .. Len(t) : CallInv(t, gs, k)
  <2>1. \A k \in 1 .. m + 1 : k \in 1 .. m \/ k = m + 1
    BY <1>2
  <2> QED BY <1>15, <1>16, <1>17, <2>1
<1>19. Walks(t, gs)
  BY <1>2, <1>9, <1>13, <1>15, <1>18 DEF Walks
<1> QED BY <1>6, <1>9, <1>14, <1>19

\* All that a call is for has been output.
LEMMA CallDone ==
  ASSUME Stored, NEW s, NEW fs, Walks(s, fs), NEW k \in 1 .. Len(s), s[k].todo = <<>>,
         NEW n, n = Called(s, k)
  PROVE  /\ \A p \in 1 .. 3 : Words(s[k].made[p]) = Joined(Text[MaxDepth - k], PartOf(s[k].by, n, p))
         /\ \A j \in 1 .. Len(Contained(n)) : Fine(fs, MaxDepth - k, Contained(n)[j])
<1>1. s \in Seq(Frames) /\ Len(s) \in 1 .. MaxDepth /\ CallInv(s, fs, k)
  BY DEF Walks
<1>2. PICK f : f = s[k]
  OBVIOUS
<1>3. n.elems \in Seq(Here) /\ KindFits(f.by, n)
  BY <1>2, CalledFacts
<1>4. PICK d : d = MaxDepth - k /\ d \in 0 .. MaxDepth
  BY <1>1, BoundsAssumption
<1>5. PICK i \in Nat : Progress(fs, f, n, d, i)
  BY <1>1, <1>2, <1>4 DEF CallInv
<1>6. PICK x, y, z : x = PartOf(f.by, n, 1) /\ y = PartOf(f.by, n, 2) /\ z = PartOf(f.by, n, 3)
  OBVIOUS
<1>7. /\ Words(f.made[1]) = Joined(Text[d], x) /\ Words(f.made[2]) = Joined(Text[d], y)
      /\ Words(f.made[3]) = Joined(Text[d], z)
      /\ \A j \in 1 .. Len(x) : Fine(fs, d, x[j])
      /\ \A j \in 1 .. Len(y) : Fine(fs, d, y[j])
      /\ \A j \in 1 .. Len(z) : Fine(fs, d, z[j])
  <2>1. f.todo = <<>>
    BY <1>2
  <2> QED BY <1>3, <1>4, <1>5, <1>6, <2>1, ProgressDone
<1>8. ASSUME NEW j \in 1 .. Len(Contained(n)) PROVE Fine(fs, d, Contained(n)[j])
  <2>1. PICK o : o = Contained(n)[j] /\ Has(Contained(n), o)
    BY <1>8 DEF Has
  <2>2. Has(x, o) \/ Has(y, o) \/ Has(z, o)
    BY <1>3, <1>6, <2>1, PartsAreContained
  <2>3. Fine(fs, d, o)
    BY <1>7, <2>2 DEF Has
  <2> QED BY <2>1, <2>3
<1> QED BY <1>2, <1>4, <1>6, <1>7, <1>8

\* A node whose call returns has been output.
LEMMA CallReturns ==
  ASSUME Stored, NEW s, NEW fs, Walks(s, fs), NEW k \in 1 .. Len(s), k > 1, s[k].todo = <<>>,
         Returns(s[k]), NEW n, n = Called(s, k)
  PROVE  /\ Assembled(s[k]) \in Seq(Tokens) /\ Words(Assembled(s[k])) = Text[MaxDepth - (k - 1)][n]
         /\ Fine(fs, MaxDepth - (k - 1), n)
<1>1. s \in Seq(Frames) /\ Len(s) \in 1 .. MaxDepth /\ CallInv(s, fs, k)
  BY DEF Walks
<1>2. PICK f, d : f = s[k] /\ d = MaxDepth - k
  OBVIOUS
<1>3. d \in 0 .. MaxDepth /\ MaxDepth - (k - 1) = d + 1 /\ d + 1 \in 1 .. MaxDepth /\ (d + 1) - 1 = d
  BY <1>1, <1>2, BoundsAssumption
<1>4. n.elems \in Seq(Here) /\ KindFits(f.by, n) /\ f \in Frames /\ n \in Here /\ ~IsStr(n)
      /\ f.by \in Outputters
  BY <1>2, CalledFacts
<1>5. Serves(fs, f, n)
  BY <1>1, <1>2 DEF CallInv
<1>6. /\ Words(f.made[1]) = Joined(Text[d], PartOf(f.by, n, 1))
      /\ Words(f.made[2]) = Joined(Text[d], PartOf(f.by, n, 2))
      /\ Words(f.made[3]) = Joined(Text[d], PartOf(f.by, n, 3))
      /\ \A j \in 1 .. Len(Contained(n)) : Fine(fs, d, Contained(n)[j])
  BY <1>2, CallDone
<1>7. Assembled(f) \in Seq(Tokens) /\ Words(Assembled(f)) = Joined(Text[d], Contained(n))
  BY <1>3, <1>4, <1>5, <1>6, AssembledFacts DEF Serves
<1>8. Text[d + 1][n] = Joined(Text[d], Contained(n))
      /\ NodesIn[d + 1][n] = {n} \cup UNION {NodesIn[d][Contained(n)[j]] : j \in 1 .. Len(Contained(n))}
      /\ (n \in Fitting[d + 1] <=> \A j \in 1 .. Len(Contained(n)) : Contained(n)[j] \in Fitting[d])
  <2>1. PICK e \in 1 .. MaxDepth : e = d + 1 /\ e - 1 = d
    BY <1>3
  <2>2. n \in Here /\ ~IsStr(n)
    BY <1>4
  <2>3. NodesIn[e][n] = {n} \cup UNION {NodesIn[e - 1][Contained(n)[j]] : j \in 1 .. Len(Contained(n))}
    BY <2>1, <2>2, NodesInside
  <2>4. n \in Fitting[e] <=> \A j \in 1 .. Len(Contained(n)) : Contained(n)[j] \in Fitting[e - 1]
    BY <2>1, <2>2, NodesInside
  <2>5. Text[e][n] = Joined(Text[e - 1], Contained(n))
    BY <2>1, <2>2, NodesInside
  <2> QED BY <2>1, <2>3, <2>4, <2>5
<1>9. Served(fs, n)
  BY <1>2, <1>4, <1>5 DEF Serves, Served, Returns
<1>10. Fine(fs, d + 1, n)
  BY <1>6, <1>8, <1>9 DEF Fine
<1> QED BY <1>2, <1>3, <1>7, <1>8, <1>10

\* The pass ends: the file could be output, and its code and files are as they should be.
LEMMA WalkEnds ==
  ASSUME Stored, NEW s, Walks(s, files), Len(s) = 1, s[1].todo = <<>>, Cardinality(OfferedProviders) = 1
  PROVE  Words(s[1].made[1]) = Meaning /\ CanBeOutput /\ files = Needed
<1>1. 1 \in 1 .. Len(s) /\ MaxDepth - 1 = Depth /\ Depth \in 0 .. MaxDepth
  BY BoundsAssumption DEF Depth
<1>2. CallInv(s, files, 1) /\ Called(s, 1) = Pass
  BY <1>1 DEF Walks, Called
<1>3. s[1].by = Bottom.by
  BY <1>2 DEF CallInv
<1>4. Contained(Pass) = <<File>> /\ PartOf(Bottom.by, Pass, 1) = <<File>>
  <2>1. KindsOf(Pass) = {} /\ Pass.elems = <<File>> /\ Bottom.by.kind = "pass"
    BY PassFits DEF Bottom
  <2> QED BY <2>1 DEF Contained, PartOf
<1>5. Words(s[1].made[1]) = Joined(Text[Depth], <<File>>)
  <2>1. Words(s[1].made[1]) = Joined(Text[MaxDepth - 1], PartOf(s[1].by, Called(s, 1), 1))
    BY <1>1, CallDone
  <2> QED BY <1>1, <1>2, <1>3, <1>4, <2>1
<1>6. Fine(files, Depth, File)
  <2>1. \A j \in 1 .. Len(Contained(Pass)) : Fine(files, MaxDepth - 1, Contained(Pass)[j])
    BY <1>1, <1>2, CallDone
  <2>2. Len(<<File>>) = 1 /\ <<File>>[1] = File
    OBVIOUS
  <2> QED BY <1>1, <1>4, <2>1, <2>2
<1>7. Joined(Text[Depth], <<File>>) = Text[Depth][File]
  <2>1. Gives(Text[Depth], Here, Texts)
    BY <1>1, TextLoop DEF TextIs, Gives, Stored
  <2>2. File \in Here
    BY HereFacts DEF Stored
  <2> QED BY <2>1, <2>2, JoinedOne DEF Gives
<1>8. File \in Fitting[Depth] /\ \A n \in Shown : Served(files, n)
  BY <1>6 DEF Fine, Shown
<1>9. ASSUME NEW n \in Shown PROVE Cardinality(Offered(n.tag)) = 1
  <2>1. PICK by : Offered(n.tag) = {by}
    BY <1>8 DEF Served
  <2> QED BY <2>1, FS_Singleton
<1>10. Needed \subseteq files
  <2> SUFFICES ASSUME NEW n \in Shown, NEW o \in Offered(n.tag) PROVE Binds(o.kind) \subseteq files
    BY DEF Needed
  <2>1. PICK by : Offered(n.tag) = {by} /\ Binds(by.kind) \subseteq files
    BY <1>8 DEF Served
  <2> QED BY <2>1
<1>11. files = Needed /\ Consistent(files)
  BY <1>10 DEF Walks
<1>12. FilesAgree
  <2>1. ASSUME NEW f \in Needed, NEW g \in Needed, f.path = g.path PROVE f = g
    <3>1. f.src = g.src
      BY <1>11, <2>1 DEF Consistent
    <3>2. f = [path |-> f.path, src |-> f.src] /\ g = [path |-> g.path, src |-> g.src]
      BY DEF Needed, Binds
    <3> QED BY <2>1, <3>1, <3>2
  <2> QED BY <2>1 DEF FilesAgree
<1>13. NeedsMain => HasMain
  <2> SUFFICES ASSUME NEW n \in Shown, NEW o \in Offered(n.tag), ReadsMain(o) PROVE HasMain
    BY DEF NeedsMain
  <2>1. PICK by : Offered(n.tag) = {by} /\ (ReadsMain(by) => HasMain)
    BY <1>8 DEF Served
  <2> QED BY <2>1
<1>14. CanBeOutput
  BY <1>8, <1>9, <1>12, <1>13 DEF CanBeOutput, EveryTagHasOneOutputter, HasRoom
<1> QED BY <1>5, <1>7, <1>11, <1>14 DEF Meaning

\* While a file is compiled, the registry offers what it offered when that began.
LEMMA RegistryStands ==
  modules = storages =>
    OfferedProviders = ProvidersFor /\ \A tag : Offered(tag) = Retrieved(tag)
BY DEF OfferedProviders, ProvidersFor, Offered, Retrieved

\* A file whose pass throws could not be output.
LEMMA WalkFails ==
  ASSUME TypeOK, CacheFresh, Stored, modules = storages, stage = "walking", Walks(stack, files),
         stack # <<>>,
         \/ AtObject(FALSE) /\ ~CanCall(Head(Top.todo).obj)
         \/ Top.todo = <<>> /\ ~Returns(Top)
  PROVE  ~CanBeOutput
<1> SUFFICES ASSUME CanBeOutput PROVE FALSE
  OBVIOUS
<1>1. stack \in Seq(Frames) /\ Len(stack) \in 1 .. MaxDepth /\ files \subseteq Needed
  BY DEF Walks
<1>2. PICK k : k = Len(stack) /\ k \in 1 .. Len(stack) /\ MaxDepth - k \in 0 .. MaxDepth
  BY <1>1, BoundsAssumption
<1>3. Top = stack[k]
  BY <1>2 DEF Top
<1>4. HasRoom /\ FilesAgree /\ (NeedsMain => HasMain) /\ \A n \in Shown : Cardinality(Offered(n.tag)) = 1
  BY DEF CanBeOutput, EveryTagHasOneOutputter
<1>5. CASE AtObject(FALSE) /\ ~CanCall(Head(Top.todo).obj)
  <2>1. PICK n : n = Head(stack[k].todo).obj
    OBVIOUS
  <2>2. stack[k].todo # <<>> /\ ~IsStr(n) /\ ~CanCall(n)
    BY <1>3, <1>5, <2>1 DEF AtObject
  <2>3. n \in Here /\ NodesIn[MaxDepth - k][n] \subseteq Shown /\ (HasRoom => n \in Fitting[MaxDepth - k])
    BY <1>2, <2>1, <2>2, NextObject
  <2>4. MaxDepth - k \in 1 .. MaxDepth
    <3>1. MaxDepth - k # 0
      BY <1>2, <1>4, <2>2, <2>3, FittingLoop DEF FittingIs, Stored
    <3> QED BY <1>2, <3>1, BoundsAssumption
  <2>5. n \in Shown
    BY <2>2, <2>3, <2>4, NodesInside
  <2>6. PICK by : Offered(n.tag) = {by}
    <3>1. Offered(n.tag) \subseteq Outputters
      BY DEF Offered
    <3>2. IsFiniteSet(Offered(n.tag)) /\ Cardinality(Offered(n.tag)) = 1
      BY <1>4, <2>5, <3>1, FiniteAssumption, FS_Subset
    <3> QED BY <3>2, FS_Singleton
  <2>7. Found(n.tag) = {by}
    <3>1. CASE Cached(n.tag) # {}
      <4>1. Cached(n.tag) \subseteq {by}
        <5> SUFFICES ASSUME NEW o \in Cached(n.tag) PROVE o = by
          OBVIOUS
        <5>1. o \in cache /\ o.tag = n.tag
          BY DEF Cached
        <5>2. Retrieved(n.tag) = {o}
          BY <5>1 DEF CacheFresh
        <5> QED BY <2>6, <5>2, RegistryStands
      <4> QED BY <3>1, <4>1 DEF Found
    <3>2. CASE Cached(n.tag) = {}
      BY <2>6, <3>2, RegistryStands DEF Found
    <3> QED BY <3>1, <3>2
  <2>8. Cardinality(Found(n.tag)) = 1
    BY <2>7, FS_Singleton
  <2>9. Len(stack) < MaxDepth
    BY <1>2, <2>4, BoundsAssumption
  <2>10. Binds(by.kind) \subseteq Needed
    BY <2>5, <2>6 DEF Needed
  <2>11. Consistent(files \cup Binds(by.kind))
    BY <1>1, <1>4, <2>10 DEF FilesAgree, Consistent
  <2>12. by.kind = "htmlTitle" => HasMain
    BY <1>4, <2>5, <2>6 DEF NeedsMain, ReadsMain
  <2> QED BY <2>2, <2>7, <2>8, <2>9, <2>11, <2>12 DEF CanCall
<1>6. CASE Top.todo = <<>> /\ ~Returns(Top)
  <2>1. ReadsMain(stack[k].by) /\ ~HasMain
    BY <1>3, <1>6 DEF Returns
  <2>2. CallInv(stack, files, k)
    BY <1>2 DEF Walks
  <2>3. k # 1
    <3> SUFFICES ASSUME k = 1 PROVE FALSE
      OBVIOUS
    <3>1. stack[k].by = Bottom.by
      BY <2>2 DEF CallInv
    <3>2. Bottom.by.kind = "pass"
      BY DEF Bottom
    <3> QED BY <2>1, <3>1, <3>2 DEF ReadsMain
  <2>4. PICK n, j : n = Called(stack, k) /\ j = k - 1
    OBVIOUS
  <2>5. stack[j].todo # <<>> /\ Serves(files, stack[k], n) /\ n = Head(stack[j].todo).obj
    BY <2>2, <2>3, <2>4 DEF CallInv, Called
  <2>6. j \in 1 .. Len(stack) /\ MaxDepth - j \in 1 .. MaxDepth
    BY <1>1, <1>2, <2>3, <2>4, BoundsAssumption
  <2>7. n \in Here /\ NodesIn[MaxDepth - j][n] \subseteq Shown
    BY <2>5, <2>6, NextObject
  <2>8. ~IsStr(n) /\ Offered(n.tag) = {stack[k].by}
    BY <2>5 DEF Serves
  <2>9. n \in Shown
    BY <2>6, <2>7, <2>8, NodesInside
  <2> QED BY <1>4, <2>1, <2>8, <2>9 DEF NeedsMain
<1> QED BY <1>5, <1>6

-----------------------------------------------------------------------------
(* The steps *)

\* What the properties say of a file does not change while it is walked over.
LEMMA SameMeaning ==
  ASSUME UNCHANGED <<target, source, storages>>
  PROVE  /\ Title' = Title /\ Author' = Author /\ Written' = Written
         /\ CountsUpTo(Len(source))' = CountsUpTo(Len(source)) /\ Meaning' = Meaning
         /\ Shown' = Shown /\ HasRoom' = HasRoom
<1>1. Title' = Title /\ Author' = Author /\ Written' = Written
      /\ CountsUpTo(Len(source))' = CountsUpTo(Len(source))
  BY DEF Title, Author, Written, LastArg, LastUse, Uses, Puts, CountsUpTo
<1>2. File' = File /\ Here' = Here
  BY <1>1 DEF File, Here
<1>3. Text' = Text
  BY <1>1, <1>2 DEF Text, Contained, KindsOf, Offered
<1>4. NodesIn' = NodesIn
  BY <1>1, <1>2 DEF NodesIn, Contained, KindsOf, Offered
<1>5. Fitting' = Fitting
  BY <1>1, <1>2 DEF Fitting, Contained, KindsOf, Offered
<1> QED BY <1>1, <1>2, <1>3, <1>4, <1>5 DEF Meaning, Shown, HasRoom

\* Nor does what it needs.
LEMMA SameNeeds ==
  ASSUME UNCHANGED <<target, source, storages>>
  PROVE  Needed' = Needed /\ CanBeOutput' = CanBeOutput
<1>1. \A tag : Offered(tag)' = Offered(tag)
  BY DEF Offered
<1>2. Shown' = Shown /\ HasRoom' = HasRoom
  BY SameMeaning
<1>3. Needed' = Needed
  BY <1>1, <1>2 DEF Needed
<1>4. EveryTagHasOneOutputter' = EveryTagHasOneOutputter /\ NeedsMain' = NeedsMain
  BY <1>1, <1>2 DEF EveryTagHasOneOutputter, NeedsMain
<1>5. FilesAgree' = FilesAgree
  BY <1>3 DEF FilesAgree
<1>6. HasMain' = HasMain /\ OfferedProviders' = OfferedProviders
  BY DEF HasMain, OfferedProviders
<1> QED BY <1>2, <1>3, <1>4, <1>5, <1>6 DEF CanBeOutput

\* The invariant of the storage, as the walk uses it.
LEMMA StoreHolds == TypeOK /\ StoreInv => Stored
<1> SUFFICES ASSUME TypeOK, StoreInv PROVE Stored
  OBVIOUS
<1>1. main.title \in Arguments /\ main.author \in Arguments /\ body \in Seq(Elements \cup Counts)
  BY DEF TypeOK
<1>2. Arguments \subseteq Seq(Objects)
  BY ObjectsAssumption, EmptySeq DEF Arguments
<1>3. body \in Seq(Objects \cup Counts)
  <2>1. Elements \cup Counts \subseteq Objects \cup Counts
    BY ObjectsAssumption
  <2> QED BY <1>1, <2>1, SeqMonotonic
<1> QED BY <1>1, <1>2, <1>3 DEF Stored, FileTyped, StoreInv

\* A file without commands.
LEMMA NoCommands ==
  source = <<>> => Title = <<>> /\ Author = <<>> /\ Written = <<>> /\ CountsUpTo(Len(source)) = 0
<1> SUFFICES ASSUME source = <<>>
             PROVE  Title = <<>> /\ Author = <<>> /\ Written = <<>> /\ CountsUpTo(Len(source)) = 0
  OBVIOUS
<1>1. Len(source) = 0 /\ source \in Seq(Commands) /\ DOMAIN source = {} /\ SourceTyped
  <2>1. source \in Seq(Commands) /\ Len(source) = 0
    BY EmptySeq
  <2>2. DOMAIN source = 1 .. 0
    BY <2>1, LenProperties
  <2> QED BY <2>1, <2>2, BoundsAssumption DEF SourceTyped
<1>2. Title = <<>> /\ Author = <<>>
  BY <1>1 DEF Title, Author, LastArg, Uses
<1>3. PICK h : WrittenIs(h)
  BY <1>1, WrittenLoop
<1>4. Written = <<>>
  BY <1>1, <1>3 DEF WrittenIs
<1>5. CountsUpTo(Len(source)) = 0
  <2>1. CountsUpTo(Len(source)) \in 0 .. 0
    <3>1. 0 \in 0 .. Len(source)
      BY <1>1
    <3> QED BY <1>1, <3>1, CountsBounded
  <2> QED BY <2>1
<1> QED BY <1>2, <1>4, <1>5

\* And after a step.
LEMMA NoCommandsNext ==
  (source = <<>> => Title = <<>> /\ Author = <<>> /\ Written = <<>> /\ CountsUpTo(Len(source)) = 0)'
BY NoCommands, PTL

\* A command says of the file what it leaves in the storage and in the document.
LEMMA StoreStep ==
  ASSUME TypeOK, TypeOK', StoreInv, NEW c \in Commands, NEW m, NEW elems, Evaluated(c, m, elems),
         m.title = IF c.op = "title" THEN c.arg ELSE main.title,
         m.author = IF c.op = "author" THEN c.arg ELSE main.author,
         m.count = main.count + (IF c.op = "count" THEN 1 ELSE 0),
         elems = CASE c.op = "put" -> c.arg
                   [] c.op = "count" -> <<Str(<<"count", m.count>>)>>
                   [] OTHER -> <<>>
  PROVE  StoreInv'
<1>1. SourceTyped /\ SourceTyped'
  BY DEF TypeOK, SourceTyped
<1>2. source' = Append(source, c) /\ main' = m /\ body' = body \o elems
  BY DEF Evaluated
<1>3. /\ Title' = IF c.op = "title" THEN c.arg ELSE Title
      /\ Author' = IF c.op = "author" THEN c.arg ELSE Author
      /\ CountsUpTo(Len(source))' = CountsUpTo(Len(source)) + (IF c.op = "count" THEN 1 ELSE 0)
      /\ Written' = Written \o (CASE c.op = "put" -> c.arg
                                  [] c.op = "count" -> <<Str(<<"count", CountsUpTo(Len(source))'>>)>>
                                  [] OTHER -> <<>>)
  BY <1>1, <1>2, OneMore
<1>4. main.title = Title /\ main.author = Author /\ body = Written
      /\ main.count = CountsUpTo(Len(source))
  BY DEF StoreInv
<1>5. main'.title = Title' /\ main'.author = Author' /\ main'.count = CountsUpTo(Len(source))'
  BY <1>2, <1>3, <1>4
<1>6. m.count = CountsUpTo(Len(source))'
  BY <1>2, <1>5
<1>7. body' = Written'
  BY <1>2, <1>3, <1>4, <1>6
<1> QED BY <1>5, <1>7 DEF StoreInv

\* A command leaves in the storage and in the document what it says.
LEMMA EvaluateKeeps == TypeOK /\ TypeOK' /\ StoreInv /\ Evaluate => StoreInv'
<1> SUFFICES ASSUME TypeOK, TypeOK', StoreInv, Evaluate PROVE StoreInv'
  OBVIOUS
<1>0. main = [count |-> main.count, title |-> main.title, author |-> main.author] /\ main.count \in Nat
  BY DEF TypeOK
<1>1. ASSUME NEW o \in Elements, Put(o) PROVE StoreInv'
  <2>0. [op |-> "put", arg |-> <<o>>] \in Commands
    BY DEF Commands
  <2>1. PICK c : c = [op |-> "put", arg |-> <<o>>] /\ c \in Commands
    BY <2>0
  <2>2. Evaluated(c, main, <<o>>) /\ c.op = "put" /\ c.arg = <<o>>
    BY <1>1, <2>1 DEF Put
  <2>6. /\ main.title = IF c.op = "title" THEN c.arg ELSE main.title
        /\ main.author = IF c.op = "author" THEN c.arg ELSE main.author
        /\ main.count = main.count + (IF c.op = "count" THEN 1 ELSE 0)
    BY <1>0, <2>2
  <2>7. <<o>> = CASE c.op = "put" -> c.arg
               [] c.op = "count" -> <<Str(<<"count", main.count>>)>>
               [] OTHER -> <<>>
    BY <2>2
  <2> QED BY <2>1, <2>2, <2>6, <2>7, StoreStep
<1>2. CASE Count
  <2>0. [op |-> "count", arg |-> <<>>] \in Commands
    BY DEF Commands, Arguments
  <2>1. PICK c : c = [op |-> "count", arg |-> <<>>] /\ c \in Commands
    BY <2>0
  <2>2. PICK m, e : m = [main EXCEPT !.count = @ + 1] /\ e = <<Str(<<"count", Counted>>)>>
    OBVIOUS
  <2>3. m.count = main.count + 1 /\ m.title = main.title /\ m.author = main.author /\ m.count = Counted
    BY <1>0, <2>2 DEF Counted
  <2>4. Evaluated(c, m, e) /\ c.op = "count"
    BY <1>2, <2>1, <2>2 DEF Count
  <2>5. e = <<Str(<<"count", m.count>>)>>
    BY <2>2, <2>3
  <2> QED BY <2>1, <2>3, <2>4, <2>5, StoreStep
<1>3. ASSUME NEW a \in Contents, SetTitle(a) PROVE StoreInv'
  <2>0. [op |-> "title", arg |-> a] \in Commands
    BY DEF Commands, Arguments
  <2>1. PICK c : c = [op |-> "title", arg |-> a] /\ c \in Commands
    BY <2>0
  <2>2. PICK m : m = [main EXCEPT !.title = a]
    OBVIOUS
  <2>3. m.count = main.count /\ m.title = a /\ m.author = main.author
    BY <1>0, <2>2
  <2>4. Evaluated(c, m, <<>>) /\ c.op = "title" /\ c.arg = a
    BY <1>3, <2>1, <2>2 DEF SetTitle
  <2>6. /\ m.title = IF c.op = "title" THEN c.arg ELSE main.title
        /\ m.author = IF c.op = "author" THEN c.arg ELSE main.author
        /\ m.count = main.count + (IF c.op = "count" THEN 1 ELSE 0)
    BY <1>0, <2>3, <2>4
  <2>7. <<>> = CASE c.op = "put" -> c.arg
               [] c.op = "count" -> <<Str(<<"count", m.count>>)>>
               [] OTHER -> <<>>
    BY <2>3, <2>4
  <2> QED BY <2>1, <2>4, <2>6, <2>7, StoreStep
<1>4. ASSUME NEW a \in Contents, SetAuthor(a) PROVE StoreInv'
  <2>0. [op |-> "author", arg |-> a] \in Commands
    BY DEF Commands, Arguments
  <2>1. PICK c : c = [op |-> "author", arg |-> a] /\ c \in Commands
    BY <2>0
  <2>2. PICK m : m = [main EXCEPT !.author = a]
    OBVIOUS
  <2>3. m.count = main.count /\ m.title = main.title /\ m.author = a
    BY <1>0, <2>2
  <2>4. Evaluated(c, m, <<>>) /\ c.op = "author" /\ c.arg = a
    BY <1>4, <2>1, <2>2 DEF SetAuthor
  <2>6. /\ m.title = IF c.op = "title" THEN c.arg ELSE main.title
        /\ m.author = IF c.op = "author" THEN c.arg ELSE main.author
        /\ m.count = main.count + (IF c.op = "count" THEN 1 ELSE 0)
    BY <1>0, <2>3, <2>4
  <2>7. <<>> = CASE c.op = "put" -> c.arg
               [] c.op = "count" -> <<Str(<<"count", m.count>>)>>
               [] OTHER -> <<>>
    BY <2>3, <2>4
  <2> QED BY <2>1, <2>4, <2>6, <2>7, StoreStep
<1>5. CASE Abort
  <2>1. UNCHANGED <<target, source, storages, main, body>>
    BY <1>5 DEF Abort, evalVars
  <2> QED BY <2>1, SameMeaning DEF StoreInv
<1> QED BY <1>1, <1>2, <1>3, <1>4, <1>5 DEF Evaluate

\* A frame in the place of the last one.
LEMMA LastReplaced ==
  ASSUME NEW s, s \in Seq(Frames), NEW c \in Seq(Tokens), NEW m \in 1 .. Len(s),
         Advanced(s[m], c) \in Frames
  PROVE  Append(SubSeq(s, 1, m - 1), Advanced(s[m], c)) = [SubSeq(s, 1, m) EXCEPT ![m] = Advanced(@, c)]
<1>1. Len(s) \in Nat /\ m \in Nat /\ m >= 1 /\ \A i \in 1 .. Len(s) : s[i] \in Frames
  BY LenProperties, ElementOfSeq
<1>2. PICK p, q, f, g : p = SubSeq(s, 1, m - 1) /\ q = SubSeq(s, 1, m) /\ f = s[m] /\ g = Advanced(f, c)
  OBVIOUS
<1>3. p \in Seq(Frames) /\ Len(p) = m - 1 /\ \A i \in 1 .. m - 1 : p[i] = s[i]
  <2>1. \A i \in 1 .. m - 1 : s[i] \in Frames
    BY <1>1
  <2>2. /\ SubSeq(s, 1, m - 1) \in Seq(Frames)
        /\ Len(SubSeq(s, 1, m - 1)) = IF 1 <= m - 1 THEN (m - 1) - 1 + 1 ELSE 0
        /\ \A i \in 1 .. (m - 1) - 1 + 1 : SubSeq(s, 1, m - 1)[i] = s[1 + i - 1]
    BY <1>1, <2>1, SubSeqProperties
  <2> QED BY <1>1, <1>2, <2>2
<1>4. q \in Seq(Frames) /\ Len(q) = m /\ \A i \in 1 .. m : q[i] = s[i]
  <2>1. \A i \in 1 .. m : s[i] \in Frames
    BY <1>1
  <2>2. /\ SubSeq(s, 1, m) \in Seq(Frames)
        /\ Len(SubSeq(s, 1, m)) = IF 1 <= m THEN m - 1 + 1 ELSE 0
        /\ \A i \in 1 .. m - 1 + 1 : SubSeq(s, 1, m)[i] = s[1 + i - 1]
    BY <1>1, <2>1, SubSeqProperties
  <2> QED BY <1>1, <1>2, <2>2
<1>5. g \in Frames
  BY <1>2
<1>6. PICK a, e : a = Append(p, g) /\ e = [q EXCEPT ![m] = g]
  OBVIOUS
<1>7. a \in Seq(Frames) /\ Len(a) = m /\ a[m] = g /\ \A i \in 1 .. m - 1 : a[i] = s[i]
  <2>1. /\ Append(p, g) \in Seq(Frames) /\ Len(Append(p, g)) = Len(p) + 1
        /\ \A i \in 1 .. Len(p) : Append(p, g)[i] = p[i]
        /\ Append(p, g)[Len(p) + 1] = g
    BY <1>3, <1>5, AppendProperties
  <2>2. Len(p) + 1 = m
    BY <1>1, <1>3
  <2> QED BY <1>3, <1>6, <2>1, <2>2
<1>8. e \in Seq(Frames) /\ Len(e) = m /\ \A i \in 1 .. m : e[i] = IF i = m THEN g ELSE s[i]
  <2>1. q \in [1 .. m -> Frames] /\ DOMAIN q = 1 .. m
    BY <1>4, LenProperties
  <2>2. e \in [1 .. m -> Frames] /\ DOMAIN e = 1 .. m
        /\ \A i \in 1 .. m : e[i] = IF i = m THEN g ELSE q[i]
    BY <1>5, <1>6, <2>1
  <2>3. e \in Seq(Frames)
    BY <1>1, <2>2, SeqDef
  <2>4. Len(e) = m
    BY <1>1, <2>2, <2>3, LenProperties
  <2> QED BY <1>4, <2>2, <2>3, <2>4
<1>9. \A i \in 1 .. m : a[i] = e[i]
  BY <1>1, <1>7, <1>8
<1>10. a = e
  <2>1. a \in Seq(Frames) /\ e \in Seq(Frames) /\ Len(a) = Len(e) /\ \A i \in 1 .. Len(a) : a[i] = e[i]
    BY <1>7, <1>8, <1>9
  <2> QED BY <2>1, SeqEqual
<1>11. q[m] = f
  BY <1>1, <1>2, <1>4
<1> QED BY <1>2, <1>6, <1>10, <1>11

\* The inductive invariant, beside types and cache.
Meant == StoreInv /\ LifeInv /\ WalkInv /\ TextAsWritten /\ OutputIffPossible /\ RequiresWhatItNeeds

\* A stage in which the file has neither been walked over nor ended.
Pending == stage \notin {"walking", "done", "failed"}

\* Of such a stage, the properties of a pass have nothing to say.
LEMMA PendingMeans == Pending => WalkInv /\ TextAsWritten /\ OutputIffPossible /\ RequiresWhatItNeeds
BY DEF Pending, WalkInv, TextAsWritten, OutputIffPossible, RequiresWhatItNeeds, Over

\* Nor after a step.
LEMMA PendingMeansNext ==
  (Pending => WalkInv /\ TextAsWritten /\ OutputIffPossible /\ RequiresWhatItNeeds)'
BY PendingMeans, PTL

\* The invariant holds when the program starts,
LEMMA MeantInit == Init => Meant
<1> SUFFICES ASSUME Init PROVE Meant
  OBVIOUS
<1>1. source = <<>> /\ stage = "idle" /\ body = <<>> /\ main = [count |-> 0, title |-> <<>>, author |-> <<>>]
  BY DEF Init, Instantiated
<1>2. StoreInv
  BY <1>1, NoCommands DEF StoreInv
<1> QED BY <1>1, <1>2, PendingMeans DEF Meant, LifeInv, Pending

\* when a module registers,
LEMMA MeantRegister ==
  ASSUME TypeOK, Meant, NEW m, Register(m)
  PROVE  Meant'
<1>1. UNCHANGED <<stage, target, storages, main, source, body, files, stack, code>>
      /\ modules' = modules \cup {m} /\ m \notin modules
      /\ stage \notin {"evaluating", "walking"}
  BY DEF Register, Between, evalVars, walkVars
<1>2. StoreInv'
  BY <1>1, SameMeaning DEF StoreInv, Meant
<1>3. LifeInv' /\ WalkInv'
  BY <1>1 DEF LifeInv, WalkInv
<1>4. TextAsWritten'
  BY <1>1, SameMeaning DEF TextAsWritten, Meant
<1>5. CanBeOutput' = CanBeOutput /\ Needed' = Needed
  BY <1>1, SameNeeds
<1>6. OutputIffPossible' /\ RequiresWhatItNeeds'
  BY <1>1, <1>5 DEF OutputIffPossible, RequiresWhatItNeeds, Over, Meant
<1> QED BY <1>2, <1>3, <1>4, <1>6 DEF Meant

\* when a compilation begins, with new storages and no files,
LEMMA MeantStartFile ==
  ASSUME NEW t, StartFile(t)
  PROVE  Meant'
<1>1. source' = <<>> /\ stage' = "evaluating" /\ body' = <<>> /\ files' = {}
      /\ main' = [count |-> 0, title |-> <<>>, author |-> <<>>] /\ modules' = storages'
  BY DEF StartFile, Instantiated
<1>2. StoreInv'
  BY <1>1, NoCommandsNext DEF StoreInv
<1>3. Pending' /\ LifeInv'
  BY <1>1 DEF Pending, LifeInv
<1> QED BY <1>2, <1>3, PendingMeansNext DEF Meant

\* while the commands are evaluated,
LEMMA MeantEvaluate ==
  ASSUME TypeOK, TypeOK', Meant, Evaluate
  PROVE  Meant'
<1>1. StoreInv'
  BY EvaluateKeeps DEF Meant
<1>2. stage = "evaluating" /\ stage' \in {"evaluating", "aborted"} /\ UNCHANGED <<modules, storages, files>>
  BY DEF Evaluate, Put, Count, SetTitle, SetAuthor, Evaluated, Abort, evalVars, walkVars
<1>3. LifeInv' /\ Pending'
  BY <1>2 DEF Meant, LifeInv, Pending
<1> QED BY <1>1, <1>3, PendingMeansNext DEF Meant

\* when the output pass begins,
LEMMA MeantStartWalk ==
  ASSUME TypeOK, Meant, StartWalk
  PROVE  Meant'
<1>1. stage = "evaluating" /\ UNCHANGED <<modules, number, target, storages, main, source, body, files, code>>
  BY DEF StartWalk, evalVars
<1>2. StoreInv'
  BY <1>1, SameMeaning DEF StoreInv, Meant
<1>3. LifeInv'
  BY <1>1 DEF StartWalk, LifeInv, Meant
<1>0. OfferedProviders = ProvidersFor
  BY <1>1, RegistryStands DEF Meant, LifeInv
<1>4. CASE Cardinality(OfferedProviders) = 1
  <2>1. stage' = "walking" /\ stack' = <<Bottom>>
    BY <1>0, <1>4 DEF StartWalk
  <2>2. PICK s, fs : s = stack' /\ fs = files'
    OBVIOUS
  <2>3. Stored
    BY StoreHolds DEF Meant
  <2>4. s = <<Bottom>> /\ fs = {}
    BY <1>1, <2>1, <2>2 DEF Meant, LifeInv
  <2>5. Walks(s, fs)
    BY <2>3, <2>4, WalksBottom
  <2>6. Walks(s, fs)'
    BY <1>1, <2>5, WalksSame
  <2>7. OfferedProviders' = OfferedProviders
    BY <1>1 DEF OfferedProviders
  <2>8. WalkInv'
    BY <1>4, <2>2, <2>6, <2>7 DEF WalkInv
  <2> QED BY <1>2, <1>3, <2>1, <2>8
          DEF Meant, TextAsWritten, OutputIffPossible, RequiresWhatItNeeds, Over
<1>5. CASE Cardinality(OfferedProviders) # 1
  <2>1. stage' = "failed"
    BY <1>0, <1>5 DEF StartWalk
  <2>2. CanBeOutput' = CanBeOutput
    BY <1>1, SameNeeds
  <2>3. ~CanBeOutput
    BY <1>5 DEF CanBeOutput
  <2> QED BY <1>2, <1>3, <2>1, <2>2, <2>3
          DEF Meant, WalkInv, TextAsWritten, OutputIffPossible, RequiresWhatItNeeds, Over
<1> QED BY <1>4, <1>5

\* A step of the walk that goes on.
LEMMA MeantGoesOn ==
  ASSUME Meant, stage = "walking", stage' = "walking",
         UNCHANGED <<modules, target, storages, main, source, body>>,
         NEW s, NEW fs, s = stack', fs = files', Walks(s, fs)
  PROVE  Meant'
<1>1. StoreInv'
  BY SameMeaning DEF StoreInv, Meant
<1>2. LifeInv'
  BY DEF Meant, LifeInv
<1>3. Walks(s, fs)'
  BY WalksSame
<1>4. OfferedProviders' = OfferedProviders /\ Cardinality(OfferedProviders) = 1
  BY DEF OfferedProviders, Meant, WalkInv
<1>5. WalkInv'
  BY <1>3, <1>4 DEF WalkInv
<1> QED BY <1>1, <1>2, <1>5 DEF Meant, TextAsWritten, OutputIffPossible, RequiresWhatItNeeds, Over

\* A step that ends the pass.
LEMMA MeantEnds ==
  ASSUME Meant, stage = "walking",
         UNCHANGED <<modules, target, storages, main, source, body, files>>,
         \/ stage' = "done" /\ CanBeOutput /\ Words(code') = Meaning /\ files = Needed
         \/ stage' = "failed" /\ ~CanBeOutput
  PROVE  Meant'
<1>1. StoreInv'
  BY SameMeaning DEF StoreInv, Meant
<1>2. LifeInv' /\ WalkInv'
  BY DEF LifeInv, WalkInv
<1>3. Meaning' = Meaning
  BY SameMeaning
<1>4. CanBeOutput' = CanBeOutput /\ Needed' = Needed
  BY SameNeeds
<1>5. TextAsWritten'
  BY <1>3 DEF TextAsWritten
<1>6. OutputIffPossible'
  BY <1>4 DEF OutputIffPossible, Over
<1>7. RequiresWhatItNeeds'
  BY <1>4 DEF RequiresWhatItNeeds, Over
<1> QED BY <1>1, <1>2, <1>5, <1>6, <1>7 DEF Meant

\* and with every object the pass outputs.
LEMMA MeantWalk ==
  ASSUME TypeOK, CacheFresh, Meant, Walk
  PROVE  Meant'
<1>1. stage = "walking" /\ stack # <<>> /\ UNCHANGED <<modules, target, storages, main, source, body>>
  BY DEF Walk, OutputStr, OutputNode, Return, Finish, Throw, AtObject, Walking, evalVars
<1>2. Stored /\ Walks(stack, files) /\ Cardinality(OfferedProviders) = 1
  BY <1>1, StoreHolds DEF Meant, WalkInv
<1>3. PICK s, fs, m : s = stack /\ fs = files /\ m = Len(s)
  OBVIOUS
<1>4. Walks(s, fs) /\ s \in Seq(Frames) /\ m \in 1 .. MaxDepth /\ m \in 1 .. Len(s) /\ m \in Nat
      /\ MaxDepth - m \in 0 .. MaxDepth
  BY <1>2, <1>3, BoundsAssumption DEF Walks
<1>5. Top = s[m] /\ Below = SubSeq(s, 1, m - 1)
  BY <1>3 DEF Top, Below
<1>6. \A i \in 1 .. m : s[i] \in Frames
  BY <1>4, ElementOfSeq
<1>7. CASE OutputStr
  <2>1. PICK o : o = Head(s[m].todo).obj
    OBVIOUS
  <2>2. s[m].todo # <<>> /\ IsStr(o)
    BY <1>5, <1>7, <2>1 DEF OutputStr, AtObject
  <2>3. o \in Here
    BY <1>2, <1>4, <2>1, <2>2, NextObject
  <2>4. PICK c : c = <<o.text>>
    OBVIOUS
  <2>5. c \in Seq(Tokens) /\ Words(c) = Text[MaxDepth - m][o] /\ Fine(fs, MaxDepth - m, o)
    BY <1>2, <1>4, <2>2, <2>3, <2>4, StrObject
  <2>6. PICK t : t = [SubSeq(s, 1, m) EXCEPT ![m] = Advanced(@, c)]
    OBVIOUS
  <2>7. Walks(t, fs) /\ Advanced(s[m], c) \in Frames
    BY <1>2, <1>4, <2>1, <2>2, <2>5, <2>6, WalksAdvance
  <2>8. stack' = Append(SubSeq(s, 1, m - 1), Advanced(s[m], c)) /\ stage' = "walking" /\ files' = fs
    BY <1>1, <1>3, <1>5, <1>7, <2>1, <2>4 DEF OutputStr
  <2>9. t = stack'
    <3>1. Append(SubSeq(s, 1, m - 1), Advanced(s[m], c)) = [SubSeq(s, 1, m) EXCEPT ![m] = Advanced(@, c)]
      BY <1>4, <2>5, <2>7, LastReplaced
    <3> QED BY <2>6, <2>8, <3>1
  <2> QED BY <1>1, <2>7, <2>8, <2>9, MeantGoesOn
<1>8. CASE OutputNode
  <2>1. PICK n : n = Head(s[m].todo).obj
    OBVIOUS
  <2>2. s[m].todo # <<>> /\ ~IsStr(n) /\ CanCall(n)
    BY <1>5, <1>8, <2>1 DEF OutputNode, AtObject
  <2>3. PICK by \in Found(n.tag) : files' = files \cup Binds(by.kind) /\ stack' = Append(stack, Frame(by, n))
    BY <1>5, <1>8, <2>1 DEF OutputNode
  <2>4. Cardinality(Found(n.tag)) = 1 /\ m < MaxDepth /\ Consistent(fs \cup Binds(by.kind))
        /\ (by.kind = "htmlTitle" => HasMain)
    BY <1>3, <2>2, <2>3 DEF CanCall
  <2>5. Offered(n.tag) = {by}
    BY <1>1, <2>3, <2>4, FoundIsFresh, RegistryStands DEF Meant, LifeInv
  <2>6. PICK t, gs : t = Append(s, Frame(by, n)) /\ gs = fs \cup Binds(by.kind)
    OBVIOUS
  <2>7. Walks(t, gs)
    BY <1>2, <1>3, <1>4, <2>1, <2>2, <2>4, <2>5, <2>6, WalksCall
  <2>8. stage' = "walking" /\ t = stack' /\ gs = files'
    BY <1>1, <1>3, <1>8, <2>3, <2>6 DEF OutputNode
  <2> QED BY <1>1, <2>7, <2>8, MeantGoesOn
<1>9. CASE Return
  <2>1. m > 1 /\ s[m].todo = <<>> /\ Returns(s[m]) /\ stage' = "walking" /\ files' = fs
        /\ stack' = [SubSeq(s, 1, m - 1) EXCEPT ![Len(SubSeq(s, 1, m - 1))] = Advanced(@, Assembled(s[m]))]
    BY <1>1, <1>3, <1>5, <1>9 DEF Return
  <2>2. PICK j \in 1 .. Len(s) : j = m - 1
    BY <1>4, <2>1
  <2>3. PICK n, c : n = Called(s, m) /\ c = Assembled(s[m])
    OBVIOUS
  <2>4. /\ c \in Seq(Tokens) /\ Words(c) = Text[MaxDepth - (m - 1)][n]
        /\ Fine(fs, MaxDepth - (m - 1), n)
    BY <1>2, <1>4, <2>1, <2>3, CallReturns
  <2>5. n = Head(s[j].todo).obj /\ s[j].todo # <<>>
    <3>1. s[m - 1].todo # <<>>
      BY <1>2, <1>4, <2>1, <2>3, CalledFacts
    <3> QED BY <1>4, <2>1, <2>2, <2>3, <3>1 DEF Called
  <2>6. PICK t : t = [SubSeq(s, 1, j) EXCEPT ![j] = Advanced(@, c)]
    OBVIOUS
  <2>7. Walks(t, fs)
    BY <1>2, <1>4, <2>2, <2>4, <2>5, <2>6, WalksAdvance
  <2>8. Len(SubSeq(s, 1, j)) = j
    <3>1. \A i \in 1 .. j : s[i] \in Frames
      BY <1>4, <1>6, <2>2
    <3>2. 1 \in Int /\ j \in Int /\ 1 <= j
      BY <1>4, <2>2
    <3>3. Len(SubSeq(s, 1, j)) = IF 1 <= j THEN j - 1 + 1 ELSE 0
      BY <3>1, <3>2, SubSeqProperties
    <3> QED BY <3>2, <3>3
  <2>9. t = stack'
    BY <2>1, <2>2, <2>3, <2>6, <2>8
  <2> QED BY <1>1, <2>1, <2>7, <2>9, MeantGoesOn
<1>10. CASE Finish
  <2>1. Len(s) = 1 /\ s[1].todo = <<>> /\ stage' = "done" /\ code' = s[1].made[1] /\ files' = files
    BY <1>3, <1>5, <1>10 DEF Finish
  <2>2. Words(s[1].made[1]) = Meaning /\ CanBeOutput /\ files = Needed
    BY <1>2, <1>3, <2>1, WalkEnds
  <2>3. Words(code') = Meaning
    BY <2>1, <2>2
  <2> QED BY <1>1, <2>1, <2>2, <2>3, MeantEnds
<1>11. CASE Throw
  <2>1. stage' = "failed" /\ files' = files
    BY <1>11 DEF Throw
  <2>2. ~CanBeOutput
    BY <1>1, <1>2, <1>11, WalkFails DEF Throw, Meant, LifeInv
  <2> QED BY <1>1, <2>1, <2>2, MeantEnds
<1> QED BY <1>7, <1>8, <1>9, <1>10, <1>11 DEF Walk

\* So every step keeps it.
LEMMA MeantStep == TypeOK /\ TypeOK' /\ CacheFresh /\ Meant /\ [Next]_vars => Meant'
<1> SUFFICES ASSUME TypeOK, TypeOK', CacheFresh, Meant, [Next]_vars PROVE Meant'
  OBVIOUS
<1>1. ASSUME NEW m \in Late, Register(m) PROVE Meant'
  BY <1>1, MeantRegister
<1>2. ASSUME NEW t \in Targets, StartFile(t) PROVE Meant'
  BY <1>2, MeantStartFile
<1>3. CASE Evaluate
  BY <1>3, MeantEvaluate
<1>4. CASE StartWalk
  BY <1>4, MeantStartWalk
<1>5. CASE Walk
  BY <1>5, MeantWalk
<1>6. CASE UNCHANGED vars
  <2>1. /\ UNCHANGED <<modules, stage, target, storages, main, source, body, files, stack, code>>
    BY <1>6 DEF vars, evalVars, walkVars
  <2>2. CASE stage = "walking"
    <3>1. PICK s, fs : s = stack /\ fs = files
      OBVIOUS
    <3>2. Walks(s, fs) /\ s = stack' /\ fs = files'
      BY <2>1, <2>2, <3>1 DEF Meant, WalkInv
    <3> QED BY <2>1, <2>2, <3>2, MeantGoesOn
  <2>3. CASE stage # "walking"
    <3>1. StoreInv'
      BY <2>1, SameMeaning DEF Meant, StoreInv
    <3>2. LifeInv' /\ WalkInv'
      BY <2>1, <2>3 DEF Meant, LifeInv, WalkInv
    <3>3. TextAsWritten'
      BY <2>1, SameMeaning DEF Meant, TextAsWritten
    <3>4. OutputIffPossible' /\ RequiresWhatItNeeds'
      BY <2>1, SameNeeds DEF Meant, OutputIffPossible, RequiresWhatItNeeds, Over
    <3> QED BY <3>1, <3>2, <3>3, <3>4 DEF Meant
  <2> QED BY <2>2, <2>3
<1> QED BY <1>1, <1>2, <1>3, <1>4, <1>5, <1>6 DEF Next

\* The state is at every step one that the invariant describes.
LEMMA AlwaysMeant == Spec => []Meant
BY MeantInit, MeantStep, TypeCorrect, CacheStaysFresh, PTL DEF Spec

\* The code of a finished file holds the text of its commands, all of it and in
\* order, with the title and author that were set last, wherever they are shown.
THEOREM TextComesAsWritten == Spec => []TextAsWritten
<1>1. Meant => TextAsWritten
  BY DEF Meant
<1> QED BY <1>1, AlwaysMeant, PTL

\* A file is output if and only if its commands and the registry make it possible:
\* looking up tag by tag, and remembering what was found, neither loses nor lets
\* pass a file.
THEOREM OutputExactlyIfPossible == Spec => []OutputIffPossible
<1>1. Meant => OutputIffPossible
  BY DEF Meant
<1> QED BY <1>1, AlwaysMeant, PTL

\* The files copied for a finished file are those that its outputters require.
THEOREM RequiredFilesAreNeeded == Spec => []RequiresWhatItNeeds
<1>1. Meant => RequiresWhatItNeeds
  BY DEF Meant
<1> QED BY <1>1, AlwaysMeant, PTL
=============================================================================
