---------------------------- MODULE OutputMeaning ----------------------------
(***************************************************************************)
(* What a file should become, read off its commands and the registry       *)
(* without a storage, a dispatcher or a walk, and the properties that hold *)
(* Output to it.                                                           *)
(***************************************************************************)
EXTENDS Output

\* The output pass has ended; modules may have registered since.
Over == stage \in {"done", "failed"}

\* What the modules offered that were registered when the compilation began.
Offered(tag) == {o \in Outputters : o.mod \in storages /\ o.target = target /\ o.tag = tag}
OfferedProviders == {p \in Providers : p.mod \in storages /\ p.target = target}

-----------------------------------------------------------------------------
(* The file, of its commands *)

\* The argument of the last command op of the file.
Uses(op) == {k \in DOMAIN source : source[k].op = op}
LastUse(op) == CHOOSE k \in Uses(op) : \A j \in Uses(op) : j <= k
LastArg(op) == IF Uses(op) = {} THEN <<>> ELSE source[LastUse(op)].arg
Title == LastArg("title")
Author == LastArg("author")

\* What the commands put into the document: the n-th count is n.
CountsUpTo(k) == Cardinality({j \in 1 .. k : source[j].op = "count"})
Puts(k) ==
  CASE source[k].op = "put" -> source[k].arg
    [] source[k].op = "count" -> <<Str(<<"count", CountsUpTo(k)>>)>>
    [] OTHER -> <<>>
Written ==
  LET w[k \in 0 .. Len(source)] == IF k = 0 THEN <<>> ELSE w[k - 1] \o Puts(k)
  IN w[Len(source)]

File == Node("__root", <<Node("__doc", Written)>>)
Here == Objects \cup Counts \cup {Node("__doc", Written), File}

-----------------------------------------------------------------------------
(* What its nodes contain *)

\* What the output of a node contains, by the kind of its outputter: one shows
\* title and author, one nothing, one title and author before its elements.
KindsOf(n) == {o.kind : o \in Offered(n.tag)}
Contained(n) ==
  CASE KindsOf(n) = {"htmlTitle"} -> Title \o Author
    [] KindsOf(n) = {"bare"} -> <<>>
    [] KindsOf(n) = {"latexRoot"} -> Title \o Author \o n.elems
    [] OTHER -> n.elems

\* What f gives for the objects, one after the other.
Joined(f, objs) ==
  LET j[i \in 0 .. Len(objs)] == IF i = 0 THEN <<>> ELSE j[i - 1] \o f[objs[i]]
  IN j[Len(objs)]

\* A title may contain the maketitle that shows it, so that all this is said of
\* d nested nodes: the text of an object, the nodes in it, which ones have no more.
Text[d \in 0 .. MaxDepth] ==
  [o \in Here |->
     IF IsStr(o) THEN <<o.text>> ELSE IF d = 0 THEN <<>> ELSE Joined(Text[d - 1], Contained(o))]
NodesIn[d \in 0 .. MaxDepth] ==
  [o \in Here |->
     IF IsStr(o) \/ d = 0 THEN {}
     ELSE {o} \cup UNION {NodesIn[d - 1][Contained(o)[i]] : i \in DOMAIN Contained(o)}]
Fitting[d \in 0 .. MaxDepth] ==
  IF d = 0 THEN {o \in Here : IsStr(o)}
  ELSE LET fits == Fitting[d - 1]
       IN {o \in Here : IsStr(o) \/ \A i \in DOMAIN Contained(o) : Contained(o)[i] \in fits}

\* One call is that of the pass itself.
Depth == MaxDepth - 1
Meaning == Text[Depth][File]
Shown == NodesIn[Depth][File]
HasRoom == File \in Fitting[Depth]

EveryTagHasOneOutputter == \A n \in Shown : Cardinality(Offered(n.tag)) = 1
Needed == UNION {Binds(o.kind) : o \in UNION {Offered(n.tag) : n \in Shown}}
FilesAgree == \A f, g \in Needed : f.path = g.path => f = g
NeedsMain == \E n \in Shown : \E o \in Offered(n.tag) : ReadsMain(o)

CanBeOutput ==
  /\ Cardinality(OfferedProviders) = 1
  /\ EveryTagHasOneOutputter
  /\ FilesAgree
  /\ NeedsMain => HasMain
  /\ HasRoom

-----------------------------------------------------------------------------
\* The code of a file holds the text of its commands, all of it and in order:
\* counts run from one, the last title and author of this very file are shown
\* wherever they were set, once per maketitle or once in the preamble.
Words(c) ==
  LET w[i \in 0 .. Len(c)] ==
        IF i = 0 THEN <<>>
        ELSE IF c[i][1] \in {"word", "count"} THEN Append(w[i - 1], c[i]) ELSE w[i - 1]
  IN w[Len(c)]
TextAsWritten == stage = "done" => Words(code) = Meaning

\* The lazy dispatcher fails no file that can be output and lets no other
\* pass, although it sees the tags one by one and remembers what it found.
OutputIffPossible == Over => (stage = "done" <=> CanBeOutput)

\* The files copied for a finished file are those required by the outputters
\* of its own target and tags, each of them, however late its tag was met.
RequiresWhatItNeeds == stage = "done" => files = Needed

=============================================================================
