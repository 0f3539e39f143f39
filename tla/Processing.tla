------------------------------ MODULE Processing ------------------------------
(***************************************************************************)
(* The middle pass (internal/process): four tree transformations, run one  *)
(* after the other on what evaluation made of a file.  They share no       *)
(* state: what a pass leaves in the tree is all the next one knows.        *)
(*                                                                         *)
(* A tree is a table of its nodes.  The functions of a pass call           *)
(* themselves for every child, whatever it is, and look only at the tag    *)
(* and at isBlock of a child, which no pass changes.  So a pass treats     *)
(* each node by itself, and here it treats them all at once.               *)
(***************************************************************************)
EXTENDS Naturals, Sequences

CONSTANTS
  Root,            \* the node that evaluation returns
  Nodes,           \* all the nodes there may be
  Tags, Strings,   \* what nodes and texts are made of
  Documents        \* the tables of nodes that evaluation may return

-----------------------------------------------------------------------------
(* LTRF.  An object is a string, of which only being a newline or other
   whitespace matters, or a node: one of the table, a break marker, or a
   paragraph, which holds its elements.  Objects remember where they stood
   in the input: the properties look at this, the passes do not.            *)
NL == "\n"
Space == " "
Text(s, at) == [kind |-> "text", text |-> s, at |-> at]
Child(n, at) == [kind |-> "node", node |-> n, at |-> at]
BreakMarker(at) == [kind |-> "marker", at |-> at]

Objects == [kind : {"text"}, text : Strings, at : Nat] \cup
           [kind : {"node"}, node : Nodes, at : Nat]
Markers == [kind : {"marker"}, at : Nat]
Paragraphs == [kind : {"para"}, elems : Seq(Objects)]

\* isBlock is the entry of that name in kv, "other" if it is no boolean.
NodeRecords(elements) ==
  [tag : Tags, isBlock : {"true", "false", "unset", "other"}, elems : Seq(elements)]

\* Tags of nodes are not those that the passes use themselves.  A node may
\* occur in several places, as it may in the code, where nodes are immutable.
IsDocument(d) ==
  /\ Root \in DOMAIN d /\ d \in [DOMAIN d -> NodeRecords(Objects)]
  /\ \A n \in DOMAIN d : \A i \in DOMAIN d[n].elems :
       LET o == d[n].elems[i]
       IN o.at = i /\ (o.kind = "node" => o.node \in DOMAIN d)
ASSUME DocumentsAssumption == \A d \in Documents : IsDocument(d)
ASSUME TagsAssumption == "__p" \notin Tags /\ "__para_br_marker" \notin Tags
ASSUME StringsAssumption == {NL, Space} \subseteq Strings

IsText(o) == o.kind = "text"
IsNewline(o) == IsText(o) /\ o.text = NL
IsWhitespace(o) == IsText(o) /\ o.text \in {NL, Space}
IsBreakMarker(o) == o.kind = "marker"
IsPara(o) == o.kind = "para"
HasTag(d, o, tag) == o.kind = "node" /\ d[o.node].tag = tag
IsBlock(d, o) == IsPara(o) \/ (o.kind = "node" /\ d[o.node].isBlock = "true")
MalformedBlock(d, o) == o.kind = "node" /\ d[o.node].isBlock = "other"

\* Mutant: the copy of a node loses its kv.
WithElems_NewKv(n, elems) == [n EXCEPT !.isBlock = "unset", !.elems = elems]
WithElems(n, elems) == [n EXCEPT !.elems = elems]

\* filter: the elements at the positions in kept.
Only(kept, elems) ==
  LET h[i \in 0 .. Len(elems)] ==
        IF i = 0 THEN <<>>
        ELSE IF i \in kept THEN Append(h[i - 1], elems[i]) ELSE h[i - 1]
  IN h[Len(elems)]

-----------------------------------------------------------------------------
(* processRoot: only __doc nodes, and whitespace that is dropped.           *)
RootIsClean(d) ==
  \A i \in DOMAIN d[Root].elems :
    LET o == d[Root].elems[i] IN IsWhitespace(o) \/ HasTag(d, o, "__doc")

Docs(d) == Only({i \in DOMAIN d[Root].elems : HasTag(d, d[Root].elems[i], "__doc")},
                d[Root].elems)
KeepDocs(d) == [d EXCEPT ![Root] = WithElems(d[Root], Docs(d))]

(* remWhitespace: whitespace other than a newline goes, at every depth.     *)
\* Mutant: all whitespace goes, newlines too.
Kept_AllText(o) == ~IsWhitespace(o)
Kept(o) == IsNewline(o) \/ ~IsWhitespace(o)

WithoutSpaces(elems) == Only({i \in DOMAIN elems : Kept(elems[i])}, elems)
RemWhitespace(d) == [n \in DOMAIN d |-> WithElems(d[n], WithoutSpaces(d[n].elems))]

(* processLinebreaksHelper: the forEach.  h is what has been emitted so far,
   a marker standing for the symbol.                                        *)
MarkOnce(h, at) ==
  IF h = <<>> \/ IsBreakMarker(h[Len(h)]) THEN h ELSE Append(h, BreakMarker(at))

\* Mutant: a single newline leaves nothing.
Emit_NoSpace(elems, h, i) ==
  CASE ~IsNewline(elems[i]) -> Append(h, elems[i])
    [] IsNewline(elems[i]) /\ i < Len(elems) /\ IsNewline(elems[i + 1]) -> MarkOnce(h, elems[i].at)
    [] OTHER -> h
Emit(elems, h, i) ==
  CASE ~IsNewline(elems[i]) -> Append(h, elems[i])
    [] IsNewline(elems[i]) /\ i < Len(elems) /\ IsNewline(elems[i + 1]) -> MarkOnce(h, elems[i].at)
    [] OTHER -> Append(h, Text(Space, elems[i].at))

Emitted(elems) ==
  LET h[i \in 0 .. Len(elems)] == IF i = 0 THEN <<>> ELSE Emit(elems, h[i - 1], i)
  IN h[Len(elems)]
Breaks(elems) == IF Len(elems) <= 1 THEN elems ELSE Emitted(elems)
Linebreaks(d) == [n \in DOMAIN d |-> WithElems(d[n], Breaks(d[n].elems))]

-----------------------------------------------------------------------------
(* processParagraphsHelper.  acc is [out, para, paras]: outElems, paraAccum
   and numParas.                                                            *)
MakePara(elems) == [kind |-> "para", elems |-> elems]

\* Mutant: numParas is not increased.
Flush_Uncounted(acc) ==
  IF acc.para = <<>> THEN acc
  ELSE [acc EXCEPT !.out = Append(acc.out, MakePara(acc.para)), !.para = <<>>]
Flush(acc) ==
  IF acc.para = <<>> THEN acc
  ELSE [out |-> Append(acc.out, MakePara(acc.para)), para |-> <<>>, paras |-> acc.paras + 1]

\* Mutant: a block ends the paragraph and is forgotten.
Gather_DropsBlock(d, acc, o) ==
  CASE IsBreakMarker(o) \/ IsBlock(d, o) -> Flush(acc)
    [] OTHER -> [acc EXCEPT !.para = Append(acc.para, o)]
\* Mutant: a marker without text before it is treated as an element.
Gather_KeepsMarker(d, acc, o) ==
  CASE IsBreakMarker(o) /\ acc.para # <<>> -> Flush(acc)
    [] IsBlock(d, o) \/ (IsBreakMarker(o) /\ acc.para = <<>>) ->
         [Flush(acc) EXCEPT !.out = Append(Flush(acc).out, o)]
    [] OTHER -> [acc EXCEPT !.para = Append(acc.para, o)]
Gather(d, acc, o) ==
  CASE IsBreakMarker(o) -> Flush(acc)
    [] IsBlock(d, o) -> [Flush(acc) EXCEPT !.out = Append(Flush(acc).out, o)]
    [] OTHER -> [acc EXCEPT !.para = Append(acc.para, o)]

Gathered(d, elems) ==
  LET acc[i \in 0 .. Len(elems)] ==
        IF i = 0 THEN [out |-> <<>>, para |-> <<>>, paras |-> 0]
        ELSE Gather(d, acc[i - 1], elems[i])
  IN acc[Len(elems)]

Finish(acc) == IF acc.paras >= 1 THEN Flush(acc).out ELSE acc.out \o acc.para

\* The content of a paragraph without the whitespace at both of its ends.
Content(elems) == {i \in DOMAIN elems : ~IsWhitespace(elems[i])}
First(S) == CHOOSE i \in S : \A j \in S : i <= j
Final(S) == CHOOSE i \in S : \A j \in S : j <= i
TrimmedEnds(elems) ==
  IF Content(elems) = {} THEN <<>>
  ELSE SubSeq(elems, First(Content(elems)), Final(Content(elems)))

\* Mutant: the second while loop is missing.
TrimPara_StartOnly(o) ==
  IF ~IsPara(o) THEN o
  ELSE MakePara(IF Content(o.elems) = {} THEN <<>>
                ELSE SubSeq(o.elems, First(Content(o.elems)), Len(o.elems)))
TrimPara(o) == IF IsPara(o) THEN MakePara(TrimmedEnds(o.elems)) ELSE o
IsNotEmptyPara(o) == ~(IsPara(o) /\ o.elems = <<>>)
TrimParas(elems) ==
  LET trimmed == [i \in DOMAIN elems |-> TrimPara(elems[i])]
  IN Only({i \in DOMAIN elems : IsNotEmptyPara(trimmed[i])}, trimmed)

Paras(d, elems) == TrimParas(Finish(Gathered(d, elems)))
WithParagraphs(d) == [n \in DOMAIN d |-> WithElems(d[n], Paras(d, d[n].elems))]

\* isBlock() throws on the first entry that is not a boolean, root excepted.
BlocksAreBoolean(d) ==
  \A n \in DOMAIN d : \A i \in DOMAIN d[n].elems : ~MalformedBlock(d, d[n].elems[i])

-----------------------------------------------------------------------------
(* process.ts: the passes in the order of PROCESSING_PASSES; an exception
   ends the compilation of the file.                                        *)
VARIABLES input, doc, pass, failed

vars == <<input, doc, pass, failed>>

Init == input \in Documents /\ doc = input /\ pass = 0 /\ failed = FALSE

Pass(n, ok, result) ==
  /\ pass = n /\ ~failed
  /\ IF ok THEN doc' = result /\ pass' = n + 1 /\ UNCHANGED failed
           ELSE failed' = TRUE /\ UNCHANGED <<doc, pass>>
  /\ UNCHANGED input

ProcessRoot == Pass(0, doc[Root].tag = "__root" /\ RootIsClean(doc), KeepDocs(doc))
RemoveWhitespaceLines == Pass(1, TRUE, RemWhitespace(doc))
ProcessLinebreaks == Pass(2, TRUE, Linebreaks(doc))
ProcessParagraphs == Pass(3, BlocksAreBoolean(doc), WithParagraphs(doc))

Next == ProcessRoot \/ RemoveWhitespaceLines \/ ProcessLinebreaks \/ ProcessParagraphs

Spec == Init /\ [][Next]_vars

Processed == pass = 4

-----------------------------------------------------------------------------
(* What the passes promise together, none of which a single pass can.       *)

\* No pass adds or removes a node of the table, or changes a tag or isBlock.
TypeOK ==
  /\ pass \in 0 .. 4 /\ failed \in BOOLEAN
  /\ doc \in [DOMAIN input -> NodeRecords(Objects \cup Markers \cup Paragraphs)]
  /\ \A n \in DOMAIN input : doc[n].tag = input[n].tag /\ doc[n].isBlock = input[n].isBlock

\* Where objects stand among the elements of a node: <<x, 0>>, or <<x, y>> in
\* the paragraph at x.
Places(elems) ==
  {<<x, 0>> : x \in {x \in DOMAIN elems : ~IsPara(elems[x])}} \cup
  UNION {{<<x, y>> : y \in DOMAIN elems[x].elems} : x \in {x \in DOMAIN elems : IsPara(elems[x])}}
ObjectAt(elems, p) == IF p[2] = 0 THEN elems[p[1]] ELSE elems[p[1]].elems[p[2]]
ContentPlaces(elems) == {p \in Places(elems) : ~IsWhitespace(ObjectAt(elems, p))}
Before(p, q) == p[1] < q[1] \/ (p[1] = q[1] /\ p[2] < q[2])

\* No pass loses, repeats or moves content: through splitting into paragraphs,
\* flushing and trimming, the nodes and words of a file keep their order.
TextInOrder ==
  Processed => \A n \in DOMAIN input :
    LET before == input[n].elems
        after == doc[n].elems
    IN /\ {ObjectAt(after, p) : p \in ContentPlaces(after)} = {before[i] : i \in Content(before)}
       /\ \A p, q \in ContentPlaces(after) :
            Before(p, q) => ObjectAt(after, p).at < ObjectAt(after, q).at

\* Between two elements there is a blank line, or one of them or of those between
\* them is a block.
Blank(elems, i, j) ==
  \E k, l \in i .. j : /\ k < l /\ IsNewline(elems[k]) /\ IsNewline(elems[l])
                       /\ \A x \in k .. l : IsWhitespace(elems[x])
Apart(d, elems, i, j) == Blank(elems, i, j) \/ \E k \in i .. j : IsBlock(d, elems[k])

\* Both in one paragraph, or both in none, as in a node that needs none.
Together(d, elems, p, q) ==
  \/ p[1] = q[1]
  \/ p[2] = 0 /\ q[2] = 0 /\ ~IsBlock(d, elems[p[1]]) /\ ~IsBlock(d, elems[q[1]])

\* Two pieces of a node's content share a paragraph exactly when there is
\* neither a block nor a blank line between them, where a line of spaces
\* counts as blank and any number of blank lines as one.
BlankLinesSeparate ==
  Processed => \A n \in DOMAIN input \ {Root} :
    LET after == doc[n].elems
    IN \A p, q \in ContentPlaces(after) : Before(p, q) =>
         (Together(input, after, p, q) <=>
            ~Apart(input, input[n].elems, ObjectAt(after, p).at, ObjectAt(after, q).at))

\* A paragraph has content, starts and ends with it, and holds no block; once
\* a node has one paragraph, all its text is in paragraphs; and the markers
\* that one pass leaves for the next are gone: no outputter knows them.
ParagraphsWellFormed ==
  Processed => \A n \in DOMAIN input :
    LET after == doc[n].elems
    IN /\ \A p \in Places(after) : ~IsBreakMarker(ObjectAt(after, p))
       /\ (\E x \in DOMAIN after : IsPara(after[x])) =>
            \A x \in DOMAIN after : IsBlock(input, after[x])
       /\ \A x \in DOMAIN after : IsPara(after[x]) =>
            LET para == after[x].elems
            IN /\ para # <<>> /\ ~IsWhitespace(para[1]) /\ ~IsWhitespace(para[Len(para)])
               /\ \A y \in DOMAIN para : ~IsBlock(input, para[y])

\* Content on two lines of one paragraph is still separated by a space, and no
\* space comes from anything but a line's end.
LinesStayApart ==
  Processed => \A n \in DOMAIN input \ {Root} :
    LET before == input[n].elems
        after == doc[n].elems
    IN \A p, q \in ContentPlaces(after) :
         Before(p, q) /\ Together(input, after, p, q) =>
           ((\E k \in ObjectAt(after, p).at .. ObjectAt(after, q).at : IsNewline(before[k])) <=>
            (\E w \in Places(after) : /\ IsWhitespace(ObjectAt(after, w))
                                      /\ Before(p, w) /\ Before(w, q)))
=============================================================================
