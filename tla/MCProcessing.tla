---------------------------- MODULE MCProcessing ----------------------------
(* Files of one __doc with every sequence of up to MaxLen elements, some of
   them nodes with content of their own, the longer ones of up to MaxPlain
   elements that have none, and roots that are not clean.                   *)
EXTENDS Processing

CONSTANTS MaxLen, MaxPlain

AllTexts == {"word", " ", "\n"}

\* What an element may be, before it has a place.
Of(s) == [text |-> s, isBlock |-> "unset", elems |-> <<>>]
NodeWith(isBlock, texts) == [text |-> "node", isBlock |-> isBlock, elems |-> texts]
Inner == {<<"\n">>, <<" ", "word", "\n", "\n">>, <<"word", "\n", "\n", "word">>}
Texts == {Of("word"), Of(" "), Of("\n")}
Shapes == Texts \cup {NodeWith(b, texts) : b \in {"unset", "true"}, texts \in Inner}
Plain == Texts \cup {NodeWith("true", <<>>)}

\* The document of a file whose __doc has these elements: the node at position
\* i is node i + 1.
TextsAt(texts) == [i \in DOMAIN texts |-> Text(texts[i], i)]
Element(shape, i) == IF shape.text = "node" THEN Child(i + 1, i) ELSE Text(shape.text, i)
NodeOf(tag, isBlock, elems) == [tag |-> tag, isBlock |-> isBlock, elems |-> elems]
RootElems == <<Text(" ", 1), Child(1, 2), Text("\n", 3)>>
File(shapes) ==
  [n \in {0, 1} \cup {i + 1 : i \in {i \in DOMAIN shapes : shapes[i].text = "node"}} |->
     CASE n = 0 -> NodeOf("__root", "unset", RootElems)
       [] n = 1 -> NodeOf("__doc", "unset", [i \in DOMAIN shapes |-> Element(shapes[i], i)])
       [] OTHER -> NodeOf("call", shapes[n - 1].isBlock, TextsAt(shapes[n - 1].elems))]

\* Roots: two documents, text, a command, one whose isBlock is no boolean.
D == NodeOf("__doc", "unset", TextsAt(<<"word", "\n", "\n">>))
Bad == NodeOf("call", "other", TextsAt(<<"word">>))
WithRoot(tag, elems, nodes) ==
  [n \in {0} \cup DOMAIN nodes |-> IF n = 0 THEN NodeOf(tag, "unset", elems) ELSE nodes[n]]
Roots == {
  WithRoot("__root", <<Child(1, 1), Text("\n", 2), Child(2, 3)>>, <<D, D>>),
  WithRoot("__root", <<Text("word", 1), Child(1, 2)>>, <<D>>),
  WithRoot("__root", <<Child(1, 1)>>, <<Bad>>),
  WithRoot("__root", <<Child(1, 1)>>, <<NodeOf("__doc", "unset", <<Child(2, 1)>>), Bad>>),
  WithRoot("__doc", <<Text("word", 1)>>, <<>>) }

Files == Roots \cup
         {File(shapes) : shapes \in UNION {[1 .. n -> Shapes] : n \in 0 .. MaxLen} \cup
                                    UNION {[1 .. n -> Plain] : n \in 0 .. MaxPlain}}
=============================================================================
