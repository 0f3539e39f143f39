-------------------------------- MODULE Parser --------------------------------
(***************************************************************************)
(* lapol-parse-rs: the parser of LaPoL source text, as a machine with a    *)
(* stack: one frame per call of text(), command_contents() or              *)
(* square_args() that has not returned.  The input is a sequence of        *)
(* tokens, each one the characters that the parser never tells apart:      *)
(*   word    an identifier                                                 *)
(*   true    a value that is no identifier: true, false or a number        *)
(*   truly   an identifier that starts with true or false                  *)
(*   sp, nl  white space, a newline                                        *)
(* and the special characters themselves.  No two words are adjacent.      *)
(***************************************************************************)
EXTENDS Naturals, Sequences, FiniteSets

CONSTANTS
  Inputs,      \* the texts that are parsed: sequences of Tokens
  Builds       \* subset of BOOLEAN: whether debug assertions are compiled in

Words   == {"word", "truly", "true"}
Spaces  == {"sp", "nl"}
Openers == {"<", "["}        \* ALLOWED_ESCAPE_SYMBOLS; "(" is no different
Tokens  == Words \cup Spaces \cup {"@", "%", "|", "{", "}", "<", ">", "[", "]", ",", "=", ";"}

ASSUME InputsAssumption == Inputs \subseteq Seq(Tokens)
ASSUME BuildsAssumption == Builds \subseteq BOOLEAN

VARIABLES
  input, debug,
  pos,         \* the position of the first token that is not consumed
  stack,       \* frames, the innermost call first
  out,         \* the tree so far, in the order of the source: see Events
  status       \* "parsing", "done" or "panicked"

vars == <<input, debug, pos, stack, out, status>>

-----------------------------------------------------------------------------
(* Reading the input *)

Positions == 1 .. Len(input) + 1
Tok(p) == IF p \in 1 .. Len(input) THEN input[p] ELSE "eof"
HasAt(p, s) == \A k \in 1 .. Len(s) : Tok(p + k - 1) = s[k]
Span(p, q) == [k \in 1 .. q - p |-> p + k - 1]

\* generic_open_curly at p: a "{" that n symbols of escape stand before.
OpensAt(p, n) ==
  /\ n > 0 => Tok(p) = "|"
  /\ \A k \in 1 .. n - 1 : Tok(p + k) \in Openers
  /\ Tok(p + n) = "{"
Escape(p, n) == SubSeq(input, p, p + n - 1)

Mirrored == [c \in Openers \cup {"|"} |-> CASE c = "<" -> ">" [] c = "[" -> "]" [] c = "|" -> "|"]
Opening(e) == Append(e, "{")
Closing(e) == <<"}">> \o [k \in 1 .. Len(e) |-> Mirrored[e[Len(e) + 1 - k]]]

\* block_comment_text: where the bracket ends that was opened before from.
BlockEnd(e, from) ==
  LET end[p \in Positions, balance \in Nat] ==
        IF HasAt(p, Opening(e)) THEN end[p + Len(Opening(e)), balance + 1]
        ELSE IF HasAt(p, Closing(e))
             THEN IF balance = 1 THEN p + Len(Closing(e))
                                 ELSE end[p + Len(Closing(e)), balance - 1]
        ELSE IF Tok(p) = "eof" THEN 0 ELSE end[p + 1, balance]
  IN end[from, 1]

BlockComments(p, e) ==
  LET q == p + Len(e) + 2
  IN {r \in p + 1 .. Len(input) + 1 :
        HasAt(p, e \o <<"@", "%">>) /\
        \E n \in 0 .. Len(input) : OpensAt(q, n) /\ r = BlockEnd(Escape(q, n), q + n + 1)}

\* A line comment holds something and ends in a newline.
LineComments(p, e) ==
  LET q == p + Len(e) + 2
  IN {r \in q + 2 .. Len(input) + 1 :
        /\ HasAt(p, e \o <<"@", "%">>)
        /\ Tok(q) \notin {"|", "{"}
        /\ Tok(r - 1) = "nl" /\ \A k \in q .. r - 2 : Tok(k) # "nl"}

\* Where the comment that starts at p ends; empty if none does.
Comments(p, e) == BlockComments(p, e) \cup LineComments(p, e)

\* Where the white space that starts at p ends, and the same with comments.
Spaced(p) == {q \in p .. Len(input) + 1 :
                Tok(q) \notin Spaces /\ \A k \in p .. q - 1 : Tok(k) \in Spaces}
Skipped(p) ==
  LET skip[q \in Positions] ==
        IF Tok(q) \in Spaces THEN skip[q + 1]
        ELSE IF Comments(q, <<>>) # {} THEN skip[CHOOSE r \in Comments(q, <<>>) : TRUE]
        ELSE q
  IN {q \in p .. Len(input) + 1 : q = skip[p]}

\* A command at p, under the escape e: its name, if any, is at NameAt(p, e).
NameAt(p, e) == p + Len(e) + 1
\* Mutant: a command without a name is taken for text.
CommandAt_Named(p, e) == HasAt(p, Append(e, "@")) /\ Tok(NameAt(p, e)) \in {"word", "truly"}
CommandAt(p, e) == HasAt(p, Append(e, "@")) /\ Tok(NameAt(p, e)) \notin {"eof", "%", "|", "{"}
IsIdentifier(p) == Tok(p) \in {"word", "truly"}

\* Where the text that starts at p may end: generic_text.
Special == {"nl", "@", "%", "|", "{", "}"}
TextEnds(p) == {q \in p + 1 .. Len(input) + 1 :
                  /\ Tok(q) \in Special \cup {"eof"}
                  /\ \A k \in p + 1 .. q - 1 : Tok(k) \notin Special}

-----------------------------------------------------------------------------
(* The stack *)

SquareStages == {"start", "arg", "key", "value", "item", "last"}

\* A call of text: its escape, its brace balance, and for an argument where
\* the parser goes back to if it turns out to be none: the position and the
\* length of out before it.
TextFrames == [kind : {"root", "arg"}, escape : Seq(Tokens), balance : Nat,
               mark : Nat, kept : Nat]
\* A call of command_contents past its name: may square arguments follow?
CommandFrames == [kind : {"command"}, square : BOOLEAN]
\* A call of square_args: what may come next.
SquareFrames == [kind : {"square"}, stage : SquareStages]
Frames == TextFrames \cup CommandFrames \cup SquareFrames

Top   == Head(stack)
Below == Tail(stack)
Parses(kind) == status = "parsing" /\ Top.kind = kind
ParsesText   == Parses("root") \/ Parses("arg")

-----------------------------------------------------------------------------
(* The tree: text nodes with the positions of their tokens, commands,      *)
(* delimiters of arguments and entries of square arguments with their one. *)

Events == [kind : {"text", "command", "arg", "endArg", "square", "entry", "endSquare"},
           at : Seq(Nat)]
Event(kind, p) == [kind |-> kind, at |-> <<p>>]
Emit(kind, p) == Append(out, Event(kind, p))

IsNewline(at) == Len(at) = 1 /\ Tok(at[1]) = "nl"

\* Mutant: a newline is merged with the text before it.
Merges_Newlines(at) == out # <<>> /\ out[Len(out)].kind = "text"
\* add_to_contents: the last node takes the text in.
Merges(at) ==
  /\ out # <<>> /\ out[Len(out)].kind = "text"
  /\ ~IsNewline(out[Len(out)].at) /\ ~IsNewline(at)
AddText(at) ==
  IF Merges(at) THEN [out EXCEPT ![Len(out)].at = @ \o at]
                ELSE Append(out, [kind |-> "text", at |-> at])

-----------------------------------------------------------------------------
Init ==
  /\ input \in Inputs /\ debug \in Builds
  /\ pos = 1 /\ out = <<>> /\ status = "parsing"
  /\ stack = <<[kind |-> "root", escape |-> <<>>, balance |-> 1, mark |-> 1, kept |-> 0]>>

\* An expect, an assertion or a debug assertion fails.
Panic ==
  /\ status' = "panicked"
  /\ UNCHANGED <<input, debug, pos, stack, out>>

-----------------------------------------------------------------------------
(* text(): the loop *)

AtOpening == HasAt(pos, Opening(Top.escape))
AtClosing == HasAt(pos, Closing(Top.escape))
InContent == ParsesText /\ ~AtOpening /\ ~AtClosing /\ Tok(pos) # "eof"

\* A delimiter that belongs to the text.
Brace(bracket, balance) ==
  /\ pos' = pos + Len(bracket)
  /\ stack' = <<[Top EXCEPT !.balance = balance]>> \o Below
  /\ out' = AddText(Span(pos, pos + Len(bracket)))
  /\ UNCHANGED <<input, debug, status>>

\* Mutant: the text goes on at a balance of zero.
IsInner_Zero(balance) == balance - 1 >= 0
IsInner(balance) == balance - 1 > 0

OpenBrace == ParsesText /\ AtOpening /\ Brace(Opening(Top.escape), Top.balance + 1)

CloseBrace ==
  /\ ParsesText /\ AtClosing
  /\ IsInner(Top.balance)
  /\ Brace(Closing(Top.escape), Top.balance - 1)

\* curly_argument: the text of the argument, and with it the argument, ends.
EndArgument ==
  /\ Parses("arg") /\ AtClosing /\ ~IsInner(Top.balance)
  /\ pos' = pos + Len(Closing(Top.escape))
  /\ stack' = Below
  /\ out' = Emit("endArg", pos)
  /\ UNCHANGED <<input, debug, status>>

\* parse_root: the text must not end before the input does.
ExtraBrace == Parses("root") /\ AtClosing /\ ~IsInner(Top.balance) /\ Panic

NewlineNode ==
  /\ InContent /\ Tok(pos) = "nl"
  /\ pos' = pos + 1
  /\ out' = AddText(Span(pos, pos + 1))
  /\ UNCHANGED <<input, debug, stack, status>>

\* A comment leaves no node.
Comment ==
  /\ InContent
  /\ \E q \in Comments(pos, Top.escape) : pos' = q
  /\ UNCHANGED <<input, debug, stack, out, status>>

\* command, called by the frames below: past the "@", a command that is
\* malformed is no text but an error.
StartCommand(name, callers) ==
  \/ /\ IsIdentifier(name)
     /\ pos' = name + 1
     /\ stack' = <<[kind |-> "command", square |-> TRUE]>> \o callers
     /\ out' = Emit("command", name)
     /\ UNCHANGED <<input, debug, status>>
  \/ ~IsIdentifier(name) /\ Panic

TextCommand ==
  /\ InContent
  /\ CommandAt(pos, Top.escape)
  /\ StartCommand(NameAt(pos, Top.escape), stack)

GenericText ==
  /\ InContent /\ Tok(pos) # "nl"
  /\ Comments(pos, Top.escape) = {} /\ ~CommandAt(pos, Top.escape)
  /\ \E q \in TextEnds(pos) : pos' = q /\ out' = AddText(Span(pos, q))
  /\ UNCHANGED <<input, debug, stack, status>>

\* Mutant: a release build forgets the balance, and so does a debug build.
RootMayEnd_Always(balance) == TRUE
RootMayEnd(balance) == debug => balance = 1

EndOfFile ==
  /\ Parses("root") /\ Tok(pos) = "eof"
  /\ \/ /\ RootMayEnd(Top.balance)
        /\ status' = "done"
        /\ UNCHANGED <<input, debug, pos, stack, out>>
     \/ ~RootMayEnd(Top.balance) /\ Panic

\* Mutants: the nodes of the argument stay; so does the position; the
\* command is tried again.
Retracted_Not == out
Resumed_Not == pos
Callers_Again == Below

\* What many0 has after an argument that failed: nothing of it was consumed,
\* and the command ends before it.
Retracted == SubSeq(out, 1, Top.kept)
Resumed == Top.mark
Callers == Tail(Below)

\* The file ends within an argument.  Without debug assertions the closing
\* bracket is missed in curly_argument, whose failure only ends the command.
UnclosedArgument ==
  /\ Parses("arg") /\ Tok(pos) = "eof"
  /\ \/ debug /\ Panic
     \/ /\ ~debug
        /\ pos' = Resumed /\ out' = Retracted /\ stack' = Callers
        /\ UNCHANGED <<input, debug, status>>

-----------------------------------------------------------------------------
(* command_contents: what follows the name.  p is where the white space    *)
(* and the comments end; they are consumed only if something follows.      *)

Semicolon(p) ==
  /\ Tok(p) = ";"
  /\ pos' = p + 1
  /\ stack' = Below
  /\ UNCHANGED <<input, debug, out, status>>

\* Square arguments come first, and once.
PastSquare == <<[Top EXCEPT !.square = FALSE]>> \o Below

StartSquare(p) ==
  /\ Top.square /\ Tok(p) = "["
  /\ pos' = p + 1
  /\ stack' = <<[kind |-> "square", stage |-> "start"]>> \o PastSquare
  /\ out' = Emit("square", p)
  /\ UNCHANGED <<input, debug, status>>

StartArgument(p, n) ==
  /\ OpensAt(p, n)
  /\ pos' = p + n + 1
  /\ stack' = <<[kind |-> "arg", escape |-> Escape(p, n), balance |-> 1,
                 mark |-> pos, kept |-> Len(out)]>> \o PastSquare
  /\ out' = Emit("arg", p)
  /\ UNCHANGED <<input, debug, status>>

EndCommand(p) ==
  /\ Tok(p) # ";" /\ ~(Top.square /\ Tok(p) = "[")
  /\ \A n \in 0 .. Len(input) : ~OpensAt(p, n)
  /\ stack' = Below
  /\ UNCHANGED <<input, debug, pos, out, status>>

CommandPart ==
  /\ Parses("command")
  /\ \E p \in Skipped(pos) :
       \/ Semicolon(p)
       \/ StartSquare(p)
       \/ \E n \in 0 .. Len(input) : StartArgument(p, n)
       \/ EndCommand(p)

-----------------------------------------------------------------------------
(* square_args: separated_list0 of entries and pairs of them, a comma that *)
(* may follow, and the bracket; p is where the white space ends.           *)

Moved(stage) == <<[Top EXCEPT !.stage = stage]>> \o Below
Consume(p, stage) ==
  /\ pos' = p + 1
  /\ stack' = Moved(stage)
  /\ UNCHANGED <<input, debug, status>>

TakesEntry == Top.stage \in {"start", "arg", "value"}
AfterEntry == IF Top.stage = "value" THEN "item" ELSE "key"

SimpleEntry(p) ==
  /\ TakesEntry /\ Tok(p) \in {"word", "true"}
  /\ Consume(p, AfterEntry)
  /\ out' = Emit("entry", p)

CommandEntry(p) ==
  /\ TakesEntry /\ CommandAt(p, <<>>)
  /\ StartCommand(NameAt(p, <<>>), Moved(AfterEntry))

Equals(p) ==
  /\ Top.stage = "key" /\ Tok(p) = "="
  /\ Consume(p, "value") /\ UNCHANGED out

Comma(p) ==
  /\ Top.stage \in {"start", "key", "item"} /\ Tok(p) = ","
  /\ Consume(p, IF Top.stage = "start" THEN "last" ELSE "arg") /\ UNCHANGED out

\* White space alone is not an empty list.
MayEnd(p) == Tok(p) = "]" /\ Top.stage # "value" /\ (Top.stage = "start" => p = pos)

EndSquare(p) ==
  /\ MayEnd(p)
  /\ pos' = p + 1
  /\ stack' = Below
  /\ out' = Emit("endSquare", p)
  /\ UNCHANGED <<input, debug, status>>

\* Anything else makes the command malformed: an entry or the bracket is
\* missing, or "truly" is read as "true" with something after it.
Malformed(p) ==
  /\ TakesEntry => Tok(p) \notin {"word", "true"} /\ ~CommandAt(p, <<>>)
  /\ ~(Top.stage = "key" /\ Tok(p) = "=")
  /\ ~(Top.stage \in {"start", "key", "item"} /\ Tok(p) = ",")
  /\ ~MayEnd(p)
  /\ Panic

SquarePart ==
  /\ Parses("square")
  /\ \E p \in Spaced(pos) :
       SimpleEntry(p) \/ CommandEntry(p) \/ Equals(p) \/ Comma(p) \/ EndSquare(p) \/ Malformed(p)

-----------------------------------------------------------------------------
TextPart ==
  \/ OpenBrace \/ CloseBrace \/ EndArgument \/ ExtraBrace
  \/ NewlineNode \/ Comment \/ TextCommand \/ GenericText
  \/ EndOfFile \/ UnclosedArgument

\* parse has returned, or the panic reached the caller.
Stopped == status # "parsing" /\ UNCHANGED vars

Next == TextPart \/ CommandPart \/ SquarePart \/ Stopped

Spec == Init /\ [][Next]_vars
\* The parser runs by itself, without waiting for anything.
FairSpec == Spec /\ WF_vars(Next)

-----------------------------------------------------------------------------
TypeOK ==
  /\ input \in Seq(Tokens) /\ debug \in BOOLEAN
  /\ pos \in Positions
  /\ stack \in Seq(Frames) /\ stack # <<>>
  /\ \A i \in 1 .. Len(stack) : stack[i].kind \in {"root", "arg"} => stack[i].balance > 0
  /\ out \in Seq(Events)
  /\ status \in {"parsing", "done", "panicked"}

\* The tree has the text of the source, each token at most once and in the
\* order of the source, also after an argument without an end was given up
\* and its tokens were parsed once more.  When the parser returns, the tree
\* has every word that no comment holds.
InOrder ==
  /\ \A i \in 1 .. Len(out) : \A k \in 1 .. Len(out[i].at) :
       /\ out[i].at[k] < pos
       /\ k > 1 => out[i].at[k - 1] < out[i].at[k]
  /\ \A i, j \in 1 .. Len(out) : i < j =>
       \A p \in {out[i].at[k] : k \in 1 .. Len(out[i].at)},
          q \in {out[j].at[k] : k \in 1 .. Len(out[j].at)} : p < q

InTree(p) == \E i \in 1 .. Len(out) : \E k \in 1 .. Len(out[i].at) : out[i].at[k] = p
InComment(p) ==
  \E i, j \in 1 .. p : \E q \in Comments(i, SubSeq(input, i, j - 1)) : i <= j /\ j <= p /\ p < q

SourceInTree ==
  /\ InOrder
  /\ status = "done" =>
       \A p \in 1 .. Len(input) : Tok(p) \in Words => InTree(p) \/ InComment(p)

\* The text nodes are what the middle pass counts on: a newline is a node of
\* its own, and any other text is one node from one newline, command or
\* argument to the next, however many comments and pieces it was made from.
TextNodesMaximal ==
  \A i \in 1 .. Len(out) : out[i].kind = "text" =>
    /\ IsNewline(out[i].at) \/ \A k \in 1 .. Len(out[i].at) : Tok(out[i].at[k]) # "nl"
    /\ i > 1 /\ out[i - 1].kind = "text" => IsNewline(out[i - 1].at) \/ IsNewline(out[i].at)

\* parse.rs:376-377: a command that fails to match is never treated as text.
\* Where no escape is in force, an "@" is text only before what no command
\* can start with.
CommandsAreNotText ==
  (\A p \in 1 .. Len(input) : Tok(p) # "|") =>
    \A i \in 1 .. Len(out) : out[i].kind = "text" =>
      \A k \in 1 .. Len(out[i].at) :
        Tok(out[i].at[k]) = "@" => Tok(out[i].at[k] + 1) \in {"%", "{", "eof"}

Plain == \A p \in 1 .. Len(input) : Tok(p) \notin {"|", "%"}
Opened(p) == {q \in 1 .. p : Tok(q) = "{"}
Closed(p) == {q \in 1 .. p : Tok(q) = "}"}

\* A file that is accepted closes no bracket that it has not opened, and by a
\* debug build also closes every bracket; escapes and comments apart, where
\* brackets need not match.
BracketsMatch ==
  status = "done" /\ Plain =>
    /\ \A p \in 1 .. Len(input) : Cardinality(Closed(p)) <= Cardinality(Opened(p))
    /\ debug => Cardinality(Closed(Len(input))) = Cardinality(Opened(Len(input)))

\* The parser returns or panics on every input: going back to an argument
\* without an end never makes it start on the same argument again.
Terminates == <>(status # "parsing")
=============================================================================
