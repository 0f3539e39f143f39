------------------------------ MODULE Identifiers ------------------------------
(***************************************************************************)
(* internal/identifier.ts: parseIdentifier, a loop over the characters of  *)
(* a name, as its callers use it: with a name of a document, or, in        *)
(* UsingCommand, with two of them and a colon between.  A text is a        *)
(* sequence of characters; a single colon divides, two are one piece of    *)
(* a name ("std::main").                                                   *)
(***************************************************************************)
EXTENDS Integers, Sequences, FiniteSets

CONSTANTS
  Texts,         \* the names in documents
  Letters,       \* what they consist of, but for colons
  None,          \* the argument from is not given; nothing is returned yet
  Thrown         \* an exception

Colon == ":"
Chars == Letters \cup {Colon}

ASSUME TextsAssumption == Texts \subseteq Seq(Chars)
ASSUME LettersAssumption == Colon \notin Letters /\ "end" \notin Chars
ASSUME NoneAssumption == None \notin Texts /\ Thrown # None

VARIABLES
  from, thing,          \* the arguments of the command
  i, acc, parts,        \* of the loop; i counts from 1
  result                \* None until parseIdentifier returns or throws

vars == <<from, thing, i, acc, parts, result>>

\* Mutant: the colon between the two is forgotten.
Joined_NoColon == IF from = None THEN thing ELSE from \o thing
\* What UsingCommand, and the others without a "from", give to parseIdentifier.
Joined == IF from = None THEN thing ELSE from \o <<Colon>> \o thing

At(p) == IF p \in 1 .. Len(Joined) THEN Joined[p] ELSE "end"

-----------------------------------------------------------------------------
Init ==
  /\ from \in Texts \cup {None} /\ thing \in Texts
  /\ i = 1 /\ acc = <<>> /\ parts = <<>>
  /\ result = None

Running == result = None /\ Joined # <<>>

\* assert(idStr !== "")
Refuse ==
  /\ result = None /\ Joined = <<>>
  /\ result' = Thrown
  /\ UNCHANGED <<from, thing, i, acc, parts>>

\* Mutant: the colon before is looked at.
Divides_Before(p) == At(p) = Colon /\ At(p - 1) # Colon
\* A colon with none behind it, given that the ones before it are consumed.
Divides(p) == At(p) = Colon /\ At(p + 1) # Colon

\* Mutant: only the first of the two is consumed.
PastPair_One(p) == p + 1
PastPair(p) == p + 2

DoubleColon ==
  /\ Running /\ At(i) = Colon /\ ~Divides(i)
  /\ acc' = acc \o <<Colon, Colon>>
  /\ i' = PastPair(i)
  /\ UNCHANGED <<from, thing, parts, result>>

SingleColon ==
  /\ Running /\ Divides(i)
  /\ parts' = Append(parts, acc)
  /\ acc' = <<>>
  /\ i' = i + 1
  /\ UNCHANGED <<from, thing, result>>

Letter ==
  /\ Running /\ At(i) \in Letters
  /\ acc' = Append(acc, At(i))
  /\ i' = i + 1
  /\ UNCHANGED <<from, thing, parts, result>>

\* A last part that is empty is left out; an empty first one makes the
\* identifier absolute, unless it is the name.
IsAbsolute(path) == path # <<>> /\ path[1] = <<>>
Identifier(all) ==
  LET path == SubSeq(all, 1, Len(all) - 1)
  IN [absolute |-> IsAbsolute(path),
      path |-> IF IsAbsolute(path) THEN Tail(path) ELSE path,
      name |-> all[Len(all)]]
AllParts == IF acc # <<>> THEN Append(parts, acc) ELSE parts

\* The loop is over.  There is always a name: the error for identifiers
\* without one is never thrown.
Return ==
  /\ Running /\ At(i) = "end"
  /\ result' = IF AllParts = <<>> THEN Thrown ELSE Identifier(AllParts)
  /\ UNCHANGED <<from, thing, i, acc, parts>>

Finished == result # None /\ UNCHANGED vars

Next == Refuse \/ DoubleColon \/ SingleColon \/ Letter \/ Return \/ Finished

Spec == Init /\ [][Next]_vars

-----------------------------------------------------------------------------
(* What an identifier means, said without a loop: the pieces between the   *)
(* colons that divide, which are the last ones of the runs of odd length.  *)

OddRunEnds(s, p) ==
  /\ s[p] = Colon
  /\ p < Len(s) => s[p + 1] # Colon
  /\ \E n \in 0 .. Len(s) : /\ 2 * n < p
                            /\ \A k \in p - 2 * n .. p : s[k] = Colon
                            /\ p - 2 * n > 1 => s[p - 2 * n - 1] # Colon
Cuts(s) == {p \in 1 .. Len(s) : OddRunEnds(s, p)}

\* The last cut before position p, and the k-th cut from the left.
LastCut(s, p) == CHOOSE c \in Cuts(s) \cup {0} :
                   c < p /\ \A d \in Cuts(s) : d < p => d <= c
NthCut(s, k)  == CHOOSE c \in Cuts(s) : Cardinality({d \in Cuts(s) : d <= c}) = k

\* The piece of s that ends before position p.
Piece(s, p) == SubSeq(s, 1 + LastCut(s, p), p - 1)
Pieces(s) ==
  LET cuts == [k \in 1 .. Cardinality(Cuts(s)) |-> Piece(s, NthCut(s, k))]
      rest == Piece(s, Len(s) + 1)
  IN IF rest = <<>> THEN cuts ELSE Append(cuts, rest)
Meaning(s) == Identifier(Pieces(s))

\* An identifier is divided at every colon that a "::" does not hold, from
\* the left, and nowhere else.
DividedAtSingleColons ==
  result # None /\ Joined # <<>> => result = Meaning(Joined)

\* core.ts:97-101: where the colon that joins the two stands alone,
\* "__using[thing, from=ns]" looks up in the namespace that ns names what
\* thing names; an absolute ns stays absolute.
UsingNamesThing ==
  /\ result # None /\ from # None
  /\ from # <<>> /\ from[Len(from)] # Colon
  /\ thing # <<>> /\ thing[1] # Colon
  => LET ns == Meaning(from)
         id == Meaning(thing)
     IN result = [absolute |-> ns.absolute,
                  path |-> Append(ns.path, ns.name) \o id.path,
                  name |-> id.name]

\* The loop looks one character ahead and never back, and yet it divides an
\* identifier at a colon it passes exactly if that ends a run of odd length.
DividesExactly ==
  [][ \A p \in i .. i' - 1 : OddRunEnds(Joined, p) <=> parts' # parts ]_vars

TypeOK ==
  /\ from \in Seq(Chars) \cup {None} /\ thing \in Seq(Chars)
  /\ i \in 1 .. Len(Joined) + 1
  /\ acc \in Seq(Chars) /\ parts \in Seq(Seq(Chars))
  /\ result \in [absolute : BOOLEAN, path : Seq(Seq(Chars)), name : Seq(Chars)]
                \cup {None, Thrown}
=============================================================================
