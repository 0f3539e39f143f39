------------------------------- MODULE MCParser -------------------------------
(* Texts of up to five tokens over the alphabets of arguments, comments and *)
(* square arguments, and longer ones that start a command first, so that    *)
(* escapes, nested arguments and the places between the parts of a command  *)
(* are reached.                                                             *)
EXTENDS Parser

UpTo(n, alphabet) == UNION {[1 .. k -> alphabet] : k \in 0 .. n}
Lexed(s) == \A i \in 1 .. Len(s) - 1 : ~(s[i] \in Words /\ s[i + 1] \in Words)
After(prefix, n, alphabet) == {t \in {prefix \o s : s \in UpTo(n, alphabet)} : Lexed(t)}

Command == <<"@", "word">>

Texts ==
  After(<<>>, 5, {"word", "@", "{", "}", "nl"})
  \cup After(<<>>, 5, {"word", "@", "%", "nl", "{", "}"})
  \cup After(<<"@", "%">>, 4, {"word", "nl", "{", "}", "|", "@", "%"})
  \cup After(Command \o <<"{", "@", "%">>, 5, {"word", "nl", "{", "}"})
  \cup After(Command \o <<"@", "%">>, 4, {"word", "nl", "{", "}", ";"})
  \cup After(Command \o <<"{">>, 5, {"word", "@", "{", "}"})
  \cup After(Command, 4, {"word", "sp", "@", "%", "{", "}", "nl", ";", "["})
  \cup After(Command \o <<"|", "{">>, 4, {"word", "|", "@", "%", "{", "}"})
  \cup After(Command \o <<"|", "<", "{", "|">>, 4, {"word", "<", "@", "{", "}", ">", "|"})
  \cup After(Command \o <<"[">>, 4, {"word", "true", "truly", "sp", ",", "=", "]", "@"})
  \cup After(Command \o <<"[">> \o Command, 4, {"word", "sp", "{", "}", ",", "=", "]"})
=============================================================================
