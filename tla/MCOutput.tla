------------------------------- MODULE MCOutput -------------------------------
(* The standard modules with the outputters they export, and a plugin that    *)
(* brings a tag of its own, strings of its own and a second look for bold.    *)
EXTENDS OutputMeaning

O(mod, target_, tag, kind) == [mod |-> mod, target |-> target_, tag |-> tag, kind |-> kind]

StdOutputters ==
  {O("core::html", "html", "__root", "htmlRoot"), O("core::html", "html", "__doc", "htmlTag"),
   O("core::latex", "latex", "__root", "latexRoot"), O("core::latex", "latex", "__doc", "wrap"),
   O("main::html", "html", "maketitle", "htmlTitle"), O("main::html", "html", "bold", "htmlTag"),
   O("main::latex", "latex", "maketitle", "bare"), O("main::latex", "latex", "bold", "wrap"),
   O("plugin", "html", "note", "themed"), O("plugin", "latex", "note", "wrap"),
   O("bolder", "html", "bold", "htmlTag"), O("strings", "html", "maketitle", "wrap")}

StdProviders ==
  {[mod |-> "main::html", target |-> "html"], [mod |-> "main::latex", target |-> "latex"],
   [mod |-> "strings", target |-> "latex"], [mod |-> "strings", target |-> "html"]}

Required(src, as) == [src |-> src, as |-> as]
StdRequires ==
  [kind \in {"htmlRoot", "htmlTag", "htmlTitle", "latexRoot", "wrap", "bare", "themed"} |->
     CASE kind = "htmlRoot" -> {Required("all.css", "./deps/all.css"), Required("lapol.css", "./deps/lapol.css")}
       [] kind = "latexRoot" -> {Required("article.cls", "./deps/article.cls")}
       [] kind = "themed" -> {Required("mine.css", "deps/lapol.css")}
       [] OTHER -> {}]
StdNormal ==
  [s \in {"./deps/all.css", "./deps/lapol.css", "deps/lapol.css", "./deps/article.cls"} |->
     CASE s = "./deps/all.css" -> "deps/all.css"
       [] s = "./deps/article.cls" -> "deps/article.cls"
       [] OTHER -> "deps/lapol.css"]

Standard == {"core::html", "core::latex", "main", "main::html", "main::latex"}
StdRegistries == {Standard, Standard \cup {"plugin"}, (Standard \ {"main", "main::html", "main::latex"}) \cup {"strings"}}

a == Str(Word("a"))
b == Str(Word("b"))
Maketitle == Node("maketitle", <<>>)
AllObjects == {a, b, Maketitle} \cup {Node(tag, <<o>>) : tag \in {"bold", "note"}, o \in {a, b}}
DocElements == {a, Node("bold", <<b>>), Maketitle, Node("note", <<a>>)}
TitleContents == {<<b, Node("bold", <<a>>)>>, <<Maketitle>>}
===============================================================================
