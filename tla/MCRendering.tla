----------------------------- MODULE MCRendering -----------------------------
(* Renders into one folder: all share a stylesheet, which r3 requires under *)
(* two keys that are one file; r3 writes its own output onto the path of    *)
(* r1; and r4 requires two sources for one key.                             *)
EXTENDS Rendering

CONSTANTS r1, r2, r3, r4

PathsOf == {"a.html", "b.html", "x.css"}
DirOfPath == [p \in PathsOf |-> IF p = "x.css" THEN "deps" ELSE "."]
KeysOf == {"deps/x.css", "deps/x.css/"}
NormalOf == [s \in {"./deps/x.css"} \cup KeysOf |->
               IF s = "./deps/x.css" THEN "deps/x.css" ELSE s]
PathOfKey == [k \in KeysOf |-> "x.css"]

OutPaths == [r \in Renders |-> IF r \in {r1, r3} THEN "a.html" ELSE "b.html"]
Codes    == [r \in Renders |-> IF r = r1 THEN "A" ELSE "B"]
Targets  == [r \in Renders |-> "html"]
Needed(as, src) == [src |-> src, as |-> as]
Requirements == [r \in Renders |->
  CASE r \in {r1, r2} -> {Needed("./deps/x.css", "X")}
    [] r = r3 -> {Needed("./deps/x.css", "X"), Needed("deps/x.css/", "X")}
    [] r = r4 -> {Needed("./deps/x.css", "X"), Needed("deps/x.css", "Y")}]

StringsOf == [m \in {"core::html", "main::html", "plugin"} |->
                IF m = "core::html" THEN {} ELSE {"html"}]
RootsOf == [m \in DOMAIN StringsOf |-> IF m = "core::html" THEN {"html"} ELSE {}]
NeedsOf == [t \in {"html"} |-> {}]
=============================================================================
