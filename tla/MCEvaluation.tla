---------------------------- MODULE MCEvaluation ----------------------------
(* std::core and two modules whose commands share a name.                   *)
EXTENDS Evaluation

CONSTANTS Absolute        \* whether documents use absolute identifiers

ModuleExports ==
  [m \in Modules |-> CASE m = "core" -> DefaultUse
                       [] m = "main" -> {"b", "i"}
                       [] OTHER -> {"b"}]

Id(path, name) == [absolute |-> FALSE, path |-> path, name |-> name]

Relative ==
  {Id(<<>>, "b"), Id(<<>>, "main"), Id(<<"main">>, "b"), Id(<<"ext">>, "b"),
   Id(<<"main", "super">>, "b"), Id(<<"super">>, "b")}
  \cup {Id(<<>>, c) : c \in {"__require", "__using", "__using_all"}}

Ids == Relative \cup (IF Absolute THEN {[id EXCEPT !.absolute = TRUE] : id \in Relative} ELSE {})
=============================================================================
