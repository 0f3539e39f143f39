------------------------------- MODULE MCLapol -------------------------------
(* The standard modules, and a plugin with a submodule of its own.          *)
EXTENDS Lapol

CONSTANTS r1, r2

\* 1 std::core, 2 and 3 its outputs; 4 std::main, 5 and 6 its outputs;
\* 7 a plugin, 8 its submodule.
LibDecls    == 1 .. 8
LibParentOf == <<0, 1, 1, 0, 4, 4, 0, 7>>
LibNameOf   == <<"core", "core::html", "core::latex", "main", "main::html",
                 "main::latex", "plugin", "plugin::sub">>
LibTargetOf == <<{}, {"html"}, {"latex"}, {}, {"html"}, {"latex"}, {}, {}>>

LibNames == {LibNameOf[d] : d \in LibDecls}
StringsOf == [m \in LibNames |-> CASE m = "main::html" -> {"html"}
                                [] m = "main::latex" -> {"latex"}
                                [] OTHER -> {}]
RootsOf == [m \in LibNames |-> CASE m = "core::html" -> {"html"}
                              [] m = "core::latex" -> {"latex"}
                              [] OTHER -> {}]
NeedsOf == [t \in {"html", "latex"} |-> IF t = "latex" THEN {"main"} ELSE {}]

OutPaths == [r \in Renders |-> IF r = r1 THEN "a" ELSE "b"]
RenderTargets == [r \in Renders |-> IF r = r1 THEN "html" ELSE "latex"]
OnePath == [p \in {"a", "b"} |-> "out"]
NoRequirement == [r \in Renders |-> {}]
NoKey == [k \in {} |-> "a"]

\* What ModuleLoadingProofs assumes of the standard modules where it proves
\* OutputtersAreInPlace.
ASSUME LibraryAssumption == StandardLibrary
=============================================================================
