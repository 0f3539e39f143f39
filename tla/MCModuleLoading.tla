-------------------------- MODULE MCModuleLoading --------------------------
(* Small instances of ModuleLoading.                                       *)
EXTENDS ModuleLoading

\* 1 std::core, 2 its html submodule, 3 std::main, 4 its html submodule,
\* 5 and 7 submodules of 4 under one name, 6 a plugin. The loaders of 5 and 6
\* may read a file.
TreeDecls      == 1 .. 7
TreeParentOf   == <<0, 1, 0, 3, 4, 0, 4>>
TreeNameOf     == <<"core", "core::html", "main", "main::html", "main::html::x",
                    "plugin", "main::html::x">>
TreeTargetOf   == <<{}, {"html"}, {}, {"html"}, {}, {}, {}>>
=============================================================================
