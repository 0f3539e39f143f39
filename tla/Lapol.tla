-------------------------------- MODULE Lapol --------------------------------
(***************************************************************************)
(* The whole program as a user of the library sees it: a builder loads     *)
(* modules into a registry, and the compiler it yields renders files with  *)
(* whatever that registry holds at the moment each file is compiled.       *)
(***************************************************************************)
EXTENDS ModuleLoading

CONSTANTS
  Main,                                                  \* declaration of std::main
  Renders, Paths, Dirs, DirOf, Keys, Normal, PathOf, Code, OutOf, CodeOf, RenderTarget, Requires,
  BadInputs, Strings, Roots, Needs, Busy, FaultyIO, Absent, Torn   \* of Rendering

ASSUME MainAssumption == Main \in Top

VARIABLES stage, storage, phase, dirs, file, session     \* of Rendering

R == INSTANCE Rendering WITH
       TargetOf <- RenderTarget,
       modules  <- {Name(l) : l \in registry}

\* What Rendering asks of its constants, of these; and that every module is
\* known to export string outputters or not.
ASSUME RenderingAssumption ==
  /\ R!PathsAssumption /\ R!RequiresAssumption /\ R!FaultsAssumption
  /\ Names \subseteq DOMAIN Strings

renderVars == <<stage, storage, phase, dirs, file, session>>
lapolVars  == <<vars, renderVars>>

LapolInit == Init /\ R!Init

\* Code that holds a LapolCompiler calls render().
Render(r) ==
  /\ \E b \in Builds : build[b] = "resolved"
  /\ UNCHANGED vars
  /\ R!Render(r)

\* Callbacks of I/O run between microtasks, never among them.
RenderIO(r) ==
  /\ queue = <<>>
  /\ UNCHANGED vars
  /\ R!IO(r)

Load == Next /\ UNCHANGED renderVars

LapolNext == Load \/ \E r \in Renders : Render(r) \/ RenderIO(r)

LapolSpec == LapolInit /\ [][LapolNext]_lapolVars

-----------------------------------------------------------------------------
Compiled(r) == storage[r] # {}

\* FileContext.make saw the whole registry: no module that a load of the
\* builder registers is missing from the storages of a file.
\* fileContext.ts:18-19 asks for it of every program; it holds as long as no
\* submodule's loader awaits anything.
FileContextComplete ==
  \A r \in Renders : Compiled(r) =>
    \A l \in registry : Name(l) \in storage[r]

For(f, t, r) == {m \in storage[r] : t \in f[m]}

\* A compiler built with std::main and a target can output files for that
\* target: although nobody awaits the submodules that hold the outputters,
\* they are registered, each once, before any file is compiled.
RequestedTargetsReady ==
  \A r \in Renders :
    LET t == RenderTarget[r]
    IN Compiled(r) /\ t \in targets /\ NameOf[Main] \in storage[r] =>
         /\ Cardinality(For(Strings, t, r)) = 1
         /\ Cardinality(For(Roots, t, r)) = 1
         /\ Needs[t] \subseteq storage[r]

-----------------------------------------------------------------------------
(* When the two properties hold, for every instance                        *)

\* Only one build() of the builder gets as far as loading modules.
OneBuildLoads == \A b, c \in Builds : members[b] # {} /\ members[c] # {} => b = c

\* Only loaders of modules given to withModule await I/O.
SubmodulesDoNotWait == \A d \in Suspending : ParentOf[d] = 0

\* Module p has one submodule for each target t, declared if t is requested, that
\* neither awaits nor throws and is the only module to provide its exports for t.
OutputsIn(Provided, p) ==
  \A t \in Targets : \E d \in Decls \ (Faulty \cup Suspending) :
    /\ ParentOf[d] = p /\ TargetOf[d] = {t}
    /\ \A e \in Decls : t \in Provided[NameOf[e]] <=> e = d

\* std::core holds the outputters of __root, std::main the string outputters,
\* and no other module is called std::main.
StandardLibrary ==
  /\ OutputsIn(Strings, Main) /\ OutputsIn(Roots, Core)
  /\ \A d \in Decls : NameOf[d] = NameOf[Main] => d = Main
  /\ \A t \in Targets : Needs[t] \subseteq {NameOf[Core], NameOf[Main]}

SomeResolved == \E b \in Builds : build[b] = "resolved"

\* Files are read and compiled on behalf of a compiler that was handed out.
CalledInv ==
  /\ DOMAIN stage = Renders /\ DOMAIN storage = Renders
  /\ \A r \in Renders : stage[r] = "reading" \/ Compiled(r) => SomeResolved

\* Once a file has been compiled nothing is left of the loads that its file
\* context could miss.
CompiledInv ==
  \A r \in Renders : Compiled(r) =>
    /\ queue = <<>> /\ io = {}
    /\ storage[r] = {Name(l) : l \in registry}
=============================================================================
