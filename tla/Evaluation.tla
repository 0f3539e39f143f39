------------------------------ MODULE Evaluation ------------------------------
(***************************************************************************)
(* The evaluator (internal/evaluate, internal/namespace.ts, std/core.ts):  *)
(* it walks the AST of one file after another and calls the commands it    *)
(* meets.  A command is looked up before its arguments are evaluated and   *)
(* called after, and the commands in those arguments may change the        *)
(* namespace in between.  The document is whatever sequence of commands    *)
(* the actions choose; text evaluates to itself and is left out.           *)
(***************************************************************************)
EXTENDS Naturals, Sequences, FiniteSets, SequencesExt

CONSTANTS
  Modules,        \* names in the registry
  Core,           \* "std::core"
  Root,           \* the root namespace of the file being evaluated
  Exports,        \* module -> names of the commands it exports
  Super,          \* "super"
  Identifiers,    \* parsed identifiers that documents use
  Required,       \* module names that documents require
  Aliases, PrefixIns,
  MaxFiles, MaxCalls, MaxDepth        \* bounds of the documents

ASSUME ModulesAssumption ==
  /\ Root \notin Modules
  /\ Exports \in [Modules -> SUBSET STRING]
ASSUME IdentifiersAssumption ==
  Identifiers \subseteq [absolute : BOOLEAN, path : Seq(STRING), name : STRING]
\* A prefix keeps names apart.
ASSUME PrefixAssumption ==
  \A prefix \in PrefixIns, m \in Modules :
    \A a, b \in Exports[m] : prefix \o a = prefix \o b => a = b
ASSUME BoundsAssumption == MaxFiles \in Nat /\ MaxCalls \in Nat /\ MaxDepth \in Nat

VARIABLES
  state,          \* of the current file: "idle", "running", "failed", "done"
  children,       \* namespace -> name -> thing; the modules' are shared by files
  parent,         \* namespace -> its parent namespace, or Undefined
  loaded,         \* Environment.loadedModules
  stack,          \* commands whose arguments are being evaluated
  last,           \* what the last call of a core command did
  files, calls    \* counted for the bounds

env == <<children, parent, loaded>>
vars == <<state, env, stack, last, files, calls>>

-----------------------------------------------------------------------------
Item(m, c) == [kind |-> "item", of |-> m, name |-> c]
Ns(m) == [kind |-> "namespace", of |-> m]
Undefined == [kind |-> "undefined"]
Thrown == [kind |-> "thrown"]
\* Mutant: the result of the lookup is not compared with undefined.
Exists_NotThrown(t) == t.kind # "thrown"
Exists(t) == t.kind \in {"item", "namespace"}

\* DEFAULT_USE_FROM_CORE
DefaultUse == {"__doc", "__require", "__using", "__using_all"}
ASSUME CoreAssumption == Core \in Modules => DefaultUse \subseteq Exports[Core]
NoCall == [op |-> "none", name |-> Root, thing |-> Undefined]

Get(ns, n) == IF n \in DOMAIN children[ns] THEN children[ns][n] ELSE Undefined

\* One component of a path; what is not a namespace leads nowhere (a throw).
Into(t, sub) ==
  IF t.kind # "namespace" THEN Undefined
  ELSE IF sub = Super THEN parent[t.of] ELSE Get(t.of, sub)
\* The things on the way that a path leads, the root first.
Way(path) ==
  LET at[i \in 0 .. Len(path)] == IF i = 0 THEN Ns(Root) ELSE Into(at[i - 1], path[i])
  IN at
Reached(path) == Way(path)[Len(path)]

\* Namespace.lookup, from the root: behind a path only items are found, and
\* no namespace but the root resolves an absolute identifier.
Lookup(id) ==
  LET at == Reached(id.path)
      found == IF at.kind = "namespace" THEN Get(at.of, id.name) ELSE Thrown
  IN IF id.path # <<>> /\ (id.absolute \/ found.kind = "namespace") THEN Thrown ELSE found
LookupItem(id) == IF Lookup(id).kind = "namespace" THEN Thrown ELSE Lookup(id)

-----------------------------------------------------------------------------
(* Writes to the root namespace; each asserts that the name is free.        *)
\* Mutant: the name may be bound already.
Free_Overriding(n) == n # Super
Free(n) == n \notin DOMAIN children[Root] /\ n # Super

WithBindings(new) ==
  [children EXCEPT ![Root] = [n \in DOMAIN @ \cup DOMAIN new |->
                                IF n \in DOMAIN new THEN new[n] ELSE @[n]]]

\* addUsing; the namespace of a module has no parent, so none can be bound.
CanUse(n, t) == Free(n) /\ (t.kind = "namespace" => parent[t.of] # Undefined)

\* Mutant: addChildNamespace, which sets the child's parent.
AddChild_AsNamespace(m) == [ok |-> Free(m) /\ parent[m] = Undefined, parent |-> Ns(Root)]
\* rootAddChildNamespace: whether its assertions hold and the parent it leaves
\* the module with.  Root is no parent: other files share the namespace.
AddChild(m) == [ok |-> Free(m), parent |-> parent[m]]

\* Mutant: names that are bound already are skipped.
Imported_SkipsBound(from, prefix) ==
  [n \in {prefix \o k : k \in DOMAIN children[from]} \ DOMAIN children[Root] |->
     children[from][CHOOSE k \in DOMAIN children[from] : prefix \o k = n]]
\* What __using_all binds; it throws at the first name that is not free.
Imported(from, prefix) ==
  [n \in {prefix \o k : k \in DOMAIN children[from]} |->
     children[from][CHOOSE k \in DOMAIN children[from] : prefix \o k = n]]

\* Mutant: the root namespace of the file before is used again.
Fresh_Cached ==
  [n \in DOMAIN children[Root] \cup {Core} \cup DefaultUse |->
     IF n \in DefaultUse THEN Get(Core, n) ELSE Ns(n)]
\* A new Environment after makeEnvironmentWithStdCoreSetup.
Fresh ==
  [n \in {Core} \cup DefaultUse |-> IF n = Core THEN Ns(Core) ELSE Get(Core, n)]

-----------------------------------------------------------------------------
Init ==
  /\ state = "idle"
  /\ children = [ns \in Modules \cup {Root} |->
                   IF ns = Root THEN <<>> ELSE [c \in Exports[ns] |-> Item(ns, c)]]
  /\ parent = [ns \in Modules \cup {Root} |-> Undefined]
  /\ loaded = <<>> /\ stack = <<>> /\ last = NoCall /\ files = 0 /\ calls = 0

\* An exception unwinds to compile(); the Environment is garbage after it.
Fail == state' = "failed" /\ stack' = <<>> /\ UNCHANGED env

StartFile ==
  /\ state # "running" /\ files < MaxFiles
  /\ files' = files + 1 /\ calls' = 0 /\ last' = NoCall /\ stack' = <<>>
  /\ IF Core \in Modules
     THEN /\ state' = "running"
          /\ children' = [children EXCEPT ![Root] = Fresh]
          /\ loaded' = <<Core>> /\ UNCHANGED parent
     ELSE state' = "failed" /\ UNCHANGED env

\* evaluateCommandNode up to its arguments; square tells whether the command
\* is itself in a square argument.
Enter(id, square) ==
  /\ state = "running" /\ calls < MaxCalls /\ Len(stack) < MaxDepth
  /\ square => stack # <<>>
  /\ calls' = calls + 1 /\ UNCHANGED <<last, files>>
  /\ IF LookupItem(id).kind = "item"
     THEN /\ stack' = Append(stack, [id |-> id, command |-> LookupItem(id), square |-> square])
          /\ UNCHANGED <<state, env>>
     ELSE Fail

\* The end of evaluateCommandNode with n objects; a square argument wants one.
Returns(n) ==
  /\ stack' = Front(stack)
  /\ state' = IF Last(stack).square /\ n # 1 THEN "failed" ELSE "running"

Calling(m, c) == state = "running" /\ stack # <<>> /\ Last(stack).command = Item(m, c)
Did(op, n, t) == last' = [op |-> op, name |-> n, thing |-> t] /\ UNCHANGED <<files, calls>>

Require(m) ==
  /\ Calling(Core, "__require")
  /\ Did("require", m, IF m \in Modules THEN Ns(m) ELSE Undefined)
  /\ IF m \in Modules /\ AddChild(m).ok
     THEN /\ loaded' = Append(loaded, m)
          /\ children' = WithBindings([n \in {m} |-> Ns(m)])
          /\ parent' = [parent EXCEPT ![m] = AddChild(m).parent]
          /\ Returns(0)
     ELSE Fail

Using(id, as) ==
  /\ Calling(Core, "__using")
  /\ Did("using", as, Lookup(id))
  /\ IF Exists(Lookup(id)) /\ CanUse(as, Lookup(id))
     THEN /\ children' = WithBindings([n \in {as} |-> Lookup(id)])
          /\ UNCHANGED <<parent, loaded>>
          /\ Returns(0)
     ELSE Fail

UsingAll(id, prefix) ==
  /\ Calling(Core, "__using_all")
  /\ Did("using_all", prefix, Lookup(id))
  /\ IF /\ Lookup(id).kind = "namespace"
        /\ LET new == Imported(Lookup(id).of, prefix)
           IN \A n \in DOMAIN new : CanUse(n, new[n])
     THEN /\ children' = WithBindings(Imported(Lookup(id).of, prefix))
          /\ UNCHANGED <<parent, loaded>>
          /\ Returns(0)
     ELSE Fail

\* __doc, and any command of another module: it has no way to the namespace.
Call(n) ==
  /\ state = "running" /\ stack # <<>>
  /\ Last(stack).command \notin {Item(Core, c) : c \in DefaultUse \ {"__doc"}}
  /\ Last(stack).command = Item(Core, "__doc") => n = 1
  /\ Returns(n)
  /\ UNCHANGED <<env, last, files, calls>>

\* An argument is missing or of the wrong type, or the command throws.
Throw ==
  /\ state = "running" /\ stack # <<>>
  /\ Fail
  /\ UNCHANGED <<last, files, calls>>

FinishFile ==
  /\ state = "running" /\ stack = <<>>
  /\ state' = "done"
  /\ UNCHANGED <<env, stack, last, files, calls>>

Next ==
  \/ StartFile \/ FinishFile \/ Throw
  \/ \E id \in Identifiers, square \in BOOLEAN : Enter(id, square)
  \/ \E m \in Required : Require(m)
  \/ \E id \in Identifiers, as \in Aliases : Using(id, as)
  \/ \E id \in Identifiers, prefix \in PrefixIns : UsingAll(id, prefix)
  \/ \E n \in 0 .. 2 : Call(n)

Spec == Init /\ [][Next]_vars

-----------------------------------------------------------------------------
Things == {Ns(m) : m \in Modules} \cup
          UNION {{Item(m, c) : c \in Exports[m]} : m \in Modules}
TypeOK ==
  /\ state \in {"idle", "running", "failed", "done"}
  /\ \A ns \in Modules \cup {Root} : \A n \in DOMAIN children[ns] : children[ns][n] \in Things
  /\ \A m \in Modules : children[m] = [c \in Exports[m] |-> Item(m, c)]
  /\ DOMAIN parent = Modules \cup {Root}
  /\ loaded \in Seq(Modules)
  /\ files \in 0 .. MaxFiles /\ calls \in 0 .. MaxCalls /\ Len(stack) <= MaxDepth
  /\ \A i \in DOMAIN stack : stack[i].command \in Things

\* While a command's arguments are evaluated, whatever the commands in them
\* import, its name goes on meaning the command that is about to be called.
PendingCallsResolve ==
  \A i \in DOMAIN stack : LookupItem(stack[i].id) = stack[i].command

\* A file reaches the commands of std::core and of the modules it required
\* itself, and no others: not those that another file required.
OnlyRequiredModules ==
  state = "running" =>
    /\ \A n \in DOMAIN children[Root] : children[Root][n].of \in Range(loaded)
    /\ \A i \in DOMAIN stack : stack[i].command.of \in Range(loaded)

\* A file that goes on after __using_all has every command of the namespace
\* under its prefix, each meaning the command it names.
UsingAllIsWhole ==
  state = "running" /\ last.op = "using_all" =>
    \A c \in Exports[last.thing.of] : Get(Root, last.name \o c) = Item(last.thing.of, c)

\* A name that a file has bound means the same until the file ends.
NothingRebound ==
  [][state = "running" /\ state' # "failed" =>
       \A n \in DOMAIN children[Root] :
         n \in DOMAIN children'[Root] /\ children'[Root][n] = children[Root][n]]_vars

\* Files do not disturb each other: requiring a registered module fails only
\* in a file that has bound its name already (namespace.ts:26-27).
FilesIndependent ==
  [][\A m \in (Required \cap Modules) \ {Super} :
       Require(m) /\ state' = "failed" /\ ~Last(stack).square => m \in DOMAIN children[Root]]_vars

\* All of this is to a file as one table of names, to which it alone adds.
Scope == INSTANCE FileScope WITH
  Basic <- DefaultUse, meaning <- children[Root], required <- Range(loaded),
  pending <- [i \in DOMAIN stack |-> stack[i].command]

\* However identifiers, paths and shared namespaces make it up, what a file can
\* call is what FileScope says: what it has brought in itself, at most one
\* module deep, no module under an alias, and each name with its first meaning
\* (those of std::core excepted, which core.ts:5 wants to be overridden).
ImplementsScope == Scope!Spec

\* core.ts:5: "you can still define variables with names like 'import',
\* overriding the default": __using gives a command that exists a name that
\* still has its default meaning and that no pending call goes by.
DefaultsCanBeOverridden ==
  [][\A id \in Identifiers, as \in DefaultUse :
       /\ Using(id, as) /\ LookupItem(id).kind = "item" /\ ~Last(stack).square
       /\ Get(Root, as) = Item(Core, as)
       /\ \A i \in DOMAIN stack : stack[i].command # Item(Core, as)
       => state' # "failed"]_vars

\* identifier.ts:5: "Absolute paths start with a colon": at the root, where
\* every lookup starts, the colon changes nothing.
AbsoluteMeansFromRoot ==
  state = "running" =>
    \A id \in Identifiers : id.absolute => Lookup(id) = Lookup([id EXCEPT !.absolute = FALSE])
=============================================================================
