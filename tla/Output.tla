-------------------------------- MODULE Output --------------------------------
(***************************************************************************)
(* What one file becomes: the commands of std::main fill the file's        *)
(* storage and its __doc while it is evaluated, and the output pass        *)
(* (internal/out) walks over the tree, finding an outputter for every tag  *)
(* when it meets it first.  Files follow each other: a compilation is one  *)
(* synchronous stretch once its input is read, and modules that load late  *)
(* register between two of them.                                           *)
(***************************************************************************)
EXTENDS Naturals, Sequences, FiniteSets

CONSTANTS
  Main,        \* the name of std::main
  Outputters,  \* exportLtrfNodeOutputter calls: [mod, target, tag, kind]
  Providers,   \* exportStringOutputterProvider calls: [mod, target]
  Requires,    \* [kinds -> sets of [src, as]]: requireFile calls of an outputter
  Normal,      \* [spellings -> paths]: path.normalize
  Targets,     \* target names
  Registries,  \* sets of modules the registry may hold when the first file comes
  Late,        \* modules that may register after it
  Objects,     \* LTRF objects that commands and text make, with all they contain
  Elements,    \* what commands and text put into the document
  Contents,    \* arguments of title and author: sequences of LTRF objects
  MaxFiles, MaxElems,   \* bounds: files, and commands per file
  MaxDepth     \* nested calls the engine's stack has room for

\* isLtrfStr.
IsStr(o) == "text" \in DOMAIN o

\* exportLtrfNodeOutputter: a module has one outputter per target and tag.
ASSUME ExportsAssumption ==
  \A o, p \in Outputters :
    o.mod = p.mod /\ o.target = p.target /\ o.tag = p.tag => o = p
ASSUME RequiresAssumption ==
  \A o \in Outputters : o.kind \in DOMAIN Requires /\
    \A q \in Requires[o.kind] : q.as \in DOMAIN Normal
ASSUME ObjectsAssumption ==
  /\ Elements \subseteq Objects /\ Contents \subseteq Seq(Objects)
  /\ \A o \in Objects :
       IF IsStr(o) THEN o.text[1] = "word" ELSE o.elems \in Seq(Objects)
ASSUME FiniteAssumption == IsFiniteSet(Outputters)
ASSUME BoundsAssumption == MaxFiles \in Nat /\ MaxElems \in Nat /\ MaxDepth \in Nat \ {0}

VARIABLES
  modules,     \* names of the modules in the LapolRegistry
  number,      \* files begun
  stage,       \* "idle", "evaluating", "walking", "done", "failed" or "aborted"
  target,      \* CompileInput.targetLanguage
  storages,    \* names of the modules in FileContext.moduleStorage
  main,        \* the storage of std::main
  source,      \* the commands of the file, in order
  body,        \* the elements of __doc evaluated so far
  cache,       \* lazyNodeOutputters, as a set of outputters: each knows its tag
  files,       \* OutputRequirementReceiver.files, as a set of [path, src]
  stack,       \* outputters that were called and have not returned
  code         \* Output.code

evalVars == <<storages, main, source, body>>
walkVars == <<cache, files, stack, code>>
vars     == <<modules, number, stage, target, evalVars, walkVars>>

-----------------------------------------------------------------------------
(* LTRF objects, and code as a sequence of tokens *)

Str(t) == [text |-> t]
Node(tag, elems) == [tag |-> tag, elems |-> elems]

Word(t)  == <<"word", t>>
Wrapped(tag, c) == <<<<"open", tag>>>> \o c \o <<<<"close", tag>>>>
Empty(tag) == <<<<"empty", tag>>>>

-----------------------------------------------------------------------------
(* std::main *)

HasMain == Main \in storages

\* Mutant: the instantiator returns the object it returned before.
Instantiated_Shared == IF number = 0 THEN [count |-> 0, title |-> <<>>, author |-> <<>>] ELSE main
Instantiated == [count |-> 0, title |-> <<>>, author |-> <<>>]

-----------------------------------------------------------------------------
(* DefaultOutputDispatcher *)

ProvidersFor == {p \in Providers : p.mod \in modules /\ p.target = target}
Retrieved(tag) ==
  {o \in Outputters : o.mod \in modules /\ o.target = target /\ o.tag = tag}
Cached(tag) == {o \in cache : o.tag = tag}

\* Mutant: the dispatcher belongs to the compiler and not to a compilation.
EmptyCache_Kept == cache
EmptyCache == {}

\* Mutant: the first of several outputters is taken.
Found_First(tag) == IF Retrieved(tag) = {} THEN {} ELSE {CHOOSE o \in Retrieved(tag) : TRUE}
\* getLtrfNodeOutputter: what is looked at for a tag; the call needs exactly one.
Found(tag) == IF Cached(tag) # {} THEN Cached(tag) ELSE Retrieved(tag)

-----------------------------------------------------------------------------
(* OutputRequirementReceiver *)

Binds(kind) == {[path |-> Normal[q.as], src |-> q.src] : q \in Requires[kind]}
\* Mutant: a path is bound again without a look at what it is bound to.
Consistent_Always(bindings) == TRUE
Consistent(bindings) ==
  \A f, g \in bindings : f.path = g.path => f.src = g.src

-----------------------------------------------------------------------------
(* Outputters.  A call goes through the parts of its output one after the  *)
(* other: "todo" holds the objects still to be output, each with the part  *)
(* it belongs to, and "made" the code of each part.                        *)

Items(part, objs) == [i \in DOMAIN objs |-> [part |-> part, obj |-> objs[i]]]
NoCode == [part \in 1 .. 3 |-> <<>>]

\* Mutant: the LaTeX root leaves out the author.
Parts_NoAuthor(by, n) ==
  CASE by.kind = "bare" -> <<>>
    [] by.kind = "htmlTitle" -> Items(1, main.title) \o Items(2, main.author)
    [] by.kind = "latexRoot" -> Items(1, n.elems) \o Items(2, main.title)
    [] OTHER -> Items(1, n.elems)
\* What the outputter passes to outputLtrfObj, in that order.
Parts(by, n) ==
  CASE by.kind = "bare" -> <<>>
    [] by.kind = "htmlTitle" -> Items(1, main.title) \o Items(2, main.author)
    [] by.kind = "latexRoot" -> Items(1, n.elems) \o Items(2, main.title) \o Items(3, main.author)
    [] OTHER -> Items(1, n.elems)

ReadsMain(by) == by.kind \in {"htmlTitle", "latexRoot"}

\* The code the outputter makes of its parts.
Assembled(f) ==
  CASE f.by.kind = "bare" -> Empty(f.by.tag)
    [] f.by.kind = "htmlTag" /\ f.leaf -> Empty(f.by.tag)
    [] f.by.kind = "htmlTitle" ->
         Wrapped("header", Wrapped("h1", f.made[1]) \o Wrapped("subtitle", f.made[2]))
    [] f.by.kind = "latexRoot" ->
         Wrapped("title", f.made[2]) \o Wrapped("author", f.made[3]) \o Wrapped("document", f.made[1])
    [] OTHER -> Wrapped(f.by.tag, f.made[1])

Frame(by, n) == [by |-> by, leaf |-> n.elems = <<>>, todo |-> Parts(by, n), made |-> NoCode]

Root == Node("__root", <<Node("__doc", body)>>)
\* The call of outputLtrfObj by outputPass.
Bottom == [by |-> [mod |-> "", target |-> target, tag |-> "", kind |-> "pass"], leaf |-> FALSE,
           todo |-> Items(1, <<Root>>), made |-> NoCode]

Top == stack[Len(stack)]
Below == SubSeq(stack, 1, Len(stack) - 1)
\* The frame f with c added to the code of its next item, which is done.
Advanced(f, c) ==
  [f EXCEPT !.made[Head(f.todo).part] = @ \o c, !.todo = Tail(@)]

-----------------------------------------------------------------------------
Init ==
  /\ modules \in Registries
  /\ number = 0 /\ stage = "idle" /\ target \in Targets
  /\ storages = {} /\ main = Instantiated /\ source = <<>> /\ body = <<>>
  /\ cache = {} /\ files = {} /\ stack = <<>> /\ code = <<>>

Between == stage \in {"idle", "done", "failed", "aborted"}

\* A module finishes loading while no file is being compiled.
Register(m) ==
  /\ Between
  /\ m \notin modules
  /\ modules' = modules \cup {m}
  /\ UNCHANGED <<number, stage, target, evalVars, walkVars>>

\* compile(): FileContext.make instantiates every module registered by now.
StartFile(t) ==
  /\ Between
  /\ number < MaxFiles
  /\ number' = number + 1 /\ stage' = "evaluating" /\ target' = t
  /\ storages' = modules /\ main' = Instantiated
  /\ source' = <<>> /\ body' = <<>>
  /\ files' = {} /\ stack' = <<>> /\ code' = <<>>
  /\ UNCHANGED <<modules, cache>>

Evaluated(command, m, elems) ==
  /\ stage = "evaluating"
  /\ Len(source) < MaxElems
  /\ source' = Append(source, command)
  /\ main' = m
  /\ body' = body \o elems
  /\ UNCHANGED <<modules, number, stage, target, storages, walkVars>>

Put(o) == Evaluated([op |-> "put", arg |-> <<o>>], main, <<o>>)

Counted == main.count + 1
Count ==
  /\ HasMain
  /\ Evaluated([op |-> "count", arg |-> <<>>],
               [main EXCEPT !.count = @ + 1], <<Str(<<"count", Counted>>)>>)

SetTitle(c) == HasMain /\ Evaluated([op |-> "title", arg |-> c], [main EXCEPT !.title = c], <<>>)
SetAuthor(c) == HasMain /\ Evaluated([op |-> "author", arg |-> c], [main EXCEPT !.author = c], <<>>)

\* A command throws: title without an argument, or one that is not bound.
Abort ==
  /\ stage = "evaluating"
  /\ stage' = "aborted"
  /\ UNCHANGED <<modules, number, target, evalVars, walkVars>>

-----------------------------------------------------------------------------
\* makeOutputDispatcher, then outputPass is called or the constructor throws.
StartWalk ==
  /\ stage = "evaluating"
  /\ cache' = EmptyCache
  /\ IF Cardinality(ProvidersFor) = 1
     THEN stage' = "walking" /\ stack' = <<Bottom>>
     ELSE stage' = "failed" /\ UNCHANGED stack
  /\ UNCHANGED <<modules, number, target, evalVars, files, code>>

Walking == stage = "walking" /\ stack # <<>>
AtObject(isStr) == Walking /\ Top.todo # <<>> /\ IsStr(Head(Top.todo).obj) = isStr

\* outputLtrfObj of a string: the default outputter of the provider.
OutputStr ==
  /\ AtObject(TRUE)
  /\ stack' = Append(Below, Advanced(Top, <<Head(Top.todo).obj.text>>))
  /\ UNCHANGED <<modules, number, stage, target, evalVars, cache, files, code>>

\* One outputter, a free spot on the stack, the storage it begins with and no
\* file that is required from two sources.
CanCall(n) ==
  /\ Cardinality(Found(n.tag)) = 1
  /\ Len(stack) < MaxDepth
  /\ \A by \in Found(n.tag) :
       /\ Consistent(files \cup Binds(by.kind))
       /\ by.kind = "htmlTitle" => HasMain

\* outputLtrfObj of a node: its outputter is retrieved, kept and called.
OutputNode ==
  LET n == Head(Top.todo).obj
  IN /\ AtObject(FALSE)
     /\ CanCall(n)
     /\ \E by \in Found(n.tag) :
          /\ cache' = cache \cup {by}
          /\ files' = files \cup Binds(by.kind)
          /\ stack' = Append(stack, Frame(by, n))
     /\ UNCHANGED <<modules, number, stage, target, evalVars, code>>

\* The LaTeX root asks for the storage of std::main after its elements.
Returns(f) == ReadsMain(f.by) => HasMain

\* An outputter returns its code to the one that called outputLtrfObj.
Return ==
  /\ Walking /\ Len(stack) > 1
  /\ Top.todo = <<>> /\ Returns(Top)
  /\ stack' = [Below EXCEPT ![Len(Below)] = Advanced(@, Assembled(Top))]
  /\ UNCHANGED <<modules, number, stage, target, evalVars, cache, files, code>>

Finish ==
  /\ Walking /\ Len(stack) = 1 /\ Top.todo = <<>>
  /\ stage' = "done" /\ code' = Top.made[1] /\ stack' = <<>>
  /\ UNCHANGED <<modules, number, target, evalVars, cache, files>>

\* An exception ends the pass and the render() it belongs to.
Throw ==
  /\ \/ AtObject(FALSE) /\ ~CanCall(Head(Top.todo).obj)
     \/ Walking /\ Top.todo = <<>> /\ ~Returns(Top)
  /\ stage' = "failed" /\ stack' = <<>>
  /\ UNCHANGED <<modules, number, target, evalVars, cache, files, code>>

Evaluate ==
  \/ \E o \in Elements : Put(o)
  \/ Count
  \/ \E c \in Contents : SetTitle(c) \/ SetAuthor(c)
  \/ Abort

Walk == OutputStr \/ OutputNode \/ Return \/ Finish \/ Throw

Next ==
  \/ \E m \in Late : Register(m)
  \/ \E t \in Targets : StartFile(t)
  \/ Evaluate
  \/ StartWalk
  \/ Walk

Spec == Init /\ [][Next]_vars

-----------------------------------------------------------------------------
Counts == {Str(<<"count", n>>) : n \in 1 .. MaxElems}
Arguments == Contents \cup {<<>>}
Commands == [op : {"put", "count", "title", "author"}, arg : Arguments \cup {<<o>> : o \in Elements}]

TypeOK ==
  /\ modules \subseteq (UNION Registries) \cup Late /\ storages \subseteq modules
  /\ number \in 0 .. MaxFiles /\ target \in Targets
  /\ stage \in {"idle", "evaluating", "walking", "done", "failed", "aborted"}
  /\ source \in Seq(Commands) /\ Len(source) <= MaxElems
  /\ main \in [count : 0 .. MaxElems, title : Arguments, author : Arguments]
  /\ main.count <= Len(source)
  /\ body \in Seq(Elements \cup Counts)
  /\ cache \subseteq Outputters
  /\ files \subseteq UNION {Binds(o.kind) : o \in Outputters}

\* What the dispatcher remembers is what the registry would tell it now: the
\* one outputter of the tag for the target of this very compilation.
CacheFresh == stage = "walking" => \A o \in cache : Retrieved(o.tag) = {o}
=============================================================================
