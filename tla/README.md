# LaPoL in TLA+

LaPoL is a document processor: a program using the library builds a
`LapolCompiler` out of modules, and the compiler renders LaPoL files to HTML or
LaTeX. This directory holds TLA+ models of its core (`lapol-core/src`), the TLC
configurations that check them, and proofs about them for TLAPS.

    tlasany M.tla                       parse
    tlc -config MCx.cfg MCx             check one instance
    tlapm M.tla                         check the proofs of M

`PROJECT.json` lists the runs, the lines of code each definition stands for,
the mutants that show each property can fail, the hazards the properties are
aimed at, and the places where a comment in the code says something else than
the code does.

Paths below are relative to `lapol-core/src`; `internal/` is shortened to `i/`.

## 1. The system

| Part | State it keeps | Operations | Hard because |
|---|---|---|---|
| **Builder** `i/lapolCompiler.ts` | thunks, promises of loads, output folder, registry | `withModule`, `withTargets`, `toFolder`, `build` | a builder can be built from again, concurrently, on the same registry |
| **Module loading** `i/module/`, `i/registry/` | per load: commands, finalize actions, instantiator; the registry of modules by unique name | `loadModule`, the `ModuleLoader` methods, `_finalize`, `Drawer.declare` | submodules are started from the finalize actions and *not awaited*; loaders may be async; anything may throw half way |
| **Compilation** `i/compile.ts`, `i/context/` | per render: file context with one storage per module | `render`: read, one synchronous stretch (parse, evaluate, process, output), write, copy dependencies | renders run concurrently and share registry and output folder; EBUSY is swallowed; `Promise.all` gives up early |
| **Output requirements** `i/out/outRequirements` | key (`path.normalize` of the target) to source | `requireFile` | two spellings of one path, some of which stay two keys |
| **Evaluator** `i/evaluate/`, `i/namespace.ts`, `std/core.ts` | per file: root namespace; shared by all files: the namespace of each module | lookup, command calls, `__require`, `__using`, `__using_all`, `__doc` | lookup before the arguments, call after; commands in arguments change the namespace |
| **Middle pass** `i/process/` | the LTRF tree | four passes | each relies on what the one before left in the tree |
| **Output pass** `i/out/`, `std/output/` | per render: dispatcher with a lazy cache | one string provider per target, one outputter per tag | depends on modules nobody awaited |
| **Standard modules** `std/` | per file: `count`, `title`, `author` | commands and outputters | the LaTeX root reads the storage of `std::main` |
| **Identifiers** `i/identifier.ts` | a position, the word and the parts so far | `parseIdentifier` | "::" belongs to a name, ":" divides; three in a row are one of each |
| **Parser** `lapol-parse-rs` | per call: escape and brace balance; the tree | nom combinators over the text, recursive calls | custom delimiters, brace balance, alternatives that fail late, debug assertions |

How they interact: user code calls the builder; `build()` calls `loadModule` for
every module, which calls the user's or the standard loaders, which declare
submodules; the finalized modules meet in the `LapolRegistry`. `render()` makes a
`FileContext` out of whatever the registry holds, has the evaluator look modules
up in it by `__require`, and lets the output dispatcher collect outputters from
it. The only shared state is the registry (with the namespaces of the modules)
and the output folder; the only scheduler is Node's event loop, with file I/O on
its thread pool. Nothing is persisted that a restart would read.

What makes each part correct:

* builder and loading: a resolved build is complete, names are unique, a builder
  yields one compiler, everything settles, submodules of requested targets are
  there before the first file;
* rendering: a resolved render has its files, whole; failures are reported by
  the render they belong to, and every render settles;
* evaluator: a name means one thing throughout a file; files are independent;
* middle pass: text survives in order and paragraphs are separated exactly where
  the author put a blank line or a block;
* output: exactly one outputter for each tag met, in the order of the tree;
* identifiers: a name is divided at its single colons, wherever they stand, and a
  name joined to a namespace by `__using` means that name in that namespace;
* parser: text is neither lost nor duplicated, a command never turns into text, a
  text comes in as few nodes as the middle pass counts on, accepted input is
  balanced, and every input ends in a tree or an error.

## 2. The modules

| Module | Models | Checked by | Proved in |
|---|---|---|---|
| `BuilderContract` | what the builder promises, without an event loop | as a property of `ModuleLoading` | `ModuleLoadingProofs` |
| `ModuleLoading` | builder, loaders, registry, microtask queue | `MCModuleLoading.cfg` | `ModuleLoadingProofs` |
| `Rendering` | concurrent `render()` calls and the file system | `MCRendering*.cfg` | `RenderingProofs` |
| `Lapol` | `ModuleLoading` and `Rendering` over one registry | `MCLapol*.cfg` | `ModuleLoadingProofs` |
| `Identifiers` | `parseIdentifier` | `MCIdentifiers.cfg` | `IdentifiersProofs` |
| `Evaluation` | namespaces, lookup, nested calls, `std::core` | `MCEvaluation*.cfg` | `EvaluationProofs` |
| `FileScope` | what a file can name, without identifiers or namespaces | as a property of `Evaluation` | `EvaluationProofs` |
| `Parser` | the Rust parser | `MCParser.cfg` | `ParserProofs` |
| `Processing` | the four passes on LTRF trees | `MCProcessing.cfg` | `ProcessingProofs` |
| `Output` | the storage of `std::main`, the output walk, the dispatcher | `MCOutput*.cfg` | `OutputProofs` |
| `OutputMeaning` | what a file should become, and the properties that compare | `MCOutput*.cfg` | `OutputProofs` |
| `Induction` | induction over the numbers, and loops, for the proofs | | itself |

An operator `X_Something` next to an operator `X`, marked "Mutant", is a wrong
version of `X` that `PROJECT.json` names; no specification uses it.

### ModuleLoading

`load` is the promise of each `loadModule` call: one per declaration and build.
A declaration is a position in the tree of modules the program declares; the
tree, the names and the targets that guard `declareSubModule` are constants.
Loaders are of two kinds: those that run to the end at once, and those in
`Suspending`, which await I/O before they declare anything. What goes wrong
(`fault`) is chosen in the initial state among the declarations in `Faulty`:
the loader throws, or finalization does: without an instantiator after all
submodules were started, in a finalize action that throws (what `exportCommands`
registers may) after some first ones of them (`Startable`). A taken name is
discovered by the model itself.

A rejection that nobody awaits is recorded in `unhandled`, and the model goes on as
Node did before version 15; since then the process ends once the queue is drained,
unless the program handles the event, so that what the code does is a behaviour
of the model or a prefix of one. What must be so at that moment, that every build
which was handed a failed load has rejected and every other failure is unhandled, is
`FailuresSurface`.

The event loop is modelled because the code's correctness hangs on it:
`queue` is the microtask queue, one job per continuation of an `await` and per
reaction of `Promise.all`. Jobs that one synchronous stretch enqueues form a
batch, ordered by `Precedes`; batches are run first to last. I/O completes only
when the queue is empty. User calls may come between any two jobs, which is more
than the code can meet (a caller that is itself a microtask) and costs nothing.

| Action | Code |
|---|---|
| `WithModule`, `WithTargets`, `ToFolder` | the builder methods |
| `Build`, `BuildWithoutFolder` | `build()` up to its await: thunks run, so do the synchronous parts of all loaders |
| `LoaderIO` | a suspended loader goes on and returns or throws |
| `Finalize` | `loadModule` after its await: `_finalize`, starting submodules first (`FinalizeWith` says which) and declaring the module then |
| `Abort` | `loadModule` after its loader rejected |
| `SubLoaded` | a finalize action after its await, or its unhandled rejection |
| `ElementFulfilled`, `ElementRejected` | `Promise.all` |
| `BuildReturns` | `build()` after its await |

`withModule` is called in the order of the numbers of the declarations, and not
for a thunk that was already added: calls in another order are another instance.

### Rendering

A step is one I/O completion with the callback and the microtasks it leads to.
A write or copy is `mkdirp`, then open and truncate, then finish; in between
the file is `Torn`. If writers of one path overlap, the file is whole at the end
only if all of them wrote the same and none gave up half way, else it is any of
the two (`FinalContents`).

Keys and files are distinct. `requireFile` compares and stores what `path.normalize`
leaves of a name (`Normal`); the copy then resolves that key behind the output folder
once more (`PathOf`: `path.resolve` in `LaPath`), where "x", "x/" and "/x" are one
file. Operations belong to a key, or to the output file (`Code`); contents belong to a
file (`FileOf`). One render may copy two sources onto one file, or one onto its
own output, and resolve: nothing in the code refuses it. `ResolvedFilesIntact` says
what is left: a file is whole unless distinct data was put onto it.

`Busy` is the behaviour of systems where copying onto
a file that is being copied onto fails with EBUSY. Parsing, evaluation,
processing and output are one step, `Compile`, which throws for `BadInputs`, for
a missing or ambiguous outputter, a missing module storage, or two sources for
one key. File contents are names, and the source of a copy is no file of the output
folder. Modules may register at any moment
(`Register`), since a load that nobody awaited may end while files are rendered.

### Lapol

Extends `ModuleLoading` and takes an instance of `Rendering` over its registry:
`render()` is callable once a build has resolved, and sees the registry as it is.
`RenderingAssumption` says of the constants what `Rendering` assumes, and that each
module exports string outputters for known targets, or for none. Here the question of the unawaited submodules is asked of the
program and not of the event loop: is everything there when a file is compiled?

### Evaluation

The document is the sequence of commands that the actions choose: `Enter` is
`evaluateCommandNode` up to its arguments, with the lookup; commands entered
while it is on the `stack` are in its arguments; the action that ends a call pops
it. A square argument must yield exactly one object. Identifiers come as
`parseIdentifier` leaves them (absolute, path, name). `Way(path)` is the list of
namespaces that a lookup passes through, `Reached` the last of them. An exception
ends the file; its environment is garbage, and only the module namespaces
(`children` of modules, `parent`) survive into the next file. Commands of other
modules return any number of objects or throw; they have no documented way to the
namespace.

`FileScope` is what a user of all this may count on: one table of names per file,
`meaning`, that starts with `std::core` and to which only `__require`, `__using` and
`__using_all` of the file itself add, all of it or nothing, under names that are free
or that `std::core` gives to every file. The code refuses the latter too, but
`std/core.ts` says that they can be overridden, and `FileScope` allows both. What
can be called is what a name means, or a command behind the name of a module: paths of
two modules, `super` and absolute paths lead to nothing more. Only commands
get aliases, for the namespace of a module has no parent, which `addUsing` asks for.
`Scope` in `Evaluation` is the mapping: the table is the root namespace, what is
required is `loadedModules`, what is pending are the commands of the stack.

### Identifiers

The characters of an identifier are letters and colons. `parseIdentifier` is a
loop with one action per branch; `i` counts from 1. Its argument is what the
callers give it: a name, or (`Joined`) the two names of `__using[thing,
from=ns]` with a colon between. `None` stands for a `from` that is not given.

| Action | Code |
|---|---|
| `Refuse` | the assertion on the empty string |
| `DoubleColon`, `SingleColon`, `Letter` | the branches of the loop |
| `Return` | the loop is over: the last part, the name, the absolute flag |

The reference definition has no loop: `Cuts` are the colons that end a run of odd
length, `Pieces` what stands between them, `Meaning` the identifier of the pieces.

### Parser

The parser is a set of functions that call each other; the machine has a `stack`
of those that have not returned, which are of three kinds: `text()` of the file or
of an argument, `command_contents()` and `square_args()`. The input is a sequence
of tokens, one for what no function tells apart (an identifier, a number or
boolean, white space). `true` and `truly` are two tokens because the code reads
the second as the first with something behind it. Functions that read on without
calling back (`block_comment_text`, `generic_text`, white space with comments) are
operators that say where they end; `Comments`, `Spaced`, `Skipped` and `TextEnds`
are sets of positions with at most one element. The tree is `out`: the events of
a walk through it, each with the positions of the tokens it stands for, so that a
property can ask where a token went.

| Action | Code |
|---|---|
| `OpenBrace`, `CloseBrace` | a bracket within a text, which moves its balance |
| `EndArgument`, `ExtraBrace`, `EndOfFile` | the end of `text()`, seen by `curly_argument` and `parse_root` |
| `UnclosedArgument` | the file ends in an argument: a debug assertion, or, without, `curly_argument` fails |
| `NewlineNode`, `Comment`, `TextCommand`, `GenericText` | the alternatives of the loop of `text()`, in their order |
| `Semicolon`, `StartSquare`, `StartArgument`, `EndCommand` | `command_contents()` |
| `SimpleEntry`, `CommandEntry`, `Equals`, `Comma`, `EndSquare`, `Malformed` | `square_args()` |

A function that fails gives its caller back what it has read. This happens across
calls in one place only: an argument whose text runs to the end of the file. Its
frame remembers the position (`mark`) and the length of the tree (`kept`) of its
start, and the release build goes back to them (`Resumed`, `Retracted`) and ends
the command (`Callers`), to read the argument as text. Other failures are settled
by looking ahead or end in `Panic`, the `expect` or the assertion that ends the
parse.

### Processing

Text and nodes; of text only being a newline or other whitespace matters, of `kv`
only `isBlock` (a boolean, absent, or something else, which throws). A document is a
table of its nodes (`doc`), whose elements are texts and references into the table. The
functions of a pass call themselves for every child first and then look at its tag and
`isBlock` only, which no pass changes; so what a pass makes of a node depends on that
node's own elements, and the model applies it to all nodes at once. The paragraphs and
break markers that passes make are no entries of the table: they hold their elements.
The table may be any, also one in which a node occurs twice or nowhere.

| Action | Code |
|---|---|
| `ProcessRoot` | `processRoot`, which throws unless the root is clean |
| `RemoveWhitespaceLines` | `remWhitespace` |
| `ProcessLinebreaks` | `processLinebreaksHelper`: `Emitted` is its `forEach`, `Emit` one round |
| `ProcessParagraphs` | `processParagraphsHelper`: `Gathered` is its `forEach`, `Gather` one round, `Finish` what comes behind it, `TrimParas` its last line; throws on an `isBlock` that is no boolean |

`at` is a ghost: where an object stood among the elements of its node when processing
began. The passes do not read it. The properties do, for they compare the result with
the *input*: two pieces of content of a node share a paragraph iff the input has no
block and no blank line between them (`Apart`, `Together`). Assumed is that no command
makes nodes with the two tags that the passes use themselves.

### Output

The other side of the tree: what one file becomes. The commands of `std::main`
and of plugins are chosen by the actions `Put`, `Count`, `SetTitle`, `SetAuthor`;
they fill the storage `main` and the document `body`, and `source` remembers
them. Commands that only wrap their argument (`bold`, `sec`, ...) are one,
`Put`. Then the outputters call each other through `outputLtrfObj`, which is a
stack of frames: `todo` is what the outputter on top still passes on, `made` the
code it has so far.

| Action | Code |
|---|---|
| `Register` | a late module enters the registry; never inside a compilation, which is synchronous from parsing to output |
| `StartFile` | `FileContext.make`: a storage for every module registered by now |
| `Put`, `Count`, `SetTitle`, `SetAuthor`, `Abort` | commands of the file, and one that throws |
| `StartWalk` | `makeOutputDispatcher`, which throws unless the target has one string provider, then `outputPass` |
| `OutputStr` | a string is output by the provider |
| `OutputNode` | `getLtrfNodeOutputter` with its cache, `requireFile`, and the call |
| `Return` | the outputter assembles its code |
| `Finish`, `Throw` | the pass returns, or an exception leaves it |

`OutputMeaning` is the reference: it reads text, nodes, files and whether output is
possible off the commands and the registry, without storage, dispatcher, order or
stack. It asks the modules that were registered when the compilation began
(`Offered`, over `storages`), so that what registers later changes nothing. What the
output of a node contains (`Contained`) depends on the kind of its outputter, and
a title may contain the `maketitle` that shows it, so text and nodes are those of
`d` nested nodes (`Text[d]`, `NodesIn[d]`), and `HasRoom` says that the file has
no more than the stack takes. `Objects` are all LTRF objects that commands make,
with what they contain. An
outputter is a record of module, target, tag and `kind`, one kind for each way
the standard outputters use their arguments. The dispatcher's map from tags is a
set, for an outputter knows its tag. `MaxDepth` is the room on the engine's
stack: a title that contains `maketitle` outputs itself until there is none. A `count` stands
at the top level of the file, not in an argument or a title. The
middle pass comes between body and root in the code; here the tree is
`__root(__doc(body))` at once, which is its shape without paragraphs.

## 3. Runs

| Run | Shows | Bounds, and why they suffice |
|---|---|---|
| `loading` | names are unique; submodules that do no I/O settle before the build although nobody awaits them; a resolved build is registered, at most one resolves, no failure of a load is swallowed; refinement of `BuilderContract`; everything settles (under fairness) | 7 declarations, 3 deep, two of them suspending, three of which may throw, two under one name; two builds that overlap in every way; targets may be added in between. A third level is needed for "submodules of submodules" |
| `rendering` | failures are reported; resolved means finished; files of resolved renders are intact; renders settle | three renders, two with distinct contents onto one output file, all with one stylesheet: one requires it under two keys that are one file, one under two spellings of one key and from two sources; modules that are not registered yet may register at any moment; any I/O may fail and a copy may meet EBUSY |
| `lapol_sync` | file context complete, outputters in place | the tree of the standard modules and a plugin with a submodule; the plugin's own loader suspends |
| `identifiers` | an identifier is divided exactly at its single colons, and means what a definition without a loop says; `__using` joins two names to the right one | all names of up to five characters with one letter and up to three with two, and every pair of them joined: runs of five colons, and up to eleven across a join |
| `evaluation` | refinement of `FileScope` (names keep their meaning, and nothing else comes into a file); pending calls still resolve, only required modules are reached, `__using_all` takes all, files are independent | two files, five commands each, three deep; two modules that export the same name |
| `parser` | every word is in the tree or a comment, once and in order; text nodes are maximal; commands are not text; accepted files are balanced; parsing ends | both builds; all texts of up to five tokens over the alphabets of arguments and of comments, and all continuations by four or five of the start of a command, an argument, an escape, a comment, square arguments and a command within them: an argument without an end inside one without an end, and what is read twice, occur |
| `processing` | text survives in order; paragraphs are divided exactly at blank lines and blocks, and are well formed; lines do not run together | every document of up to 5 elements with nested content and of up to 7 without: runs of three newlines, with blanks between, at both ends and on both sides of a block all occur |
| `output` | text is output as written, with this file's last title and author and counts from one; a file is output iff the registry allows it; the required files are those needed; the cache is never stale | two files for either target, up to three commands each; three registries (standard, with a plugin, without `std::main`) and two modules that come late, one of which makes a tag ambiguous, and one the provider; that one shows its `maketitle` in a way of its own. `MaxDepth` 5 is the depth of the deepest finite output (pass, root, document, `maketitle`, `bold`), so that one call less would fail it, and a title that shows itself still overflows; two files are what it takes for one to leave something to the other |

Each run but `lapol_sync` and `identifiers` also checks the type invariant of its module.

Runs that refute what a comment says (each is a finding in `PROJECT.json`):

| Run | Comment | Code |
|---|---|---|
| `rendering_ebusy` | an EBUSY is no issue if contents are the same | the copy it collided with may fail; both renders rely on it, one resolves |
| `lapol_async` | the context is completely set up when a file is compiled | not with a submodule whose loader awaits something |
| `evaluation_override` | names of `std::core` can be overridden | every file starts with them bound, and `addUsing` refuses names that are bound |
| `evaluation_absolute` | absolute identifiers are looked up in the root | behind one component they throw |

Three comments the code departs from are recorded as hazards only: a newline that
is the only element of its node does not become a space; the list `_finalize`
returns holds the module alone, since the names of its submodules are pushed after
it was copied; and `std::main` is not optional for LaTeX, since the root outputter of
`std::core` reads its storage (`NeedsMain` in `OutputMeaning`).

`LinesStayApart` also fixes that white space between two inline commands vanishes
unless it has a newline: the code does so, and nothing in the repository says whether
it should.

Deadlock is not an error where it is switched off: the calls of the
user, the renders and the files are bounded, and after them nothing is left to do.

Every property has a mutant: a wrong version of one definition, of the kind a
change to the code could introduce (`Promise.allSettled`, a dropped assertion, a
missing `numParas++`), under which TLC finds the property violated.

### Fairness

Three specifications state it. `ModuleLoading!FairSpec`: the microtask
queue is drained (Node does so before anything else) and the I/O of a loader
completes. `Rendering!FairSpec`: every submitted file operation completes, with
or without an error. `Parser!FairSpec`: the parser runs by itself, it waits for
nothing. Nothing is assumed of the user's calls. A loader that never
returns is not a behaviour of the models.

## 4. Proofs

### ModuleLoading

`ModuleLoadingProofs` proves, for every tree of modules, every assignment of
names, targets, faults and suspensions and every number of builds:

* `TypeCorrect`: `Spec => []TypeOK`;
* `Coherent`: `Spec => []IInv`;
* `ResolvedBuildsAreComplete`, `RegisteredNamesAreUnique`,
  `OneCompilerPerBuilder`: safety properties of the run `loading`;
* `SynchronousSubmodulesSettleFirst`: `Spec => []SyncSubmodulesFirst`;
* `LoadsFailForAReason`: a load that rejects has a fault of its own or finds its
  name taken, and saw the targets its `build()` was called with;
* `FailuresAreReported`: `Spec => []FailuresSurface`;
* `KeepsContract`: `Spec => ImplementsContract`, the refinement of
  `BuilderContract`.

They rest on the ASSUMEs of `ModuleLoading` only: declarations are finitely many
positive numbers, a parent comes before its children, `std::core` is among the
modules of the builder, and the constants have their types. Names need not be
distinct. With these seven theorems every safety property of the run `loading`
holds for all values of the constants.

The safety properties are not inductive. That a resolved build is registered
rests on what a pending `built` job knows, which rests on what each pending
`fulfilled` job knew. `IInv` therefore says of the queue that each job agrees
with the promise it belongs to (`JobInv`), and that a call has at most one
continuation pending (`Exclusive`): without the latter a load could be finalized
twice, and the second time find its own name taken. `StartInv` says that loads
start once, `RegistryInv` that the registry holds exactly the fulfilled loads,
and `BuildInv` that what a build no longer waits for is registered. A job step is
proved by one lemma (`QueueStep`) that reduces the queue part to the jobs the
step pushes; `PushPending`, `PushExclusive` and `PopQueue` state what happens to
a queue of batches. `OneCompilerPerBuilder` needs no more: two resolved builds
would both have `std::core` registered, under one name.

`IInv` was found with TLC on the instances of `MCModuleLoading` first.

That submodules settle before the build they are not awaited by is a fact about the
order of the queue. `OrderInv` has two parts. `SubsOnTheirWay`: once a load has
fulfilled, each of its submodules that does no I/O has settled or has the job in the
queue that settles it, and ahead of every reaction to the load. `SubsCounted`: when
`Promise.all` has counted a load, these submodules have settled, and their own settle
before `build()` goes on. An empty queue therefore leaves none of them behind.

`SurfaceInv` says where a failure is while it has not surfaced. A load that rejected
is on its way to each build that was handed it (`Told`): the job that tells
`Promise.all` is in the queue, or the build is already settling or has rejected; a
rejected submodule has its job in the queue or is unhandled. A build that
settles has its `built` or `failed` job (`Ending`). Both vanish with the queue; that
a build told of a failure cannot resolve is `ResolvedMeansRegistered`.

The refinement has one lemma per way a step can look from outside (`StartStep`,
`FailStep`, `RegisterStep`, ...), each giving the step of the contract and that
nothing registered or settled is lost (`Keeps`); `EveryStep` sorts the actions among them. It needs
`IInv`: that `Promise.all` settles once is what makes `settling` look like
`awaiting` until `build()` returns.

### Lapol

The last section of `ModuleLoadingProofs` is about the composition, for every tree
of modules, any renders and any output paths:

* `FilesSeeEveryModule`: if no submodule suspends (`SubmodulesDoNotWait`), then
  `FileContextComplete` holds whenever one build has loaded anything
  (`OneBuildLoads`);
* `FilesOfOneBuildSeeEveryModule`: so it is an invariant of a program that builds
  once;
* `OutputtersAreInPlace`: if the standard library has the outputters of each target
  in submodules that neither suspend nor throw (`StandardLibrary`), and targets are
  given before `build()`, then `RequestedTargetsReady` is an invariant, however many
  builds overlap and whatever the plugins do;
* `PartsBehave`: `LapolSpec => Spec /\ R!Spec`, the program behaves as its builder and
  as its renders do alone;
* `WholeKeepsFiles`: what `RenderingProofs` proves of renders holds of the program,
  whichever modules register meanwhile.

The hypotheses say where the code's promise ends. `lapol_async` breaks
`FileContextComplete` with one submodule that suspends; a second build may register
modules added since while the compiler of the first renders; with late targets the
standard modules never see the target. `StandardLibrary` is an ASSUME of `MCLapol`,
which TLC evaluates. A render needs a build that resolved (`CalledInv`), and it
compiles when I/O completes, hence on an empty queue; then `SubsOnTheirWay` leaves no
submodule pending, `LoadsInv` says that those of the standard library did not fail,
and `TargetsInv` that they were declared. `CompiledInv` adds that nothing is
registered afterwards.

`PartsBehave` needs `BuilderInv`: each step of the builder that touches the registry
adds one name that is not in it (`ContractStep`), which is a `Register` of `Rendering`;
every other step leaves the variables of `Rendering` alone. `WholeKeepsFiles` takes the
theorems from an instance of `RenderingProofs` (`RP`) over the registry. `SameSteps`
shows that it has the steps of the instance `R` of `Lapol`, `RenderingAssumption`
discharges its assumptions.

### Rendering

`RenderingProofs` proves for any number of renders, paths and failures
`TypeCorrect`, `FailuresReported`, `ResolvedAreFinished` and `FilesIntact`: all
the safety properties of the run. The invariant has two parts. `Life(r)` relates
the stage of a render to the phases of its operations: copies are submitted only
when the output file is written, all that a resolved render asked for is done or
met EBUSY, and a render that rejected after it wrote anything has a failed
operation. `PathInv(p)` says what a file owes to its users as long as nothing failed
on it: `session` holds their data only; when no writer is left, the file has the
data of each of them, if that is one; and a copy that met EBUSY met another writer,
which may be a copy of the same render under another key.
`FilesIntact` follows from both, without any assumption that keys, or outputs, name
distinct files. An operation on one file does nothing to another
(`PathElsewhere`) except for the copies that are submitted when the output file is
finished.

### Identifiers

`IdentifiersProofs` proves for strings of any length

* `TypeCorrect`;
* `DividesAtSingleColons`: `Spec => DividesExactly`;
* `ReturnsMeaning`: `Spec => []DividedAtSingleColons`, what is returned is the
  `Meaning` of the string;
* `UsingJoins`: `Spec => []UsingNamesThing`.

The loop looks one character
ahead and never back, so that a colon it stands on ends an odd run if it has none
behind it needs the invariant `EvenBehind`: of the run of colons at `i`, an even
number lies before `i`. `RunHasOneLength` says that a run is either odd or even. `Collected` adds what the
loop has gathered: a part for each cut before `i`, each equal to the piece that the
definition cuts out there, and a word that is the rest. `UsingJoins` is not about the
loop but about the definition: the cuts of `from`, of the colon between and of `thing`
are together those of the joined string, when no colon touches the joint, and the
n-th piece of the joined string is a piece of one of the two (by induction on the cuts,
with `Induction`).

### Evaluation

`EvaluationProofs` proves all properties of the run, for any modules, any
number of files, documents of any length and depth, and paths of any length:
`TypeCorrect`, `PendingResolve`, `OnlyRequiredReached`, `UsingAllImportsAll`,
`KeepsScope`, `FilesStayIndependent`, and `Coherent`, the invariant they
rest on; and `NamesKeepMeaning`: a name that is bound, those of `std::core` included, means
the same until the file ends. `Coherent` says: the namespace of a module holds the commands the module exports,
whatever files did (`Shape`); what the root binds are namespaces of registered
modules and their commands, of modules the file required (`OnlyRequiredModules`);
and each call on the stack is typed and is still what its name means
(`PendingCallsResolve`), although commands in its arguments bind names between
lookup and call. The namespaces that a path leads through are
reached by a recursive function; that new names change no way (`WayStays`) is
proved by induction along the path, with the module `Induction`: its `Induct` is
about sets of numbers, which the provers can instantiate, where the library's is
about an operator.

`KeepsScope` is `Spec => Scope!Spec`, one lemma for each action (`EnterScope` to
`StartFileScope`): a step is one of `FileScope`, or changes nothing it speaks of, and a
step that throws is its `Fail`. What makes it go is `PathsAreShort`: a path that leads
to a namespace leads to the root or to a module that the root names itself, because what
lies behind a module are commands and none has a parent. `LookupMeans` follows: what an
identifier finds is `Callable`.

Assumed: the root is no module, identifiers are typed, `std::core` exports the
four names every file starts with, and a prefix keeps names apart.

### Parser

`ParserProofs` proves for inputs of any length

* `TypeCorrect`: the position stays within the input, the stack never runs empty,
  every open text has an open bracket;
* `SourceIsInTree`: `Spec => []SourceInTree`, the order and the completeness of the
  tree;
* `TextIsMaximal` and `CommandsNeverText`: `TextNodesMaximal` and
  `CommandsAreNotText`;
* `BracketsAreMatched`: `Spec => []BracketsMatch`.

`Machine` is the inductive invariant: input and tree are typed and `StackOK` holds,
which says who may call whom, that an escape can be mirrored, and that the deeper
an argument is, the more of the tree was there before it. Every action is then
shown to be a `Step`, which keeps only what the other invariants need: the tree is
kept (`Keeps`), gets one event (`Emits`), gets the text between the old position
and the new one (`Writes`), or is cut back to what an argument remembers
(`Retracts`). `Ordered` strengthens `InOrder` by the order of what each open argument
may go back to. `Cover` says the other half: every word before the position, and before what each
open argument may go back to, is in the tree or in a comment. A step preserves it
because it reads what lies between the old position and the new one (`Reads`): the
words there are emitted, or the tokens are no words, or a comment holds them. For
white space and comments before the next part of a command this is an induction on
the length of the rest of the input, as `Skipped` is a recursive function whose
domain the provers must first know to be well founded (`Chase`, `SkippedFacts`, with
the module `Induction`). A parser is done at the end of the input only, where `Cover`
is about every word of it. The two properties of text nodes look at the event that a
step makes (`Made`, `NodesStep`).

`BracketsMatch` counts brackets over the input, while the parser keeps a balance per
call of `text()`. `Levels` relates the two: the text that is being read is at the
depth that its own balance and the position its argument began at give (`Level`), an
argument began at the depth of the text around it (`Nested`), and no position read
so far is at a negative depth (`Above`). The second part is what going back needs:
the parser then reads on in the text around, at the position the argument began.

### Output

`OutputProofs` proves of `Output`, for every registry, every set of outputters
and files with any number of commands:

* `TypeCorrect`: `Spec => []TypeOK`;
* `CacheStaysFresh`: `Spec => []CacheFresh`: the dispatcher never serves an
  outputter that the registry, asked now, would not give alone;
* `TextComesAsWritten`: `Spec => []TextAsWritten`;
* `OutputExactlyIfPossible`: `Spec => []OutputIffPossible`;
* `RequiredFilesAreNeeded`: `Spec => []RequiresWhatItNeeds`.

They assume that there are finitely many outputters, that the bounds are natural
numbers, and that objects are made of objects (`ObjectsAssumption`); of the registry
they assume nothing, a plugin may output `maketitle` or `__root` as it likes. `CacheFresh` is inductive relative to `TypeOK`: the
cache is emptied when a walk begins, an outputter enters it only when it was found
alone (`FoundIsFresh`), and while the walk lasts neither target nor registry changes.
The last point is the whole reason why the cache is safe: the compilation does
not await anything.

The other three compare the end of a walk with a definition that does not walk.
In between, the code is spread over the frames of the stack, and nothing in a state
says which nodes were output before. The inductive invariant (`Meant`) says it:

* `StoreInv`: storage and document hold what the commands given so far mean;
* `LifeInv`: nothing registers between `StartFile` and the end of the walk, and no
  file is required before it;
* `WalkInv`, while the walk lasts: each frame was called for a node that the frame
  below it is about to output (`Called`), by the one outputter of its tag, whose files
  are required (`Serves`); what that node contains is shown by the file and, if the file
  has room, fits in the calls that are left (`Belongs`); and for some `i` the frame
  has output the first `i` objects of its three parts (`Progress`): the words of its
  code are their text, and their nodes can all be output with the files required so
  far (`Fine`). The files are all needed, and no two conflict.

`ProgressStep` is the heart: code that comes back to a frame, with the text of the
object it was asked for, makes `i` one more. `AssembledFacts` then shows that a call
with nothing left to do has assembled the text of what its node contains, whatever
its kind does with its parts, and `NodesInside` that the nodes in it are all done. One
lemma for each way the walk goes on (`WalksBottom`, `StrObject`, `WalksCall`,
`WalksAdvance`, `CallReturns`) or ends (`WalkEnds`, `WalkFails`). The converse in
`OutputIffPossible` needs `Belongs`: a walk that throws throws for a node that the
file shows, for files it needs, or for calls it has no room for. That `Text`, `NodesIn`,
`Fitting`, `Written` and `Joined` are defined at all, as recursive functions, comes from
`Loop` and `Iterates` in `Induction`.

### Processing

`ProcessingProofs` proves all properties of the run, for documents with any number
of nodes and nodes with any number of elements: `TypeCorrect`, `ContentStaysInOrder`,
`BlankLinesDecide`, `ParagraphsAreWellFormed` and `LineEndsAreSpaces`. They rest on the
ASSUMEs of `Processing` only: documents are typed, and the tags of the passes are
reserved.

No property can be seen by one pass alone, and each pass forgets what it read. `IInv`
therefore says, after each pass and for each node, how its elements come from those of
the *input* (`Stage`):

* after `processRoot` and `remWhitespace` they are some of them, in their order, with
  all content among them (`Filtered`); except in the root, all newlines too (`KeepsLines`);
* after `processLinebreaks` content is complete and in order among spaces and markers
  (`Broken`); and, except in the root, a marker stands only in a blank line and a space
  only where a line ended, there is a marker in each blank line between two pieces of
  content and one of the two for each line end between them (`KeepsBreaks`);
* after `processParagraphs` (`Settled`) there are elements that were `Broken` and from
  which each element of the result took a span: from `lo[x]` to `hi[x]`, one behind the
  other, a paragraph all of its span and another object one element. What lies in no span
  is a marker or whitespace; and from one span to another there is a marker or a block,
  unless both are single elements outside of paragraphs with only such between (`Arranged`).

The last one is an existential because the pass leaves no trace of what it read; the
properties follow from it without naming the pass (`DividedIffApart`,
`TogetherIffUndivided`, `SpacesFromLines`, `ContentKept`). The loops of the code are
recursive functions. Each is shown to be a `Loop` (`Iterates`, by induction with
`Induction`), after which an invariant of one round proves what the loop gathers
(`EmittedInv`, `GatheredInv`). Of the loop of `processParagraphs` that invariant has to
say what is still in `paraAccum`: everything since the last marker or block
(`Waiting`). Trimming takes elements from the ends of a span and whole spans of
whitespace, and keeps `Arranged` (`TrimArranged`).

### Model-checked only

Liveness (`EverythingSettles`, `RenderSettles`, `Terminates`) is out of reach of
TLAPS. Every safety property of a passing run is proved. The properties of the four runs that refute a comment are false as they stand and have
nothing to prove; `FileContextComplete`, which one of them refutes, is proved under the
hypothesis that run breaks.

## 5. Not modelled

* The characters within identifiers, numbers and quoted strings of the parser, and
  the conversion of its tree to JavaScript objects, which copies it node by node.
* The values of command arguments: a wrong number or type is one way to throw.
* String escaping, which replaces characters by a table; paths, debugging and
  packaging, which have no state; the LaTeX and CSS files that are copied along.
* Which characters the output consists of: `Output` has tokens where the code has
  tags and escaped text.
* Loaders that await between two declarations, or that keep the `ModuleLoader`
  and use it after `_finalize`; modules that write to `_currNamespace` or to the
  storage of others, which the code asks them not to.
* Failure modes of the file system other than an operation failing: a render
  whose process dies leaves torn files, and nothing reads them back.

## 6. Plan

1. **Composition**: a compilation as `Parser`, `Evaluation`, `Processing` and
   `Output` one after the other over one tree, in the place of `Compile` in `Lapol`.
2. **Abstract specification** of the output folder as a set of finished files, which
   `Rendering` implements when contents agree.
3. **Proofs**: about the composition of (1), what a resolved render wrote is the meaning
   of its file; and that `Rendering` implements the specification of (2).
