------------------------------ MODULE Rendering ------------------------------
(***************************************************************************)
(* LapolCompiler.render: concurrent calls read an input file, compile it   *)
(* in one synchronous stretch, write the output file and then copy the     *)
(* files the output depends on, all into one shared output folder.         *)
(*                                                                         *)
(* An I/O action is a step of the thread pool together with the callback   *)
(* and the microtasks it leads to, up to the next pending I/O operation.   *)
(***************************************************************************)
EXTENDS Naturals, FiniteSets

CONSTANTS
  Renders,     \* calls of render()
  Paths,       \* files of the output folder, by their absolute paths
  Dirs,        \* their directories
  DirOf,       \* [Paths -> Dirs]
  Keys,        \* what path.normalize leaves of the names files are required under
  Normal,      \* [spellings -> Keys]: path.normalize
  PathOf,      \* [Keys -> Paths]: path.resolve, behind the output folder
  Code,        \* no key: stands for the output file among the files of a render
  OutOf,       \* [Renders -> Paths]: outputFilePath
  CodeOf,      \* [Renders -> data]: the code the output pass produces
  TargetOf,    \* [Renders -> targets]
  Requires,    \* [Renders -> sets of [src, as]]: requireFile calls of the outputters
  BadInputs,   \* renders whose input makes the parser or a command throw
  Strings,     \* [module names -> SUBSET targets]: exports a StringOutputterProvider
  Roots,       \* [module names -> SUBSET targets]: exports an outputter for __root
  Needs,       \* [targets -> SUBSET module names]: module storages __root reads
  Busy,        \* whether copying onto a file that is being written to may fail (EBUSY)
  FaultyIO     \* kinds of I/O that may fail: subset of {"read", "write", "copy"}

\* What a file holds when nobody's data is entirely in it.
CONSTANTS Absent, Torn

ASSUME PathsAssumption ==
  /\ DirOf \in [Paths -> Dirs]
  /\ OutOf \in [Renders -> Paths]
  /\ PathOf \in [Keys -> Paths]
  /\ Code \notin Keys
ASSUME RequiresAssumption ==
  \A r \in Renders : \A q \in Requires[r] :
    q.as \in DOMAIN Normal /\ Normal[q.as] \in Keys
ASSUME FaultsAssumption == Busy \in BOOLEAN /\ FaultyIO \subseteq {"read", "write", "copy"}

VARIABLES
  modules,     \* names of the modules in the LapolRegistry
  stage,       \* where each render() is
  storage,     \* FileContext.moduleStorage: the module names it was made from
  phase,       \* [Renders \X Ops -> Phases]: the write and the copies of each render
  dirs,        \* directories that exist
  file,        \* [Paths -> data, Absent or Torn]
  session      \* [Paths -> sets]: data of the writers that have overlapped so far

ioVars == <<phase, dirs, file, session>>
vars   == <<modules, stage, storage, ioVars>>

Stages == {"idle", "reading", "writing", "copying", "resolved", "rejected"}
Phases == {"none", "mkdir", "ready", "open", "done", "busy", "failed"}
Settled == {"resolved", "rejected"}
Ops == Keys \cup {Code}     \* the copy for each key, and the write of the code

-----------------------------------------------------------------------------
(* OutputRequirementReceiver *)

\* Mutant: a later requireFile silently replaces an earlier one.
Conflict_Never(r) == FALSE
\* Two requireFile calls bind one key to different sources. Keys that name
\* one file ("x" and "x/") are not compared.
Conflict(r) ==
  \E p, q \in Requires[r] : Normal[p.as] = Normal[q.as] /\ p.src # q.src

DepsOf(r) == {Normal[q.as] : q \in Requires[r]}

\* What operation o of r writes, and onto which file.
Data(r, o)   == IF o = Code THEN CodeOf[r]
                ELSE (CHOOSE q \in Requires[r] : Normal[q.as] = o).src
FileOf(r, o) == IF o = Code THEN OutOf[r] ELSE PathOf[o]

-----------------------------------------------------------------------------
(* compile(): parse, FileContext.make, evaluate, process, output *)

Providers(t) == {m \in modules : t \in Strings[m]}
RootsFor(t)  == {m \in modules : t \in Roots[m]}

\* makeOutputDispatcher finds exactly one string outputter, the dispatcher
\* exactly one __root outputter, and that one the storages it asks for.
CanOutput(t) ==
  /\ Cardinality(Providers(t)) = 1
  /\ Cardinality(RootsFor(t)) = 1
  /\ Needs[t] \subseteq modules

\* FileContext.make: a storage for every module registered by now.
ModuleStorage == modules

Compiles(r) == r \notin BadInputs /\ CanOutput(TargetOf[r]) /\ ~Conflict(r)

-----------------------------------------------------------------------------
(* The output folder *)

Open(r, o)  == phase[<<r, o>>] = "open"
OpsOn(p)    == {w \in Renders \X Ops : FileOf(w[1], w[2]) = p}
Writers(p)  == {w \in OpsOn(p) : phase[w] = "open"}
IsCopy(o)   == o # Code

\* What the file may hold when the last of the writers that overlapped is
\* through: its own data, if they all wrote the same and none gave up half way.
FinalContents(r, o) ==
  IF session[FileOf(r, o)] \subseteq {Data(r, o)} THEN {Data(r, o)} ELSE {Data(r, o), Torn}

-----------------------------------------------------------------------------
Init ==
  /\ modules \in SUBSET DOMAIN Strings
  /\ stage = [r \in Renders |-> "idle"]
  /\ storage = [r \in Renders |-> {}]
  /\ phase = [w \in Renders \X Ops |-> "none"]
  /\ dirs = {}
  /\ file = [p \in Paths |-> Absent]
  /\ session = [p \in Paths |-> {}]

\* A load that nobody awaited ends (_finalize): files may be under way.
Register(m) ==
  /\ m \notin modules
  /\ modules' = modules \cup {m}
  /\ UNCHANGED <<stage, storage, ioVars>>

\* render() is called: await readFileBuffer.
Render(r) ==
  /\ stage[r] = "idle"
  /\ stage' = [stage EXCEPT ![r] = "reading"]
  /\ UNCHANGED <<modules, storage, ioVars>>

ReadFails(r) ==
  /\ stage[r] = "reading" /\ "read" \in FaultyIO
  /\ stage' = [stage EXCEPT ![r] = "rejected"]
  /\ UNCHANGED <<modules, storage, ioVars>>

\* The input is read: everything up to the call of writeFile runs at once.
Compile(r) ==
  /\ stage[r] = "reading"
  /\ storage' = [storage EXCEPT ![r] = ModuleStorage]
  /\ \/ /\ Compiles(r)
        /\ stage' = [stage EXCEPT ![r] = "writing"]
        /\ phase' = [phase EXCEPT ![<<r, Code>>] = "mkdir"]
     \/ /\ ~Compiles(r)
        /\ stage' = [stage EXCEPT ![r] = "rejected"]
        /\ UNCHANGED phase
  /\ UNCHANGED <<modules, dirs, file, session>>

\* Mutant: mkdirp is given the path of the file.
DirFor_Itself(p) == p
DirFor(p) == DirOf[p]

\* mkdirp succeeded: the file operation proper is submitted.
Mkdirp(r, o) ==
  /\ phase[<<r, o>>] = "mkdir"
  /\ dirs' = dirs \cup {DirFor(FileOf(r, o))}
  /\ phase' = [phase EXCEPT ![<<r, o>>] = "ready"]
  /\ UNCHANGED <<modules, stage, storage, file, session>>

\* The file is opened, and truncated.
OpenFile(r, o) ==
  LET p == FileOf(r, o)
  IN /\ phase[<<r, o>>] = "ready"
     /\ DirOf[p] \in dirs
     /\ phase' = [phase EXCEPT ![<<r, o>>] = "open"]
     /\ file' = [file EXCEPT ![p] = Torn]
     /\ session' = [session EXCEPT ![p] = (IF Writers(p) = {} THEN {} ELSE @) \cup {Data(r, o)}]
     /\ UNCHANGED <<modules, stage, storage, dirs>>

\* Mutant: Promise.race instead of Promise.all.
AllCopied_Race(r, ph) ==
  DepsOf(r) = {} \/ \E o \in DepsOf(r) : ph[<<r, o>>] \in {"done", "busy"}
\* The stage of r once an operation has ended well: the output file is
\* followed by all the copies, the last copy by the end of render().
AllCopied(r, ph) == \A o \in DepsOf(r) : ph[<<r, o>>] \in {"done", "busy"}
Advance(r, ph) ==
  IF stage[r] \in {"writing", "copying"} /\ AllCopied(r, ph) THEN "resolved"
  ELSE IF stage[r] = "writing" THEN "copying" ELSE stage[r]

\* Mutant: only the first dependency is copied.
Submitted_First(r) == {o \in DepsOf(r) : o = CHOOSE k \in DepsOf(r) : TRUE}
Submitted(r) == DepsOf(r)

Finish(r, o) ==
  LET p     == FileOf(r, o)
      ended == [phase EXCEPT ![<<r, o>>] = "done"]
      next  == IF IsCopy(o) THEN ended
               ELSE [w \in DOMAIN phase |->
                       IF w[1] = r /\ w[2] \in Submitted(r) THEN "mkdir" ELSE ended[w]]
  IN /\ Open(r, o)
     /\ phase' = next
     /\ stage' = [stage EXCEPT ![r] = Advance(r, next)]
     /\ \E c \in IF Writers(p) = {<<r, o>>} THEN FinalContents(r, o) ELSE {Torn} :
          file' = [file EXCEPT ![p] = c]
     /\ UNCHANGED <<modules, storage, dirs, session>>

\* A failed copy is caught when, and only when, it failed with EBUSY.
CopyBusy(r, o) ==
  LET ended == [phase EXCEPT ![<<r, o>>] = "busy"]
  IN /\ Busy /\ IsCopy(o)
     /\ phase[<<r, o>>] = "ready"
     /\ Writers(FileOf(r, o)) # {}
     /\ phase' = ended
     /\ stage' = [stage EXCEPT ![r] = Advance(r, ended)]
     /\ UNCHANGED <<modules, storage, dirs, file, session>>

\* Mutant: the catch clause swallows every error.
AfterFailure_Swallowed(r, ph) == IF AllCopied(r, [w \in DOMAIN ph |->
  IF ph[w] = "failed" THEN "done" ELSE ph[w]]) THEN "resolved" ELSE stage[r]
\* Any other failure rejects writeFile, or Promise.all, and with it render();
\* copies of r still under way go on.
AfterFailure(r, ph) == IF stage[r] \in Settled THEN stage[r] ELSE "rejected"

FileFails(r, o) ==
  LET p     == FileOf(r, o)
      ended == [phase EXCEPT ![<<r, o>>] = "failed"]
  IN /\ phase[<<r, o>>] \in {"mkdir", "ready", "open"}
     /\ (IF IsCopy(o) THEN "copy" ELSE "write") \in FaultyIO
     /\ phase' = ended
     /\ stage' = [stage EXCEPT ![r] = AfterFailure(r, ended)]
     /\ session' = IF Open(r, o) THEN [session EXCEPT ![p] = @ \cup {Torn}] ELSE session
     /\ UNCHANGED <<modules, storage, dirs, file>>

FileOp(r, o) ==
  Mkdirp(r, o) \/ OpenFile(r, o) \/ Finish(r, o) \/ CopyBusy(r, o) \/ FileFails(r, o)

IO(r) == ReadFails(r) \/ Compile(r) \/ \E o \in Ops : FileOp(r, o)

Next ==
  \/ \E m \in DOMAIN Strings : Register(m)
  \/ \E r \in Renders : Render(r) \/ IO(r)

\* Every I/O operation that was submitted completes, one way or another.
Fairness == \A r \in Renders : WF_vars(IO(r))

Spec == Init /\ [][Next]_vars
FairSpec == Spec /\ Fairness

-----------------------------------------------------------------------------
TypeOK ==
  /\ modules \subseteq DOMAIN Strings
  /\ stage \in [Renders -> Stages]
  /\ storage \in [Renders -> SUBSET DOMAIN Strings]
  /\ phase \in [Renders \X Ops -> Phases]
  /\ dirs \subseteq Dirs
  /\ DOMAIN file = Paths /\ DOMAIN session = Paths

\* Nothing is being written or copied.
Quiet == \A w \in DOMAIN phase : phase[w] \notin {"mkdir", "ready", "open"}

\* The operations that have put data onto p, or tried to.
Users(p) == {w \in OpsOn(p) : phase[w] # "none"}
SameData(p) == \A v, w \in Users(p) : Data(v[1], v[2]) = Data(w[1], w[2])

SomeFailed(p) == \E w \in OpsOn(p) : phase[w] = "failed"

\* When all is quiet, a render that resolved has its output file, whole, and
\* each file some outputter required, under the name and with the contents it
\* asked for, EBUSY or not, unless distinct data met on the file (of other
\* renders, or of its own under keys that differ) or an operation on it failed.
ResolvedFilesIntact ==
  Quiet => \A r \in Renders : stage[r] = "resolved" =>
    /\ SameData(OutOf[r]) /\ ~SomeFailed(OutOf[r]) => file[OutOf[r]] = CodeOf[r]
    /\ \A q \in Requires[r] :
         LET p == PathOf[Normal[q.as]]
         IN SameData(p) /\ ~SomeFailed(p) => file[p] = q.src

\* A write or copy that failed (EBUSY aside) is reported by its own render,
\* and no other render is rejected for it.
FailureReported ==
  \A r \in Renders :
    /\ (\E o \in Ops : phase[<<r, o>>] = "failed") => stage[r] = "rejected"
    /\ stage[r] = "rejected" /\ (\E o \in Ops : phase[<<r, o>>] # "none") =>
         \E o \in Ops : phase[<<r, o>>] = "failed"

\* No outstanding operation of a render outlives its success.
ResolvedMeansFinished ==
  \A r \in Renders : stage[r] = "resolved" =>
    \A o \in DepsOf(r) \cup {Code} : phase[<<r, o>>] \in {"done", "busy"}

\* render() settles: neither EBUSY nor overlapping copies block it.
RenderSettles == \A r \in Renders : stage[r] = "reading" ~> stage[r] \in Settled

-----------------------------------------------------------------------------
(* A claim of the source that the code does not meet *)

\* compile.ts:82-90: an EBUSY is no issue as long as no two renders write
\* distinct contents to one file.
EbusyIsNoIssue ==
  Quiet => \A r \in Renders : \A o \in Ops :
    stage[r] = "resolved" /\ phase[<<r, o>>] = "busy" /\ SameData(FileOf(r, o)) =>
      file[FileOf(r, o)] = Data(r, o)
=============================================================================
