---------------------------- MODULE ModuleLoading ----------------------------
(***************************************************************************)
(* How a LapolCompiler is built: the builder collects thunks and targets,  *)
(* build() runs the thunks, every thunk calls the async function           *)
(* loadModule, a ModuleLoader finalizes each module into the shared        *)
(* registry and starts the module's submodules without awaiting them.      *)
(*                                                                         *)
(* The scheduler is Node's event loop: "queue" is the microtask queue, a   *)
(* FIFO of batches (the jobs one synchronous stretch of code enqueues, in  *)
(* the order given by Precedes), and the I/O of a loader that suspends     *)
(* completes only when that queue is empty.                                *)
(***************************************************************************)
EXTENDS Naturals, Sequences, FiniteSets

CONSTANTS
  Decls,       \* module declarations, numbered in the order the program makes them
  Core,        \* the declaration of std::core
  ParentOf,    \* [Decls -> Decls \cup {0}]: 0 for a module given to withModule
  NameOf,      \* [Decls -> names]: the name the module is loaded under
  TargetOf,    \* [Decls -> SUBSET Targets]: targets that must be present for the
               \* parent's loader to declare this submodule ({}: always)
  Suspending,  \* declarations whose loader awaits I/O before it declares anything
  Faulty,      \* declarations whose loader or finalization may throw
  Targets,     \* target names
  MaxBuilds,   \* bound: calls of build() on the one builder
  LateTargets  \* whether withTargets may still be called after the first build()

ASSUME DeclsAssumption == Decls \subseteq Nat \ {0} /\ IsFiniteSet(Decls)
ASSUME TreeAssumption ==
  /\ ParentOf \in [Decls -> Decls \cup {0}]
  /\ Core \in Decls /\ ParentOf[Core] = 0
  /\ \A d \in Decls : ParentOf[d] < d
ASSUME NamesAssumption == DOMAIN NameOf = Decls
ASSUME TargetsAssumption == TargetOf \in [Decls -> SUBSET Targets]
ASSUME BoundsAssumption == MaxBuilds \in Nat \ {0} /\ LateTargets \in BOOLEAN

VARIABLES
  fault,       \* [Decls -> Faults]: what goes wrong in a loader, fixed by the input
  targets,     \* LapolRegistry.targetNames
  folder,      \* has toFolder() been called
  thunks,      \* the modules LapolCompilerBuilder._thunks will load
  build,       \* status of the promise of each build() call
  members,     \* the loads each build() hands to Promise.all (this._modules)
  left,        \* the elements each Promise.all still waits for
  load,        \* status of the promise of each loadModule call
  declared,    \* submodules with a pending finalize action, per ModuleLoader
  listed,      \* ModuleLoader._loadedSubModules
  returned,    \* the list of names _finalize returned
  registry,    \* the loads whose LapolModule is in LapolRegistry.modules
  io,          \* loads whose loader function is suspended on I/O
  queue,       \* microtask queue
  unhandled    \* loads that rejected with nobody awaiting the finalize action

builderVars == <<targets, folder, thunks>>
buildVars   == <<build, members, left>>
loadVars    == <<load, declared, listed, returned, registry, io, unhandled>>
vars        == <<fault, builderVars, buildVars, loadVars, queue>>

Faults   == {"none", "loader", "finalize"}
Builds   == 1 .. MaxBuilds
Loads    == Decls \X Builds     \* one loadModule call per declaration and build
Top      == {d \in Decls : ParentOf[d] = 0}
SubsOf(d) == {e \in Decls : ParentOf[e] = d}
Name(l)  == NameOf[l[1]]
Names    == {NameOf[d] : d \in Decls}
IsTop(l) == l[1] \in Top
Settled  == {"fulfilled", "rejected"}     \* of a load
Over     == {"resolved", "rejected"}      \* of a build

-----------------------------------------------------------------------------
(* Microtasks *)

JobKinds == {"resume", "abort", "fulfilled", "rejected", "built", "failed"}
Jobs == [kind : JobKinds, load : Loads, build : Builds, turn : Nat]
Job(kind, l, b, turn) == [kind |-> kind, load |-> l, build |-> b, turn |-> turn]

\* The order of two jobs enqueued by the same synchronous stretch of code.
Precedes(j, k) ==
  \/ j.turn < k.turn
  \/ j.turn = k.turn /\ j.load[1] <= k.load[1]

Push(q, batch) == IF batch = {} THEN q ELSE Append(q, batch)
Pop(j) == IF queue[1] = {j} THEN Tail(queue)
                            ELSE [queue EXCEPT ![1] = @ \ {j}]
IsNextJob(j) ==
  /\ queue # <<>>
  /\ j \in queue[1]
  /\ \A k \in queue[1] : Precedes(j, k)

-----------------------------------------------------------------------------
(* loadModule(name, mod, registry): the loader function runs until it      *)
(* returns, throws, or suspends.                                           *)

Suspends(l) == l[1] \in Suspending
Throws(l)   == fault[l[1]] = "loader"

\* Mutant: the exception escapes loadModule.
StartStatus_Escapes(l) == IF ~Suspends(l) /\ Throws(l) THEN "thrown" ELSE "loading"
StartStatus(l) == IF ~Suspends(l) /\ Throws(l) THEN "rejected" ELSE "loading"

\* Mutant: a submodule is declared for the one target that was requested.
Declares_OneTarget(l) == {d \in SubsOf(l[1]) : TargetOf[d] = targets}

\* declareSubModule, guarded by hasTarget in the loaders that use it.
Declares(l) == {d \in SubsOf(l[1]) : TargetOf[d] \subseteq targets}

Started(S)     == [l \in Loads |-> IF l \in S THEN StartStatus(l) ELSE load[l]]
DeclaredBy(S)  == [l \in Loads |-> IF l \in S THEN Declares(l) ELSE declared[l]]

\* Mutant: the continuation is put off by a turn.
ResumeJobs_Late(S) == {Job("resume", l, l[2], MaxBuilds + 1) :
                         l \in {m \in S : ~Suspends(m) /\ ~Throws(m)}}
\* Mutant: nothing goes on with the load of a submodule.
ResumeJobs_TopOnly(S) == {Job("resume", l, l[2], 0) :
                            l \in {m \in S : ~Suspends(m) /\ ~Throws(m) /\ IsTop(m)}}
ResumeJobs(S)  == {Job("resume", l, l[2], 0) :
                     l \in {m \in S : ~Suspends(m) /\ ~Throws(m)}}
ThrowJobs(S)   == {Job("rejected", l, l[2], 0) :
                     l \in {m \in S : ~Suspends(m) /\ Throws(m)}}

\* Mutant: Promise.allSettled instead of Promise.all.
Reactions_AllSettled(l, status) ==
  IF IsTop(l) THEN {Job("fulfilled", l, b, b) : b \in {c \in Builds : l \in members[c]}}
              ELSE {Job(status, l, l[2], 1)}

\* Mutant: the finalize action catches the rejection of its submodule.
Reactions_Caught(l, status) ==
  IF IsTop(l) THEN {Job(status, l, b, b) : b \in {c \in Builds : l \in members[c]}}
  ELSE IF status = "fulfilled" THEN {Job(status, l, l[2], 1)} ELSE {}

\* Who reacts to the settled promise of l: every Promise.all it was given to,
\* or, for a submodule, the finalize action of its parent.
Reactions(l, status) ==
  IF IsTop(l) THEN {Job(status, l, b, b) : b \in {c \in Builds : l \in members[c]}}
              ELSE {Job(status, l, l[2], 1)}

-----------------------------------------------------------------------------
Init ==
  /\ fault \in {f \in [Decls -> Faults] : \A d \in Decls \ Faulty : f[d] = "none"}
  /\ targets = {} /\ folder = FALSE
  /\ thunks = {Core}
  /\ build = [b \in Builds |-> "idle"]
  /\ members = [b \in Builds |-> {}]
  /\ left = [b \in Builds |-> {}]
  /\ load = [l \in Loads |-> "idle"]
  /\ declared = [l \in Loads |-> {}]
  /\ listed = [l \in Loads |-> {}]
  /\ returned = [l \in Loads |-> {}]
  /\ registry = {} /\ io = {} /\ unhandled = {}
  /\ queue = <<>>

-----------------------------------------------------------------------------
(* LapolCompilerBuilder: user code may call it between any two jobs.       *)

WithModule(d) ==
  /\ d \in Top \ thunks
  /\ \A e \in thunks : e < d
  /\ thunks' = thunks \cup {d}
  /\ UNCHANGED <<fault, targets, folder, buildVars, loadVars, queue>>

WithTargets(t) ==
  /\ t \notin targets
  /\ LateTargets \/ \A b \in Builds : build[b] = "idle"
  /\ targets' = targets \cup {t}
  /\ UNCHANGED <<fault, folder, thunks, buildVars, loadVars, queue>>

ToFolder ==
  /\ ~folder
  /\ folder' = TRUE
  /\ UNCHANGED <<fault, targets, thunks, buildVars, loadVars, queue>>

NextBuild(b) == build[b] = "idle" /\ \A c \in Builds : c < b => build[c] # "idle"

BuildWithoutFolder(b) ==
  /\ NextBuild(b)
  /\ ~folder
  /\ build' = [build EXCEPT ![b] = "rejected"]
  /\ UNCHANGED <<fault, builderVars, members, left, loadVars, queue>>

\* All thunks run now; Promise.all is given every promise any build has pushed.
Build(b) ==
  LET S   == thunks \X {b}
      all == S \cup UNION {members[c] : c \in Builds}
  IN /\ NextBuild(b)
     /\ folder
     /\ build' = [build EXCEPT ![b] = "awaiting"]
     /\ members' = [members EXCEPT ![b] = all]
     /\ left' = [left EXCEPT ![b] = all]
     /\ load' = Started(S)
     /\ declared' = DeclaredBy({l \in S : ~Suspends(l)})
     /\ io' = io \cup {l \in S : Suspends(l)}
     /\ queue' = Push(queue, ResumeJobs(S) \cup
                   {Job(load'[l], l, b, l[2]) : l \in {m \in all : load'[m] \in Settled}})
     /\ UNCHANGED <<fault, builderVars, listed, returned, registry, unhandled>>

-----------------------------------------------------------------------------
(* Continuations of loadModule *)

\* Mutant: the rejection of an async loader is swallowed.
AfterIO_Swallowed(l) == IF Throws(l) THEN {} ELSE {Job("resume", l, l[2], 0)}
AfterIO(l) == {Job(IF Throws(l) THEN "abort" ELSE "resume", l, l[2], 0)}

\* The I/O of a suspended loader completes; the rest of its body runs.
LoaderIO(l) ==
  /\ queue = <<>>
  /\ l \in io
  /\ io' = io \ {l}
  /\ declared' = DeclaredBy({l})
  /\ queue' = Push(queue, AfterIO(l))
  /\ UNCHANGED <<fault, builderVars, buildVars, load, listed, returned, registry, unhandled>>

\* The loader's promise rejected: so does loadModule.
Abort(j) ==
  /\ j.kind = "abort"
  /\ load' = [load EXCEPT ![j.load] = "rejected"]
  /\ queue' = Push(Pop(j), Reactions(j.load, "rejected"))
  /\ UNCHANGED <<fault, builderVars, buildVars, declared, listed, returned, registry, io, unhandled>>

\* Mutant: Drawer.declare takes any name.
Taken_Never(n) == FALSE
\* Drawer.declare refuses a name it already holds.
Taken(n) == \E r \in registry : Name(r) = n

CanDeclare(l) == fault[l[1]] # "finalize" /\ ~Taken(Name(l))

\* The submodules whose loads _finalize starts: all that were declared, or
\* those declared before an action that throws.
Startable(l) ==
  {D \in SUBSET declared[l] :
     /\ \A d \in D, e \in declared[l] : e < d => e \in D
     /\ fault[l[1]] # "finalize" => D = declared[l]}

\* _finalize: start the submodules D, build the LapolModule, declare it.
FinalizeWith(j, D) ==
  LET l  == j.load
      S  == D \X {l[2]}
      status == IF CanDeclare(l) THEN "fulfilled" ELSE "rejected"
  IN /\ j.kind = "resume"
     /\ load' = [Started(S) EXCEPT ![l] = status]
     /\ declared' = DeclaredBy({m \in S : ~Suspends(m)})
     /\ io' = io \cup {m \in S : Suspends(m)}
     /\ registry' = IF CanDeclare(l) THEN registry \cup {l} ELSE registry
     /\ returned' = IF CanDeclare(l)
                    THEN [returned EXCEPT ![l] = {Name(l)} \cup listed[l]]
                    ELSE returned
     /\ queue' = Push(Pop(j), ResumeJobs(S) \cup ThrowJobs(S) \cup Reactions(l, status))
     /\ UNCHANGED <<fault, builderVars, buildVars, listed, unhandled>>

Finalize(j) == \E D \in Startable(j.load) : FinalizeWith(j, D)

-----------------------------------------------------------------------------
(* Reactions to a settled loadModule promise *)

\* The finalize action of the parent goes on after "await loadModule(...)".
SubLoaded(j) ==
  LET l == j.load
      p == <<ParentOf[l[1]], l[2]>>
  IN /\ ~IsTop(l)
     /\ \/ /\ j.kind = "fulfilled"
           /\ listed' = [listed EXCEPT ![p] = @ \cup {Name(l)}]
           /\ UNCHANGED unhandled
        \/ /\ j.kind = "rejected"
           /\ unhandled' = unhandled \cup {l}
           /\ UNCHANGED listed
     /\ queue' = Pop(j)
     /\ UNCHANGED <<fault, builderVars, buildVars, load, declared, returned, registry, io>>

Undecided(b) == build[b] = "awaiting"

\* Mutant: Promise.any instead of Promise.all.
LastOf_Any(b, l) == TRUE
\* Mutant: the count of remaining elements never reaches zero.
LastOf_OffByOne(b, l) == left[b] = {}
LastOf(b, l) == left[b] \ {l} = {}

\* Promise.all: one element fulfilled; the last one fulfils the whole.
ElementFulfilled(j) ==
  LET b == j.build
      done == Undecided(b) /\ LastOf(b, j.load)
  IN /\ IsTop(j.load) /\ j.kind = "fulfilled"
     /\ left' = [left EXCEPT ![b] = @ \ {j.load}]
     /\ build' = IF done THEN [build EXCEPT ![b] = "settling"] ELSE build
     /\ queue' = Push(Pop(j), IF done THEN {Job("built", j.load, b, 0)} ELSE {})
     /\ UNCHANGED <<fault, builderVars, members, loadVars>>

\* Promise.all: the first rejection rejects the whole, later ones are ignored.
ElementRejected(j) ==
  LET b == j.build
      first == Undecided(b)
  IN /\ IsTop(j.load) /\ j.kind = "rejected"
     /\ build' = IF first THEN [build EXCEPT ![b] = "settling"] ELSE build
     /\ queue' = Push(Pop(j), IF first THEN {Job("failed", j.load, b, 0)} ELSE {})
     /\ UNCHANGED <<fault, builderVars, members, left, loadVars>>

\* build() goes on after "await Promise.all(...)" and returns or throws.
BuildReturns(j) ==
  /\ \/ /\ j.kind = "built"
        /\ build' = [build EXCEPT ![j.build] = "resolved"]
     \/ /\ j.kind = "failed"
        /\ build' = [build EXCEPT ![j.build] = "rejected"]
  /\ queue' = Pop(j)
  /\ UNCHANGED <<fault, builderVars, members, left, loadVars>>

-----------------------------------------------------------------------------
RunJob(j) ==
  /\ IsNextJob(j)
  /\ \/ Abort(j)
     \/ Finalize(j)
     \/ SubLoaded(j)
     \/ ElementFulfilled(j)
     \/ ElementRejected(j)
     \/ BuildReturns(j)

Microtask == queue # <<>> /\ \E j \in queue[1] : RunJob(j)

UserCall ==
  \/ \E d \in Decls : WithModule(d)
  \/ \E t \in Targets : WithTargets(t)
  \/ ToFolder
  \/ \E b \in Builds : Build(b) \/ BuildWithoutFolder(b)

Next == UserCall \/ Microtask \/ \E l \in io : LoaderIO(l)

Fairness == WF_vars(Microtask) /\ \A l \in Loads : WF_vars(LoaderIO(l))

Spec == Init /\ [][Next]_vars
FairSpec == Spec /\ Fairness

-----------------------------------------------------------------------------
TypeOK ==
  /\ fault \in [Decls -> Faults]
  /\ targets \subseteq Targets
  /\ folder \in BOOLEAN
  /\ thunks \subseteq Top
  /\ build \in [Builds -> {"idle", "awaiting", "settling"} \cup Over]
  /\ members \in [Builds -> SUBSET Loads]
  /\ left \in [Builds -> SUBSET Loads]
  /\ load \in [Loads -> {"idle", "loading"} \cup Settled]
  /\ declared \in [Loads -> SUBSET Decls]
  /\ listed \in [Loads -> SUBSET Names]
  /\ returned \in [Loads -> SUBSET Names]
  /\ registry \subseteq Loads
  /\ io \subseteq Loads
  /\ queue \in Seq(SUBSET Jobs)
  /\ unhandled \subseteq Loads

-----------------------------------------------------------------------------
(* Safety *)

\* A build() that resolved hands out a compiler whose registry holds every
\* module given to withModule: no load is lost, ignored or still running.
ResolvedMeansRegistered ==
  \A b \in Builds : build[b] = "resolved" => members[b] \subseteq registry

\* No two modules are ever registered under one name, whatever the order in
\* which concurrent loads reach Drawer.declare.
NamesUnique == \A r, s \in registry : Name(r) = Name(s) => r = s

\* A builder yields one compiler at most: a second build() loads std::core
\* again, whose name is taken, even when the two builds overlap.
OneBuildResolves ==
  \A b, c \in Builds : build[b] = "resolved" /\ build[c] = "resolved" => b = c

\* The submodules a load of a member of a build has started, and their own.
StartedBy(l) == declared[l] \X {l[2]}
NoneSuspends(l) == ~Suspends(l) /\ load[l] # "idle"

\* build() does not await submodules, yet the microtask order makes every
\* submodule that does no I/O settle before build() resolves, and so does
\* every submodule of such a submodule.
SyncSubmodulesFirst ==
  \A b \in Builds : build[b] = "resolved" =>
    \A l \in members[b] : \A m \in StartedBy(l) :
      NoneSuspends(m) =>
        /\ load[m] \in Settled
        /\ load[m] = "fulfilled" =>
             \A n \in StartedBy(m) : NoneSuspends(n) => load[n] \in Settled

\* No failure of a load is swallowed: by the time the microtasks have run out,
\* it has rejected every build() that was handed the load, of this call or of a
\* later one, and that of a submodule, which nobody awaits, is unhandled.
FailuresSurface ==
  queue = <<>> => \A l \in Loads : load[l] = "rejected" =>
    /\ \A b \in Builds : l \in members[b] => build[b] = "rejected"
    /\ ~IsTop(l) => l \in unhandled

-----------------------------------------------------------------------------
(* Liveness, given that microtasks run and that I/O completes *)

\* Every build() that was called settles, faulty modules or not; and so does
\* in the end every submodule that a module which loaded has declared, even
\* after build() has resolved without it.
EverythingSettles ==
  /\ \A b \in Builds : build[b] = "awaiting" ~> build[b] \in Over
  /\ \A l \in Loads : load[l] = "fulfilled" ~> \A m \in StartedBy(l) : load[m] \in Settled

-----------------------------------------------------------------------------
(* Refinement *)

\* The builder, its loader and the event loop keep the promises of
\* BuilderContract: "settling" is a build whose continuation is still queued.
Contract == INSTANCE BuilderContract WITH
  NameOf <- [l \in Loads |-> Name(l)],
  failed <- {l \in Loads : load[l] = "rejected"},
  build  <- [b \in Builds |-> IF build[b] = "settling" THEN "awaiting" ELSE build[b]]

ImplementsContract == Contract!Spec

-----------------------------------------------------------------------------
(* The inductive invariant behind the safety properties                    *)

Continues(j) == j.kind \in {"resume", "abort"}     \* of a loadModule call
Ends(j)      == j.kind \in {"built", "failed"}     \* a build() call
Pending(q)   == UNION {q[i] : i \in DOMAIN q}

\* Two jobs that go on with the same call: a call has one continuation.
Rivals(j, m) ==
  \/ Continues(j) /\ Continues(m) /\ j.load = m.load
  \/ Ends(j) /\ Ends(m) /\ j.build = m.build
Exclusive(q) ==
  \A i, k \in DOMAIN q : \A j \in q[i], m \in q[k] : Rivals(j, m) => i = k /\ j = m

RegistryInv == registry = {l \in Loads : load[l] = "fulfilled"}

\* Loads start once: a module's with its build, a submodule's with the
\* finalization of its parent.
StartInv ==
  /\ \A l \in Loads : declared[l] \subseteq SubsOf(l[1])
  /\ \A l \in Loads : IsTop(l) /\ build[l[2]] = "idle" => load[l] = "idle"
  /\ \A l \in Loads : ~IsTop(l) /\ load[<<ParentOf[l[1]], l[2]>>] \in {"idle", "loading"}
                        => load[l] = "idle"

JobInv(j) ==
  /\ Continues(j) => load[j.load] = "loading" /\ j.load \notin io
  /\ j.kind = "fulfilled" => load[j.load] = "fulfilled"
  /\ j.kind = "rejected" => load[j.load] = "rejected"
  /\ j.kind \in Settled /\ IsTop(j.load) => j.load \in members[j.build]
  /\ Ends(j) => build[j.build] = "settling"
  /\ j.kind = "built" => members[j.build] \subseteq registry
  /\ j.kind = "failed" => \E l \in members[j.build] : load[l] = "rejected"

QueueInv == Exclusive(queue) /\ \A j \in Pending(queue) : JobInv(j)

BuildInv ==
  \A b \in Builds :
    /\ members[b] \ left[b] \subseteq registry
    /\ build[b] \in {"awaiting", "settling", "resolved"} => <<Core, b>> \in members[b]
    /\ build[b] = "resolved" => members[b] \subseteq registry

\* The builder's bookkeeping is coherent at every job boundary.
IInv ==
  /\ TypeOK
  /\ Core \in thunks
  /\ \A l \in io : load[l] = "loading"
  /\ NamesUnique
  /\ RegistryInv
  /\ StartInv
  /\ QueueInv
  /\ BuildInv
-----------------------------------------------------------------------------
(* The order of the microtasks behind SyncSubmodulesFirst                  *)

SyncSubs(l) == {m \in StartedBy(l) : ~Suspends(m)}
Resume(m)   == Job("resume", m, m[2], 0)

\* Job r runs before any job of the k-th batch of q that has the given turn.
Before(q, r, k, turn) == \E i \in DOMAIN q : r \in q[i] /\ (i < k \/ (i = k /\ 0 < turn))

IsSettled(m) == load[m] \in Settled
Settles(m)   == IsSettled(m) \/ Resume(m) \in Pending(queue)
SettlesBefore(m, k, turn) == IsSettled(m) \/ Before(queue, Resume(m), k, turn)

\* A load that fulfilled has put its synchronous submodules on their way, and
\* ahead of every reaction to its own promise.
SubsOnTheirWay ==
  /\ \A l \in Loads : load[l] = "fulfilled" => \A m \in SyncSubs(l) : Settles(m)
  /\ \A k \in DOMAIN queue : \A j \in queue[k] :
       j.kind = "fulfilled" /\ IsTop(j.load) =>
         \A m \in SyncSubs(j.load) : SettlesBefore(m, k, j.turn)

\* When Promise.all has counted a load, the load's submodules have settled; when
\* it has counted them all, their own settle before build() goes on.
SubsCounted ==
  /\ \A b \in Builds : \A l \in members[b] \ left[b] : \A m \in SyncSubs(l) : IsSettled(m)
  /\ \A k \in DOMAIN queue : \A j \in queue[k] : j.kind = "built" =>
       \A l \in members[j.build] : \A m \in SyncSubs(l) :
         /\ IsSettled(m)
         /\ load[m] = "fulfilled" => \A n \in SyncSubs(m) : SettlesBefore(n, k, j.turn)
  /\ \A b \in Builds : build[b] = "resolved" =>
       \A l \in members[b] : \A m \in SyncSubs(l) :
         /\ IsSettled(m)
         /\ load[m] = "fulfilled" => \A n \in SyncSubs(m) : IsSettled(n)

OrderInv == SubsOnTheirWay /\ SubsCounted

-----------------------------------------------------------------------------
(* Why loads come to what they do                                          *)

\* Loads belong to a build() that was called; only a fault that the input may
\* have, or a name that is taken, makes one fail.
LoadsInv ==
  /\ \A d \in Decls \ Faulty : fault[d] = "none"
  /\ \A b \in Builds : members[b] # {} => build[b] # "idle"
  /\ \A l \in Loads : load[l] # "idle" =>
       members[l[2]] # {} /\ (IsTop(l) => l \in members[l[2]])
  /\ \A l \in io : Suspends(l)
  /\ \A l \in Loads : load[l] = "rejected" => fault[l[1]] # "none" \/ Taken(Name(l))
  /\ \A j \in Pending(queue) : j.kind = "abort" => Throws(j.load)

\* When the targets are given before build(), every loader sees all of them.
TargetsInv ==
  ~LateTargets => \A l \in Loads : load[l] # "idle" /\ l \notin io => declared[l] = Declares(l)
=============================================================================
