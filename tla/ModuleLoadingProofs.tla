------------------------- MODULE ModuleLoadingProofs -------------------------
(***************************************************************************)
(* Proofs about ModuleLoading for every set of modules, every tree of      *)
(* submodules, every choice of names and faults, and any number of builds; *)
(* and about Lapol, which renders files with what was loaded.              *)
(***************************************************************************)
EXTENDS Lapol, FiniteSetTheorems, TLAPS

-----------------------------------------------------------------------------
(* The microtask queue *)

\* Pushing a batch adds its jobs to the pending ones and no others.
LEMMA PushPending ==
  ASSUME NEW q \in Seq(SUBSET Jobs), NEW B \in SUBSET Jobs
  PROVE  /\ Push(q, B) \in Seq(SUBSET Jobs)
         /\ Pending(Push(q, B)) = Pending(q) \cup B
<1>1. CASE B = {}
  BY <1>1 DEF Push, Pending
<1>2. CASE B # {}
  <2>1. Push(q, B) = Append(q, B)
    BY <1>2 DEF Push
  <2>2. /\ DOMAIN Append(q, B) = 1 .. Len(q) + 1
        /\ DOMAIN q = 1 .. Len(q)
        /\ Append(q, B)[Len(q) + 1] = B
        /\ \A i \in DOMAIN q : Append(q, B)[i] = q[i]
    OBVIOUS
  <2>3. Pending(Append(q, B)) = Pending(q) \cup B
    <3>1. \A i \in DOMAIN q : i \in DOMAIN Append(q, B)
      BY <2>2
    <3>2. Len(q) + 1 \in DOMAIN Append(q, B)
      BY <2>2
    <3>3. \A i \in DOMAIN Append(q, B) : i \in DOMAIN q \/ i = Len(q) + 1
      BY <2>2
    <3> QED BY <2>2, <3>1, <3>2, <3>3, Zenon DEF Pending
  <2> QED BY <2>1, <2>3
<1> QED BY <1>1, <1>2

\* Pushing a batch keeps continuations exclusive if the batch brings one
\* continuation per call, and none for a call that has one already.
LEMMA PushExclusive ==
  ASSUME NEW q \in Seq(SUBSET Jobs), NEW B \in SUBSET Jobs,
         Exclusive(q),
         \A j, m \in B : Rivals(j, m) => j = m,
         \A j \in Pending(q), m \in B : ~Rivals(j, m)
  PROVE  Exclusive(Push(q, B))
<1>1. CASE B = {}
  BY <1>1 DEF Push
<1>2. CASE B # {}
  <2>1. Push(q, B) = Append(q, B)
    BY <1>2 DEF Push
  <2>2. \A j, m \in Jobs : Rivals(j, m) => Rivals(m, j)
    BY DEF Rivals
  <2>3. SUFFICES ASSUME NEW i \in DOMAIN Append(q, B), NEW k \in DOMAIN Append(q, B),
                        NEW j \in Append(q, B)[i], NEW m \in Append(q, B)[k],
                        Rivals(j, m)
                 PROVE  i = k /\ j = m
    BY <2>1 DEF Exclusive
  <2>4. /\ \A h \in DOMAIN Append(q, B) : h = Len(q) + 1 \/ h \in DOMAIN q
        /\ Append(q, B)[Len(q) + 1] = B
        /\ \A h \in DOMAIN q : Append(q, B)[h] = q[h] /\ q[h] \subseteq Jobs
    OBVIOUS
  <2>5. \A h \in DOMAIN q : q[h] \subseteq Pending(q)
    BY DEF Pending
  <2>6. CASE i \in DOMAIN q /\ k \in DOMAIN q
    BY <2>3, <2>4, <2>6 DEF Exclusive
  <2>7. CASE i \in DOMAIN q /\ k = Len(q) + 1
    BY <2>3, <2>4, <2>5, <2>7
  <2>8. CASE i = Len(q) + 1 /\ k \in DOMAIN q
    BY <2>2, <2>3, <2>4, <2>5, <2>8
  <2>9. CASE i = Len(q) + 1 /\ k = Len(q) + 1
    BY <2>3, <2>4, <2>9
  <2> QED BY <2>4, <2>6, <2>7, <2>8, <2>9
<1> QED BY <1>1, <1>2

\* Running the next job removes it: nothing is added, the others stay
\* exclusive, and no other continuation of the same call is pending.
LEMMA PopQueue ==
  ASSUME queue \in Seq(SUBSET Jobs), NEW j, IsNextJob(j)
  PROVE  /\ j \in Jobs /\ j \in Pending(queue)
         /\ Pop(j) \in Seq(SUBSET Jobs)
         /\ Pending(Pop(j)) \subseteq Pending(queue)
         /\ Exclusive(queue) =>
              Exclusive(Pop(j)) /\ \A m \in Pending(Pop(j)) : ~Rivals(j, m)
<1>1. queue # <<>> /\ 1 \in DOMAIN queue /\ j \in queue[1] /\ queue[1] \subseteq Jobs
  BY DEF IsNextJob
<1>2. j \in Jobs /\ j \in Pending(queue)
  BY <1>1 DEF Pending
<1>3. CASE queue[1] = {j}
  <2>1. Pop(j) = Tail(queue)
    BY <1>3 DEF Pop
  <2>2. /\ Tail(queue) \in Seq(SUBSET Jobs)
        /\ \A i \in DOMAIN Tail(queue) :
             i \in Nat /\ i # 0 /\ i + 1 \in DOMAIN queue /\ Tail(queue)[i] = queue[i + 1]
    BY <1>1
  <2>3. Pending(Tail(queue)) \subseteq Pending(queue)
    BY <2>2 DEF Pending
  <2>4. ASSUME Exclusive(queue)
        PROVE  Exclusive(Tail(queue))
    BY <2>2, <2>4 DEF Exclusive
  <2>5. ASSUME Exclusive(queue), NEW m \in Pending(Tail(queue))
        PROVE  ~Rivals(j, m)
    <3>1. PICK i \in DOMAIN Tail(queue) : m \in Tail(queue)[i]
      BY DEF Pending
    <3>2. m \in queue[i + 1] /\ i + 1 \in DOMAIN queue /\ i + 1 # 1
      BY <2>2, <3>1
    <3> QED BY <1>1, <2>5, <3>2 DEF Exclusive
  <2> QED BY <1>2, <2>1, <2>2, <2>3, <2>4, <2>5
<1>4. CASE queue[1] # {j}
  <2> DEFINE Q == [queue EXCEPT ![1] = @ \ {j}]
  <2>1. Pop(j) = Q
    BY <1>4 DEF Pop
  <2>2. /\ Q \in Seq(SUBSET Jobs)
        /\ DOMAIN Q = DOMAIN queue
        /\ \A i \in DOMAIN Q : Q[i] \subseteq queue[i]
        /\ Q[1] = queue[1] \ {j}
    BY <1>1
  <2> HIDE DEF Q
  <2>3. Pending(Q) \subseteq Pending(queue)
    BY <2>2 DEF Pending
  <2>4. ASSUME Exclusive(queue)
        PROVE  Exclusive(Q)
    BY <2>2, <2>4 DEF Exclusive
  <2>5. ASSUME Exclusive(queue), NEW m \in Pending(Q)
        PROVE  ~Rivals(j, m)
    <3>1. PICK i \in DOMAIN Q : m \in Q[i]
      BY DEF Pending
    <3>2. SUFFICES ASSUME Rivals(j, m) PROVE FALSE
      OBVIOUS
    <3>3. i = 1 /\ m = j
      BY <1>1, <2>2, <2>5, <3>1, <3>2 DEF Exclusive
    <3> QED BY <2>2, <3>1, <3>3
  <2> QED BY <1>2, <2>1, <2>2, <2>3, <2>4, <2>5
<1> QED BY <1>3, <1>4

-----------------------------------------------------------------------------
(* What the operators of the model return *)

\* A load is a declaration of the program in one of the builds.
LEMMA LoadFacts ==
  /\ \A l \in Loads : l[1] \in Decls /\ l[2] \in Builds /\ l = <<l[1], l[2]>>
  /\ \A d \in Decls, b \in Builds :
       <<d, b>> \in Loads /\ <<d, b>>[1] = d /\ <<d, b>>[2] = b
  /\ Builds \subseteq Nat /\ 0 \in Nat /\ 0 \notin Decls
  /\ Core \in Top /\ Top \subseteq Decls
  /\ \A d \in Decls : ParentOf[d] \in Decls \cup {0} /\ ParentOf[d] # d
  /\ \A l \in Loads : Name(l) \in Names
<1>1. /\ \A l \in Loads : l[1] \in Decls /\ l[2] \in Builds /\ l = <<l[1], l[2]>>
      /\ \A d \in Decls, b \in Builds :
           <<d, b>> \in Loads /\ <<d, b>>[1] = d /\ <<d, b>>[2] = b
  BY DEF Loads
<1>2. Builds \subseteq Nat /\ 0 \in Nat /\ 0 \notin Decls
  BY DeclsAssumption, BoundsAssumption DEF Builds
<1>3. Core \in Top /\ Top \subseteq Decls
  BY TreeAssumption DEF Top
<1>4. \A d \in Decls : ParentOf[d] \in Decls \cup {0} /\ ParentOf[d] # d
  BY DeclsAssumption, TreeAssumption
<1>5. \A l \in Loads : Name(l) \in Names
  BY <1>1 DEF Name, Names
<1> QED BY <1>1, <1>2, <1>3, <1>4, <1>5

\* The jobs a step may enqueue are jobs.
LEMMA JobTypes ==
  /\ \A k \in JobKinds, l \in Loads, b \in Builds, t \in Nat : Job(k, l, b, t) \in Jobs
  /\ \A S \in SUBSET Loads : ResumeJobs(S) \subseteq Jobs /\ ThrowJobs(S) \subseteq Jobs
  /\ \A l \in Loads, st \in Settled : Reactions(l, st) \subseteq Jobs
BY LoadFacts DEF Job, Jobs, JobKinds, ResumeJobs, ThrowJobs, Reactions, Settled

\* Starting loads keeps the statuses and the declarations well typed.
LEMMA StartTypes ==
  ASSUME TypeOK, NEW S \in SUBSET Loads
  PROVE  /\ Started(S) \in [Loads -> {"idle", "loading"} \cup Settled]
         /\ DeclaredBy(S) \in [Loads -> SUBSET Decls]
BY DEF TypeOK, Started, StartStatus, DeclaredBy, Declares, SubsOf, Settled

\* A submodule job's parent is a load of the same build.
LEMMA ParentLoad ==
  ASSUME NEW l \in Loads, ~IsTop(l)
  PROVE  <<ParentOf[l[1]], l[2]>> \in Loads
BY LoadFacts, TreeAssumption DEF IsTop, Top

-----------------------------------------------------------------------------
(* Type correctness *)

\* The initial states are well typed.
LEMMA TypeInit == Init => TypeOK
<1> SUFFICES ASSUME Init PROVE TypeOK
  OBVIOUS
<1>1. fault \in [Decls -> Faults]
  BY DEF Init
<1>2. queue \in Seq(SUBSET Jobs)
  BY DEF Init
<1>3. thunks \subseteq Top
  BY LoadFacts DEF Init
<1> QED BY <1>1, <1>2, <1>3 DEF Init, TypeOK

\* Every step of the builder and of the event loop preserves the types.
LEMMA TypeStep == TypeOK /\ [Next]_vars => TypeOK'
<1> SUFFICES ASSUME TypeOK, [Next]_vars PROVE TypeOK'
  OBVIOUS
<1> USE LoadFacts
<1>1. ASSUME NEW d \in Decls, WithModule(d) PROVE TypeOK'
  BY <1>1 DEF WithModule, TypeOK, buildVars, loadVars
<1>2. ASSUME NEW t \in Targets, WithTargets(t) PROVE TypeOK'
  BY <1>2 DEF WithTargets, TypeOK, buildVars, loadVars
<1>3. CASE ToFolder
  BY <1>3 DEF ToFolder, TypeOK, buildVars, loadVars
<1>4. ASSUME NEW b \in Builds, BuildWithoutFolder(b) PROVE TypeOK'
  BY <1>4 DEF BuildWithoutFolder, TypeOK, builderVars, loadVars, Over
<1>5. ASSUME NEW b \in Builds, Build(b) PROVE TypeOK'
  <2> DEFINE S == thunks \X {b}
             all == S \cup UNION {members[c] : c \in Builds}
             again == {Job(load'[l], l, b, l[2]) : l \in {m \in all : load'[m] \in Settled}}
  <2>1. S \in SUBSET Loads /\ all \in SUBSET Loads
    BY DEF TypeOK, Top, Loads
  <2>2. again \subseteq Jobs
    BY <2>1, JobTypes DEF JobKinds, Settled
  <2>3. ResumeJobs(S) \cup again \in SUBSET Jobs
    BY <2>1, <2>2, JobTypes
  <2>4. queue' = Push(queue, ResumeJobs(S) \cup again)
    BY <1>5 DEF Build
  <2>5. queue' \in Seq(SUBSET Jobs)
    BY <2>3, <2>4, PushPending DEF TypeOK
  <2>6. load' \in [Loads -> {"idle", "loading"} \cup Settled]
    BY <1>5, <2>1, StartTypes DEF Build
  <2>7. {l \in S : ~Suspends(l)} \in SUBSET Loads
    BY <2>1
  <2>8. declared' \in [Loads -> SUBSET Decls]
    BY <1>5, <2>7, StartTypes DEF Build
  <2>9. members' \in [Builds -> SUBSET Loads] /\ left' \in [Builds -> SUBSET Loads]
        /\ io' \subseteq Loads
    BY <1>5, <2>1 DEF Build, TypeOK
  <2> QED BY <1>5, <2>5, <2>6, <2>8, <2>9 DEF Build, TypeOK, builderVars, Over
<1>6. ASSUME NEW l \in io, LoaderIO(l) PROVE TypeOK'
  <2>1. l \in Loads
    BY DEF TypeOK
  <2>2. AfterIO(l) \in SUBSET Jobs
    BY <2>1, JobTypes DEF AfterIO, JobKinds
  <2>3. queue' \in Seq(SUBSET Jobs)
    BY <1>6, <2>2, PushPending DEF LoaderIO, TypeOK
  <2>4. declared' \in [Loads -> SUBSET Decls]
    BY <1>6, <2>1, StartTypes DEF LoaderIO
  <2> QED BY <1>6, <2>3, <2>4 DEF LoaderIO, TypeOK, builderVars, buildVars
<1>7. ASSUME NEW j \in queue[1], RunJob(j) PROVE TypeOK'
  <2>1. /\ j \in Jobs /\ Pop(j) \in Seq(SUBSET Jobs)
        /\ j.load \in Loads /\ j.build \in Builds /\ j.kind \in JobKinds
    BY <1>7, PopQueue DEF RunJob, TypeOK, Jobs
  <2>2. ASSUME NEW B \in SUBSET Jobs
        PROVE  Push(Pop(j), B) \in Seq(SUBSET Jobs)
    BY <2>1, PushPending
  <2>3. CASE Abort(j)
    <3>1. Reactions(j.load, "rejected") \in SUBSET Jobs
      BY <2>1, JobTypes DEF Settled
    <3> QED BY <2>1, <2>2, <2>3, <3>1 DEF Abort, TypeOK, builderVars, buildVars, Settled
  <2>4. CASE Finalize(j)
    <3>0. PICK D \in Startable(j.load) : FinalizeWith(j, D)
      BY <2>4 DEF Finalize
    <3> DEFINE l == j.load
               S == D \X {l[2]}
               status == IF CanDeclare(l) THEN "fulfilled" ELSE "rejected"
    <3>1. S \in SUBSET Loads /\ {m \in S : ~Suspends(m)} \in SUBSET Loads
      BY <2>1 DEF TypeOK, Loads, Startable
    <3>2. ResumeJobs(S) \cup ThrowJobs(S) \cup Reactions(l, status) \in SUBSET Jobs
      BY <2>1, <3>1, JobTypes DEF Settled
    <3>3. queue' \in Seq(SUBSET Jobs)
      BY <2>2, <3>0, <3>2 DEF FinalizeWith
    <3>4. load' \in [Loads -> {"idle", "loading"} \cup Settled]
      <4>1. Started(S) \in [Loads -> {"idle", "loading"} \cup Settled]
        BY <3>1, StartTypes
      <4>2. status \in Settled /\ load' = [Started(S) EXCEPT ![l] = status]
        BY <3>0 DEF FinalizeWith, Settled
      <4> HIDE DEF S, status
      <4> QED BY <2>1, <4>1, <4>2
    <3>5. declared' \in [Loads -> SUBSET Decls]
      BY <3>0, <3>1, StartTypes DEF FinalizeWith
    <3>6. returned' \in [Loads -> SUBSET Names]
      <4>1. returned \in [Loads -> SUBSET Names] /\ {Name(l)} \cup listed[l] \in SUBSET Names
        BY <2>1 DEF TypeOK
      <4>2. \/ returned' = [returned EXCEPT ![l] = {Name(l)} \cup listed[l]]
            \/ returned' = returned
        BY <3>0 DEF FinalizeWith
      <4> QED BY <2>1, <4>1, <4>2
    <3>7. io' \subseteq Loads /\ registry' \subseteq Loads
      BY <2>1, <3>0, <3>1 DEF FinalizeWith, TypeOK
    <3>8. UNCHANGED <<fault, targets, folder, thunks, build, members, left, listed, unhandled>>
      BY <3>0 DEF FinalizeWith, builderVars, buildVars
    <3> QED BY <3>3, <3>4, <3>5, <3>6, <3>7, <3>8 DEF TypeOK
  <2>5. CASE SubLoaded(j)
    <3>1. listed' \in [Loads -> SUBSET Names]
      <4> DEFINE p == <<ParentOf[j.load[1]], j.load[2]>>
      <4>1. Name(j.load) \in Names /\ p \in Loads
        BY <2>1, <2>5, ParentLoad DEF SubLoaded
      <4>2. \/ listed' = [listed EXCEPT ![p] = @ \cup {Name(j.load)}]
            \/ listed' = listed
        BY <2>5 DEF SubLoaded
      <4>3. listed \in [Loads -> SUBSET Names]
        BY DEF TypeOK
      <4> HIDE DEF p
      <4> QED BY <4>1, <4>2, <4>3
    <3>2. unhandled' \subseteq Loads /\ queue' \in Seq(SUBSET Jobs)
      BY <2>1, <2>5 DEF SubLoaded, TypeOK
    <3>3. UNCHANGED <<fault, targets, folder, thunks, build, members, left, load, declared,
                      returned, registry, io>>
      BY <2>5 DEF SubLoaded, builderVars, buildVars
    <3> QED BY <3>1, <3>2, <3>3 DEF TypeOK
  <2>6. CASE ElementFulfilled(j)
    <3>1. Job("built", j.load, j.build, 0) \in Jobs
      BY <2>1, JobTypes DEF JobKinds
    <3>2. queue' \in Seq(SUBSET Jobs)
      <4>1. PICK B \in {{}, {Job("built", j.load, j.build, 0)}} : queue' = Push(Pop(j), B)
        BY <2>6 DEF ElementFulfilled
      <4> QED BY <2>2, <3>1, <4>1
    <3>3. build' \in [Builds -> {"idle", "awaiting", "settling"} \cup Over]
          /\ left' \in [Builds -> SUBSET Loads]
      BY <2>1, <2>6 DEF ElementFulfilled, TypeOK
    <3>4. UNCHANGED <<fault, targets, folder, thunks, members, load, declared, listed,
                      returned, registry, io, unhandled>>
      BY <2>6 DEF ElementFulfilled, builderVars, loadVars
    <3> QED BY <3>2, <3>3, <3>4 DEF TypeOK
  <2>7. CASE ElementRejected(j)
    <3>1. Job("failed", j.load, j.build, 0) \in Jobs
      BY <2>1, JobTypes DEF JobKinds
    <3>2. queue' \in Seq(SUBSET Jobs)
      <4>1. PICK B \in {{}, {Job("failed", j.load, j.build, 0)}} : queue' = Push(Pop(j), B)
        BY <2>7 DEF ElementRejected
      <4> QED BY <2>2, <3>1, <4>1
    <3>3. build' \in [Builds -> {"idle", "awaiting", "settling"} \cup Over]
          /\ left' \in [Builds -> SUBSET Loads]
      BY <2>1, <2>7 DEF ElementRejected, TypeOK
    <3>4. UNCHANGED <<fault, targets, folder, thunks, members, load, declared, listed,
                      returned, registry, io, unhandled>>
      BY <2>7 DEF ElementRejected, builderVars, loadVars
    <3> QED BY <3>2, <3>3, <3>4 DEF TypeOK
  <2>8. CASE BuildReturns(j)
    <3>1. \/ build' = [build EXCEPT ![j.build] = "resolved"]
          \/ build' = [build EXCEPT ![j.build] = "rejected"]
      BY <2>8 DEF BuildReturns
    <3>2. build' \in [Builds -> {"idle", "awaiting", "settling"} \cup Over]
      BY <2>1, <3>1 DEF TypeOK, Over
    <3>3. queue' \in Seq(SUBSET Jobs)
      BY <2>1, <2>8 DEF BuildReturns
    <3>4. UNCHANGED <<fault, targets, folder, thunks, members, left, load, declared, listed,
                      returned, registry, io, unhandled>>
      BY <2>8 DEF BuildReturns, builderVars, loadVars
    <3> QED BY <3>2, <3>3, <3>4 DEF TypeOK
  <2> QED BY <1>7, <2>3, <2>4, <2>5, <2>6, <2>7, <2>8 DEF RunJob
<1>8. CASE UNCHANGED vars
  BY <1>8 DEF vars, TypeOK, builderVars, buildVars, loadVars
<1> QED BY <1>1, <1>2, <1>3, <1>4, <1>5, <1>6, <1>7, <1>8 DEF Next, UserCall, Microtask

\* Type correctness of the builder, for every instance.
THEOREM TypeCorrect == Spec => []TypeOK
BY TypeInit, TypeStep, PTL DEF Spec

-----------------------------------------------------------------------------
(* The jobs a step enqueues *)

\* Which jobs a step may enqueue, and about which loads: the jobs of
\* ResumeJobs, ThrowJobs and Reactions name the load they go on with.
LEMMA NewJobs ==
  /\ \A S \in SUBSET Loads :
       /\ \A m \in ResumeJobs(S) : /\ m.kind = "resume" /\ m.load \in S
                                   /\ ~Suspends(m.load) /\ ~Throws(m.load)
       /\ \A m, n \in ResumeJobs(S) : m.load = n.load => m = n
       /\ \A m \in ThrowJobs(S) : /\ m.kind = "rejected" /\ m.load \in S
                                  /\ ~Suspends(m.load) /\ Throws(m.load)
  /\ \A l \in Loads, st \in Settled : \A m \in Reactions(l, st) :
       m.kind = st /\ m.load = l /\ (IsTop(l) => l \in members[m.build])
BY DEF ResumeJobs, ThrowJobs, Reactions, Job

\* What Started does to the status of a load.
LEMMA StartedIs ==
  ASSUME NEW S \in SUBSET Loads, NEW l \in Loads
  PROVE  /\ l \notin S => Started(S)[l] = load[l]
         /\ l \in S /\ ~Suspends(l) /\ Throws(l) => Started(S)[l] = "rejected"
         /\ l \in S /\ (Suspends(l) \/ ~Throws(l)) => Started(S)[l] = "loading"
BY DEF Started, StartStatus

\* What DeclaredBy does to the submodules of a load.
LEMMA DeclaredIs ==
  ASSUME NEW S \in SUBSET Loads, NEW l \in Loads,
         declared[l] \subseteq SubsOf(l[1])
  PROVE  DeclaredBy(S)[l] \subseteq SubsOf(l[1])
BY DEF DeclaredBy, Declares

\* What a job step must show for the queue invariant.
LEMMA QueueStep ==
  ASSUME TypeOK, QueueInv, NEW j, IsNextJob(j), NEW B \in SUBSET Jobs,
         queue' = Push(Pop(j), B),
         \A m, n \in B : Rivals(m, n) => m = n,
         \A m \in Pending(queue), n \in B : ~Rivals(j, m) => ~Rivals(m, n),
         \A m \in Pending(queue) : JobInv(m) /\ ~Rivals(j, m) => JobInv(m)',
         \A m \in B : JobInv(m)'
  PROVE  QueueInv'
<1>1. /\ Pop(j) \in Seq(SUBSET Jobs)
      /\ Pending(Pop(j)) \subseteq Pending(queue)
      /\ Exclusive(Pop(j))
      /\ \A m \in Pending(Pop(j)) : ~Rivals(j, m)
  BY PopQueue DEF TypeOK, QueueInv
<1>2. Pending(queue') = Pending(Pop(j)) \cup B
  BY <1>1, PushPending
<1>3. \A m \in Pending(Pop(j)), n \in B : ~Rivals(m, n)
  BY <1>1
<1>4. Exclusive(queue')
  BY <1>1, <1>3, PushExclusive
<1>5. \A m \in Pending(queue') : JobInv(m)'
  BY <1>1, <1>2 DEF QueueInv
<1> QED BY <1>4, <1>5 DEF QueueInv

-----------------------------------------------------------------------------
(* The inductive invariant *)

\* The initial states satisfy the inductive invariant.
LEMMA IInvInit == Init => IInv
<1> SUFFICES ASSUME Init PROVE IInv
  OBVIOUS
<1>1. TypeOK
  BY TypeInit
<1>2. QueueInv
  BY DEF Init, QueueInv, Exclusive, Pending
<1>3. RegistryInv /\ NamesUnique
  BY DEF Init, RegistryInv, NamesUnique
<1>4. StartInv
  BY LoadFacts, ParentLoad DEF Init, StartInv
<1>5. BuildInv
  BY DEF Init, BuildInv
<1> QED BY <1>1, <1>2, <1>3, <1>4, <1>5 DEF Init, IInv

\* Calls that only configure the builder.
LEMMA ConfigStep ==
  ASSUME IInv, TypeOK', Core \in thunks',
         UNCHANGED <<build, members, left, load, declared, registry, io, queue>>
  PROVE  IInv'
<1>1. NamesUnique' /\ RegistryInv' /\ StartInv' /\ BuildInv'
  BY DEF IInv, NamesUnique, RegistryInv, StartInv, BuildInv
<1>2. QueueInv'
  BY DEF IInv, QueueInv, JobInv
<1> QED BY <1>1, <1>2 DEF IInv

\* A build() without an output folder.
LEMMA RefusedStep ==
  ASSUME IInv, TypeOK', NEW b \in Builds, BuildWithoutFolder(b)
  PROVE  IInv'
<1> USE DEF BuildWithoutFolder, NextBuild, builderVars, loadVars
<1>1. NamesUnique' /\ RegistryInv' /\ Core \in thunks' /\ \A l \in io' : load'[l] = "loading"
  BY DEF IInv, NamesUnique, RegistryInv
<1>2. \A c \in Builds : build'[c] # build[c] => build[c] = "idle" /\ build'[c] = "rejected"
  BY DEF IInv, TypeOK
<1>3. StartInv'
  BY <1>2, LoadFacts DEF IInv, StartInv
<1>4. BuildInv'
  BY <1>2 DEF IInv, BuildInv
<1>5. QueueInv'
  <2>1. \A m \in Pending(queue) : m \in Jobs
    BY DEF IInv, TypeOK, Pending
  <2>2. \A m \in Pending(queue) : Ends(m) => build'[m.build] = build[m.build]
    BY <1>2, <2>1 DEF IInv, QueueInv, JobInv, Jobs
  <2> QED BY <2>2 DEF IInv, QueueInv, JobInv
<1> QED BY <1>1, <1>3, <1>4, <1>5 DEF IInv

\* build(): all the thunks run.
LEMMA BuildStep ==
  ASSUME IInv, TypeOK', NEW b \in Builds, Build(b)
  PROVE  IInv'
<1> DEFINE S == thunks \X {b}
           all == S \cup UNION {members[c] : c \in Builds}
           again == {Job(load'[l], l, b, l[2]) : l \in {m \in all : load'[m] \in Settled}}
<1>1. /\ S \in SUBSET Loads /\ all \in SUBSET Loads
      /\ \A l \in S : IsTop(l) /\ l[2] = b
      /\ <<Core, b>> \in S
  BY LoadFacts DEF IInv, TypeOK, Loads, Top, IsTop
<1>2. \A l \in S : load[l] = "idle"
  BY <1>1 DEF IInv, StartInv, Build, NextBuild
<1>3. /\ load' = Started(S)
      /\ \A l \in Loads : l \notin S => load'[l] = load[l]
      /\ \A l \in S : load'[l] \in {"loading", "rejected"}
      /\ \A l \in S : Suspends(l) \/ ~Throws(l) => load'[l] = "loading"
  BY <1>1, StartedIs DEF Build
<1>4. /\ \A c \in Builds : c # b => build'[c] = build[c] /\ members'[c] = members[c]
                                     /\ left'[c] = left[c]
      /\ build'[b] = "awaiting" /\ members'[b] = all /\ left'[b] = all
      /\ build[b] = "idle"
  BY DEF Build, NextBuild, IInv, TypeOK
<1>5. io' = io \cup {l \in S : Suspends(l)} /\ registry' = registry /\ thunks' = thunks
  BY DEF Build, builderVars
<1>6. RegistryInv' /\ NamesUnique'
  <2>1. \A l \in Loads : load'[l] = "fulfilled" <=> load[l] = "fulfilled"
    BY <1>2, <1>3
  <2> QED BY <1>5, <2>1 DEF IInv, RegistryInv, NamesUnique, Name
<1>7. (\A l \in io : load[l] = "loading")'
  <2>1. ASSUME NEW l \in io PROVE load'[l] = "loading"
    <3>1. load[l] = "loading" /\ l \in Loads
      BY DEF IInv, TypeOK
    <3> QED BY <1>2, <1>3, <3>1
  <2>2. ASSUME NEW l \in S, Suspends(l) PROVE load'[l] = "loading"
    BY <1>3, <2>2
  <2> QED BY <1>5, <2>1, <2>2
<1>8. StartInv'
  <2>1. declared' = DeclaredBy({l \in S : ~Suspends(l)})
    BY DEF Build
  <2>2. \A l \in Loads : declared'[l] \subseteq SubsOf(l[1])
    BY <1>1, <2>1, DeclaredIs DEF IInv, StartInv
  <2>3. ASSUME NEW l \in Loads, IsTop(l), build'[l[2]] = "idle" PROVE load'[l] = "idle"
    <3>1. l[2] # b /\ l[2] \in Builds
      BY <1>4, <2>3, LoadFacts
    <3>2. l \notin S /\ build[l[2]] = "idle"
      BY <1>1, <1>4, <2>3, <3>1
    <3>3. load[l] = "idle"
      BY <2>3, <3>2 DEF IInv, StartInv
    <3> QED BY <1>3, <3>2, <3>3
  <2>4. ASSUME NEW l \in Loads, ~IsTop(l),
               load'[<<ParentOf[l[1]], l[2]>>] \in {"idle", "loading"}
        PROVE  load'[l] = "idle"
    <3>1. <<ParentOf[l[1]], l[2]>> \in Loads
      BY <2>4, ParentLoad
    <3>2. load[<<ParentOf[l[1]], l[2]>>] \in {"idle", "loading"}
      BY <1>2, <1>3, <2>4, <3>1
    <3> QED BY <1>1, <1>3, <2>4, <3>2 DEF IInv, StartInv
  <2> QED BY <2>2, <2>3, <2>4 DEF StartInv
<1>9. BuildInv'
  BY <1>1, <1>4, <1>5 DEF IInv, BuildInv
<1>10. QueueInv'
  <2> DEFINE B == ResumeJobs(S) \cup again
  <2>1. /\ \A m \in again : /\ m.kind \in Settled /\ m.load \in all /\ m.build = b
                            /\ load'[m.load] = m.kind
        /\ again \subseteq Jobs
    <3>1. \A m \in again : \E l \in all : load'[l] \in Settled /\ m = Job(load'[l], l, b, l[2])
      OBVIOUS
    <3>2. \A l \in all : l \in Loads /\ l[2] \in Nat
      BY <1>1, LoadFacts
    <3> QED BY <3>1, <3>2, JobTypes DEF Job, JobKinds, Settled
  <2>2. /\ \A m \in ResumeJobs(S) : /\ m.kind = "resume" /\ m.load \in S
                                    /\ ~Suspends(m.load) /\ ~Throws(m.load)
        /\ \A m, n \in ResumeJobs(S) : m.load = n.load => m = n
    BY <1>1, NewJobs
  <2>3. B \in SUBSET Jobs
    BY <1>1, <2>1, JobTypes
  <2>4. queue' = Push(queue, B)
    BY DEF Build
  <2>5. \A m \in Pending(queue) : m \in Jobs /\ JobInv(m)
    BY DEF IInv, TypeOK, Pending, QueueInv
  <2>6. \A m, n \in B : Rivals(m, n) => m = n
    <3>1. ASSUME NEW m \in B, Continues(m) \/ Ends(m)
          PROVE  m \in ResumeJobs(S) /\ ~Ends(m)
      <4>1. m \notin again
        BY <2>1, <3>1 DEF Continues, Ends, Settled
      <4>2. m \in ResumeJobs(S)
        BY <4>1
      <4> QED BY <2>2, <4>2 DEF Ends
    <3> QED BY <2>2, <3>1 DEF Rivals
  <2>7. \A m \in Pending(queue), n \in B : ~Rivals(m, n)
    BY <1>2, <2>1, <2>2, <2>5 DEF Rivals, Continues, Ends, Settled, JobInv
  <2>8. ASSUME NEW m \in Pending(queue) PROVE JobInv(m)'
    <3>1. m.load \in Loads /\ m.build \in Builds
      BY <2>5 DEF Jobs
    <3>2. load[m.load] # "idle" => m.load \notin S /\ load'[m.load] = load[m.load]
      BY <1>2, <1>3, <3>1
    <3>3. members[m.build] \subseteq members'[m.build]
      BY <1>1, <1>4, <3>1
    <3>4. Continues(m) => load'[m.load] = "loading" /\ m.load \notin io'
      BY <1>5, <2>5, <3>2 DEF JobInv
    <3>5. /\ m.kind = "fulfilled" => load'[m.load] = "fulfilled"
          /\ m.kind = "rejected" => load'[m.load] = "rejected"
      BY <2>5, <3>2 DEF JobInv
    <3>6. Ends(m) => m.build # b /\ build'[m.build] = "settling"
      BY <1>4, <2>5, <3>1 DEF JobInv
    <3>7. m.kind = "built" => members'[m.build] \subseteq registry'
      BY <1>4, <1>5, <2>5, <3>1, <3>6 DEF JobInv, Ends
    <3>8. m.kind = "failed" => \E l \in members'[m.build] : load'[l] = "rejected"
      <4>1. SUFFICES ASSUME m.kind = "failed"
                     PROVE  \E l \in members'[m.build] : load'[l] = "rejected"
        OBVIOUS
      <4>2. PICK l \in members[m.build] : load[l] = "rejected"
        BY <2>5, <4>1 DEF JobInv
      <4>3. l \in Loads
        BY <3>1, <4>2 DEF IInv, TypeOK
      <4> QED BY <1>2, <1>3, <3>3, <4>2, <4>3
    <3> QED BY <2>5, <3>3, <3>4, <3>5, <3>6, <3>7, <3>8 DEF JobInv
  <2>9. ASSUME NEW m \in ResumeJobs(S) PROVE JobInv(m)'
    <3>1. load'[m.load] = "loading" /\ m.load \notin io'
      BY <1>2, <1>3, <1>5, <2>2 DEF IInv
    <3> QED BY <2>2, <3>1 DEF JobInv, Continues, Ends, Settled
  <2>10. ASSUME NEW m \in again PROVE JobInv(m)'
    BY <1>4, <2>1 DEF JobInv, Continues, Ends, Settled
  <2> QED
    <3>1. queue \in Seq(SUBSET Jobs) /\ Exclusive(queue)
      BY DEF IInv, TypeOK, QueueInv
    <3>2. Exclusive(queue')
      BY <2>3, <2>4, <2>6, <2>7, <3>1, PushExclusive
    <3>3. Pending(queue') = Pending(queue) \cup B
      BY <2>3, <2>4, <3>1, PushPending
    <3> QED BY <2>8, <2>9, <2>10, <3>2, <3>3 DEF QueueInv
<1> QED BY <1>1, <1>5, <1>6, <1>7, <1>8, <1>9, <1>10 DEF IInv

\* The I/O of a loader completes.
LEMMA LoaderIOStep ==
  ASSUME IInv, TypeOK', NEW l \in io, LoaderIO(l)
  PROVE  IInv'
<1>1. /\ l \in Loads /\ load[l] = "loading" /\ io' = io \ {l}
      /\ UNCHANGED <<build, members, left, load, registry, thunks>>
  BY DEF LoaderIO, IInv, TypeOK, buildVars, builderVars
<1>2. NamesUnique' /\ RegistryInv' /\ BuildInv' /\ \A m \in io' : load'[m] = "loading"
  BY <1>1 DEF IInv, NamesUnique, RegistryInv, BuildInv
<1>3. StartInv'
  <2>1. \A m \in Loads : declared'[m] \subseteq SubsOf(m[1])
    BY <1>1, DeclaredIs DEF LoaderIO, IInv, StartInv
  <2> QED BY <1>1, <2>1 DEF IInv, StartInv
<1>4. QueueInv'
  <2>1. PICK n : queue' = <<{n}>> /\ n.kind \in {"abort", "resume"} /\ n.load = l
    <3>1. \E k \in {"abort", "resume"} : queue' = <<{Job(k, l, l[2], 0)}>>
      <4>1. queue' = Append(queue, AfterIO(l)) /\ queue = <<>>
        BY DEF LoaderIO, Push, AfterIO
      <4>2. \E k \in {"abort", "resume"} : AfterIO(l) = {Job(k, l, l[2], 0)}
        BY DEF AfterIO
      <4>3. Append(queue, AfterIO(l)) = <<AfterIO(l)>>
        BY <4>1
      <4> QED BY <4>1, <4>2, <4>3
    <3>2. \A k : Job(k, l, l[2], 0).kind = k /\ Job(k, l, l[2], 0).load = l
      BY DEF Job
    <3> QED BY <3>1, <3>2
  <2>2. JobInv(n)'
    BY <1>1, <2>1 DEF JobInv, Continues, Ends, Settled
  <2>3. DOMAIN queue' = {1} /\ queue'[1] = {n}
    BY <2>1
  <2>4. Pending(queue') = {n} /\ Exclusive(queue')
    BY <2>3 DEF Pending, Exclusive
  <2> QED BY <2>2, <2>4 DEF QueueInv
<1> QED BY <1>1, <1>2, <1>3, <1>4 DEF IInv

\* The loader's promise rejected.
LEMMA AbortStep ==
  ASSUME IInv, TypeOK', NEW j, IsNextJob(j), Abort(j)
  PROVE  IInv'
<1> DEFINE l == j.load
           B == Reactions(l, "rejected")
<1>1. /\ j \in Jobs /\ j \in Pending(queue) /\ JobInv(j) /\ l \in Loads
      /\ j.kind = "abort" /\ Continues(j)
  BY PopQueue DEF IInv, TypeOK, QueueInv, Jobs, Abort, Continues
<1>2. /\ load[l] = "loading" /\ l \notin io
      /\ load'[l] = "rejected"
      /\ \A m \in Loads : m # l => load'[m] = load[m]
      /\ UNCHANGED <<thunks, build, members, left, declared, registry, io>>
  BY <1>1 DEF JobInv, Abort, IInv, TypeOK, builderVars, buildVars
<1>3. NamesUnique' /\ RegistryInv' /\ BuildInv'
  BY <1>1, <1>2 DEF IInv, NamesUnique, RegistryInv, BuildInv
<1>4. (\A m \in io : load[m] = "loading")'
  BY <1>2 DEF IInv, TypeOK
<1>5. StartInv'
  <2>1. ASSUME NEW m \in Loads, IsTop(m), build'[m[2]] = "idle" PROVE load'[m] = "idle"
    BY <1>2, <2>1 DEF IInv, StartInv
  <2>2. ASSUME NEW m \in Loads, ~IsTop(m),
               load'[<<ParentOf[m[1]], m[2]>>] \in {"idle", "loading"}
        PROVE  load'[m] = "idle"
    <3>1. <<ParentOf[m[1]], m[2]>> \in Loads
      BY <2>2, ParentLoad
    <3>2. load[m] = "idle"
      BY <1>2, <2>2, <3>1 DEF IInv, StartInv
    <3> QED BY <1>2, <3>2
  <2> QED BY <1>2, <2>1, <2>2 DEF IInv, StartInv
<1>6. QueueInv'
  <2>1. B \in SUBSET Jobs /\ queue' = Push(Pop(j), B)
    BY <1>1, JobTypes DEF Abort, Settled
  <2>2. \A m \in B : m.kind = "rejected" /\ m.load = l /\ (IsTop(l) => l \in members[m.build])
    BY <1>1, NewJobs DEF Settled
  <2>3. \A m \in B : ~Continues(m) /\ ~Ends(m)
    BY <2>2 DEF Continues, Ends
  <2>4. \A m \in B : JobInv(m)'
    BY <1>2, <2>2, <2>3 DEF JobInv
  <2>5. ASSUME NEW m \in Pending(queue), JobInv(m), ~Rivals(j, m) PROVE JobInv(m)'
    <3>1. m \in Jobs /\ m.load \in Loads /\ m.build \in Builds
      BY DEF IInv, TypeOK, Pending, Jobs
    <3>2. Continues(m) => m.load # l
      BY <1>1, <2>5 DEF Rivals
    <3>3. m.kind = "failed" => \E k \in members[m.build] : load'[k] = "rejected"
      BY <1>2, <2>5, <3>1 DEF JobInv, IInv, TypeOK
    <3> QED BY <1>2, <2>5, <3>1, <3>2, <3>3 DEF JobInv
  <2> HIDE DEF B
  <2>6. /\ \A m, n \in B : Rivals(m, n) => m = n
        /\ \A m \in Pending(queue), n \in B : ~Rivals(m, n)
    BY <2>3 DEF Rivals
  <2>7. TypeOK /\ QueueInv
    BY DEF IInv
  <2> QED BY <2>1, <2>4, <2>5, <2>6, <2>7, QueueStep
<1> QED BY <1>2, <1>3, <1>4, <1>5, <1>6 DEF IInv

\* _finalize: submodules start, and the module registers or the load fails.
LEMMA FinalizeStep ==
  ASSUME IInv, TypeOK', NEW j, IsNextJob(j),
         NEW D \in Startable(j.load), FinalizeWith(j, D)
  PROVE  IInv'
<1> DEFINE l == j.load
           S == D \X {l[2]}
           status == IF CanDeclare(l) THEN "fulfilled" ELSE "rejected"
           B == ResumeJobs(S) \cup ThrowJobs(S) \cup Reactions(l, status)
<1>1. /\ j \in Jobs /\ j \in Pending(queue) /\ JobInv(j) /\ l \in Loads
      /\ j.kind = "resume" /\ Continues(j)
  BY PopQueue DEF IInv, TypeOK, QueueInv, Jobs, FinalizeWith, Continues
<1>2. /\ load[l] = "loading" /\ l \notin io
      /\ status \in Settled
      /\ UNCHANGED <<thunks, build, members, left>>
  BY <1>1 DEF JobInv, FinalizeWith, builderVars, buildVars, Settled
<1>3. /\ S \in SUBSET Loads
      /\ \A m \in S : ~IsTop(m) /\ <<ParentOf[m[1]], m[2]>> = l
  <2>1. D \subseteq SubsOf(l[1])
    BY <1>1 DEF IInv, StartInv, Startable
  <2>2. ASSUME NEW m \in S PROVE m \in Loads /\ ~IsTop(m) /\ <<ParentOf[m[1]], m[2]>> = l
    <3>1. m[1] \in Decls /\ ParentOf[m[1]] = l[1] /\ m[2] = l[2] /\ m = <<m[1], m[2]>>
      BY <2>1 DEF SubsOf
    <3>2. l[1] # 0 /\ l[2] \in Builds /\ l = <<l[1], l[2]>>
      BY <1>1, LoadFacts
    <3> QED BY <3>1, <3>2, LoadFacts DEF IsTop, Top
  <2> QED BY <2>2
<1>4. \A m \in S : load[m] = "idle" /\ m # l
  BY <1>2, <1>3 DEF IInv, StartInv
<1>5. load' = [Started(S) EXCEPT ![l] = status]
  BY DEF FinalizeWith
<1>6. /\ load'[l] = status
      /\ \A m \in Loads : m \notin S /\ m # l => load'[m] = load[m]
      /\ \A m \in S : load'[m] \in {"loading", "rejected"}
      /\ \A m \in S : Suspends(m) \/ ~Throws(m) => load'[m] = "loading"
      /\ \A m \in S : ~Suspends(m) /\ Throws(m) => load'[m] = "rejected"
  <2>1. Started(S) \in [Loads -> {"idle", "loading"} \cup Settled]
    BY <1>3, StartTypes DEF IInv
  <2>2. \A m \in Loads : load'[m] = IF m = l THEN status ELSE Started(S)[m]
    BY <1>1, <1>5, <2>1
  <2>3. \A m \in Loads :
          /\ m \notin S => Started(S)[m] = load[m]
          /\ m \in S /\ ~Suspends(m) /\ Throws(m) => Started(S)[m] = "rejected"
          /\ m \in S /\ (Suspends(m) \/ ~Throws(m)) => Started(S)[m] = "loading"
    BY <1>3, StartedIs
  <2> HIDE DEF S, status
  <2> QED BY <1>1, <1>3, <1>4, <2>2, <2>3
<1>7. /\ io' = io \cup {m \in S : Suspends(m)}
      /\ declared' = DeclaredBy({m \in S : ~Suspends(m)})
      /\ queue' = Push(Pop(j), B)
  BY DEF FinalizeWith
<1>8. \/ CanDeclare(l) /\ status = "fulfilled" /\ registry' = registry \cup {l}
      \/ ~CanDeclare(l) /\ status = "rejected" /\ registry' = registry
  BY DEF FinalizeWith
<1> HIDE DEF S, status
<1>9. RegistryInv' /\ registry \subseteq registry'
  <2>1. \A m \in Loads : m # l => (load'[m] = "fulfilled" <=> load[m] = "fulfilled")
    BY <1>4, <1>6
  <2>2. registry = {m \in Loads : load[m] = "fulfilled"}
    BY DEF IInv, RegistryInv
  <2>3. load'[l] = "fulfilled" <=> registry' = registry \cup {l}
    BY <1>2, <1>6, <1>8, <2>2
  <2> QED BY <1>1, <1>2, <1>8, <2>1, <2>2, <2>3 DEF RegistryInv
<1>10. NamesUnique'
  BY <1>8 DEF IInv, NamesUnique, CanDeclare, Taken, Name
<1>11. (\A m \in io : load[m] = "loading")'
  <2>1. ASSUME NEW m \in io PROVE load'[m] = "loading"
    <3>1. m \in Loads /\ load[m] = "loading" /\ m # l
      BY <1>2 DEF IInv, TypeOK
    <3> QED BY <1>4, <1>6, <3>1
  <2> QED BY <1>6, <1>7, <2>1
<1>12. StartInv'
  <2>1. \A m \in Loads : declared'[m] \subseteq SubsOf(m[1])
    BY <1>3, <1>7, DeclaredIs DEF IInv, StartInv
  <2>2. ASSUME NEW m \in Loads, IsTop(m), build'[m[2]] = "idle" PROVE load'[m] = "idle"
    <3>1. load[m] = "idle"
      BY <1>2, <2>2 DEF IInv, StartInv
    <3> QED BY <1>2, <1>3, <1>6, <2>2, <3>1
  <2>3. ASSUME NEW m \in Loads, ~IsTop(m),
               load'[<<ParentOf[m[1]], m[2]>>] \in {"idle", "loading"}
        PROVE  load'[m] = "idle"
    <3> DEFINE p == <<ParentOf[m[1]], m[2]>>
    <3>1. p \in Loads /\ p # l
      BY <1>2, <1>6, <2>3, ParentLoad DEF Settled
    <3>2. load[p] \in {"idle", "loading"}
      BY <1>4, <1>6, <2>3, <3>1
    <3>3. load[m] = "idle"
      BY <2>3, <3>2 DEF IInv, StartInv
    <3>4. m \notin S /\ m # l
      BY <1>2, <1>3, <3>1, <3>3
    <3> QED BY <1>6, <3>3, <3>4
  <2> QED BY <2>1, <2>2, <2>3 DEF StartInv
<1>13. BuildInv'
  BY <1>2, <1>9 DEF IInv, BuildInv
<1>14. QueueInv'
  <2>1. B \in SUBSET Jobs
    BY <1>1, <1>2, <1>3, JobTypes
  <2>2. /\ \A m \in ResumeJobs(S) : /\ m.kind = "resume" /\ m.load \in S
                                    /\ ~Suspends(m.load) /\ ~Throws(m.load)
        /\ \A m, n \in ResumeJobs(S) : m.load = n.load => m = n
        /\ \A m \in ThrowJobs(S) : /\ m.kind = "rejected" /\ m.load \in S
                                   /\ ~Suspends(m.load) /\ Throws(m.load)
        /\ \A m \in Reactions(l, status) : /\ m.kind = status /\ m.load = l
                                           /\ IsTop(l) => l \in members[m.build]
    BY <1>1, <1>2, <1>3, NewJobs
  <2>3. \A m \in ThrowJobs(S) \cup Reactions(l, status) : ~Continues(m) /\ ~Ends(m)
    BY <1>2, <2>2 DEF Continues, Ends, Settled
  <2>4. \A m \in ResumeJobs(S) : ~Ends(m) /\ m.kind \notin Settled
    BY <2>2 DEF Ends, Settled
  <2>5. ASSUME NEW m \in ResumeJobs(S) PROVE JobInv(m)'
    <3>1. load'[m.load] = "loading" /\ m.load \notin io'
      BY <1>4, <1>6, <1>7, <2>2 DEF IInv
    <3> QED BY <2>4, <3>1 DEF JobInv, Ends, Settled
  <2>6. ASSUME NEW m \in ThrowJobs(S) PROVE JobInv(m)'
    <3>1. load'[m.load] = "rejected" /\ ~IsTop(m.load) /\ m.kind = "rejected"
      BY <1>3, <1>6, <2>2
    <3> QED BY <2>3, <3>1 DEF JobInv
  <2>7. ASSUME NEW m \in Reactions(l, status) PROVE JobInv(m)'
    BY <1>2, <1>6, <2>2, <2>3, <2>7 DEF JobInv, Settled, Ends
  <2>8. ASSUME NEW m \in Pending(queue), JobInv(m), ~Rivals(j, m) PROVE JobInv(m)'
    <3>1. m \in Jobs /\ m.load \in Loads /\ m.build \in Builds
      BY DEF IInv, TypeOK, Pending, Jobs
    <3>2. Continues(m) => m.load # l
      BY <1>1, <2>8 DEF Rivals
    <3>3. Continues(m) => load'[m.load] = "loading" /\ m.load \notin io'
      BY <1>4, <1>6, <1>7, <2>8, <3>1, <3>2 DEF JobInv
    <3>4. /\ m.kind = "fulfilled" => load'[m.load] = "fulfilled"
          /\ m.kind = "rejected" => load'[m.load] = "rejected"
      BY <1>2, <1>4, <1>6, <2>8, <3>1 DEF JobInv
    <3>5. m.kind = "failed" => \E k \in members[m.build] : load'[k] = "rejected"
      <4>1. SUFFICES ASSUME m.kind = "failed"
                     PROVE  \E k \in members[m.build] : load'[k] = "rejected"
        OBVIOUS
      <4>2. PICK k \in members[m.build] : load[k] = "rejected"
        BY <2>8, <4>1 DEF JobInv
      <4>3. k \in Loads
        BY <3>1, <4>2 DEF IInv, TypeOK
      <4> QED BY <1>2, <1>4, <1>6, <4>2, <4>3
    <3> QED BY <1>2, <1>9, <2>8, <3>3, <3>4, <3>5 DEF JobInv
  <2>9. \A m, n \in B : Rivals(m, n) => m = n
    BY <2>2, <2>3, <2>4 DEF Rivals
  <2>10. ASSUME NEW m \in Pending(queue), NEW n \in B PROVE ~Rivals(m, n)
    <3>1. m \in Jobs /\ JobInv(m)
      BY DEF IInv, TypeOK, Pending, QueueInv
    <3>2. SUFFICES ASSUME Rivals(m, n) PROVE FALSE
      OBVIOUS
    <3>3. n \in ResumeJobs(S) /\ Continues(m) /\ m.load = n.load
      BY <2>3, <2>4, <3>2 DEF Rivals
    <3> QED BY <1>4, <2>2, <3>1, <3>3 DEF JobInv
  <2>11. TypeOK /\ QueueInv
    BY DEF IInv
  <2>12. \A m \in B : JobInv(m)'
    BY <2>5, <2>6, <2>7
  <2> HIDE DEF B
  <2> QED BY <1>7, <2>1, <2>8, <2>9, <2>10, <2>11, <2>12, QueueStep
<1> QED BY <1>2, <1>9, <1>10, <1>11, <1>12, <1>13, <1>14 DEF IInv

\* Jobs that go on with a finalize action, with Promise.all, or with build():
\* they change no load, only what is still awaited.
LEMMA ReactionStep ==
  ASSUME IInv, TypeOK', NEW j, IsNextJob(j),
         SubLoaded(j) \/ ElementFulfilled(j) \/ ElementRejected(j) \/ BuildReturns(j)
  PROVE  IInv'
<1>1. /\ j \in Jobs /\ JobInv(j) /\ j.load \in Loads /\ j.build \in Builds
      /\ j \in Pending(queue)
  BY PopQueue DEF IInv, TypeOK, QueueInv, Jobs
<1>2. UNCHANGED <<thunks, members, load, declared, registry, io>>
  BY DEF SubLoaded, ElementFulfilled, ElementRejected, BuildReturns,
         builderVars, buildVars, loadVars
<1>3. TypeOK /\ QueueInv
  BY DEF IInv
<1>4. \A m \in Pending(queue) : m \in Jobs /\ m.build \in Builds
  BY DEF IInv, TypeOK, Pending, Jobs
<1>5. ASSUME NEW b \in Builds,
             build'[b] # build[b],
             \A c \in Builds : c # b => build'[c] = build[c] /\ left'[c] = left[c],
             build[b] \in {"awaiting", "settling"}, build'[b] # "idle",
             members[b] \ left'[b] \subseteq registry,
             build'[b] = "resolved" => members[b] \subseteq registry
      PROVE  StartInv' /\ BuildInv'
  <2>1. StartInv'
    <3>1. \A c \in Builds : build'[c] = "idle" => build[c] = "idle"
      BY <1>5
    <3>2. \A l \in Loads : l[2] \in Builds
      BY LoadFacts
    <3> QED BY <1>2, <3>1, <3>2 DEF IInv, StartInv
  <2>2. BuildInv'
    BY <1>2, <1>5 DEF IInv, BuildInv
  <2> QED BY <2>1, <2>2
<1>6. CASE SubLoaded(j)
  <2>1. UNCHANGED <<build, left>> /\ queue' = Push(Pop(j), {})
    BY <1>6 DEF SubLoaded, buildVars, Push
  <2>2. StartInv' /\ BuildInv'
    BY <1>2, <2>1 DEF IInv, StartInv, BuildInv
  <2>3. \A m \in Pending(queue) : JobInv(m) => JobInv(m)'
    BY <1>2, <2>1 DEF JobInv
  <2>4. QueueInv'
    BY <1>3, <2>1, <2>3, QueueStep
  <2> QED BY <1>2, <2>2, <2>4 DEF IInv, NamesUnique, RegistryInv
<1>7. CASE ElementFulfilled(j)
  <2> DEFINE b == j.build
             rest == left[b] \ {j.load}
             done == build[b] = "awaiting" /\ rest = {}
             B == IF done THEN {Job("built", j.load, b, 0)} ELSE {}
  <2>1. /\ queue' = Push(Pop(j), B)
        /\ left' = [left EXCEPT ![b] = rest]
        /\ build' = IF done THEN [build EXCEPT ![b] = "settling"] ELSE build
        /\ j.kind = "fulfilled"
    BY <1>7 DEF ElementFulfilled, Undecided, LastOf
  <2>2. j.load \in registry /\ left'[b] = rest
        /\ \A c \in Builds : c # b => left'[c] = left[c]
    BY <1>1, <2>1 DEF JobInv, IInv, RegistryInv, TypeOK
  <2>3. members[b] \ left'[b] \subseteq registry
    BY <1>1, <2>2 DEF IInv, BuildInv
  <2>4. CASE done
    <3>1. /\ build'[b] = "settling" /\ build[b] = "awaiting" /\ left'[b] = {}
          /\ \A c \in Builds : c # b => build'[c] = build[c]
      BY <1>1, <2>1, <2>2, <2>4 DEF IInv, TypeOK
    <3>2. StartInv' /\ BuildInv'
      BY <1>1, <1>5, <2>2, <2>3, <3>1
    <3>3. PICK n \in Jobs : B = {n} /\ n.kind = "built" /\ n.build = b
      <4> DEFINE n == Job("built", j.load, b, 0)
      <4>1. n \in Jobs
        BY <1>1, JobTypes DEF JobKinds
      <4>2. n.kind = "built" /\ n.build = b
        BY DEF Job
      <4>3. B = {n}
        BY <2>4
      <4> QED BY <4>1, <4>2, <4>3
    <3>4. JobInv(n)'
      BY <1>2, <2>3, <3>1, <3>3 DEF JobInv, Continues, Ends, Settled
    <3>5. \A m \in Pending(queue) : JobInv(m) => JobInv(m)' /\ ~Rivals(m, n)
      BY <1>2, <1>4, <3>1, <3>3 DEF JobInv, Rivals, Ends, Continues
    <3>6. QueueInv'
      <4>1. queue' = Push(Pop(j), {n}) /\ {n} \in SUBSET Jobs
        BY <2>1, <3>3
      <4>2. \A m \in Pending(queue), k \in {n} : ~Rivals(m, k)
        BY <1>3, <3>5 DEF QueueInv
      <4> QED BY <1>3, <4>1, <4>2, <3>4, <3>5, QueueStep
    <3> QED BY <1>2, <3>2, <3>6 DEF IInv, NamesUnique, RegistryInv
  <2>5. CASE ~done
    <3>1. build' = build /\ queue' = Push(Pop(j), {})
      BY <2>1, <2>5
    <3>2. StartInv'
      BY <1>2, <3>1 DEF IInv, StartInv
    <3>3. BuildInv'
      BY <1>2, <2>2, <2>3, <3>1 DEF IInv, BuildInv
    <3>4. \A m \in Pending(queue) : JobInv(m) => JobInv(m)'
      BY <1>2, <3>1 DEF JobInv
    <3>5. QueueInv'
      BY <1>3, <3>1, <3>4, QueueStep
    <3> QED BY <1>2, <3>2, <3>3, <3>5 DEF IInv, NamesUnique, RegistryInv
  <2> QED BY <2>4, <2>5
<1>8. CASE ElementRejected(j)
  <2> DEFINE b == j.build
             first == build[b] = "awaiting"
             B == IF first THEN {Job("failed", j.load, b, 0)} ELSE {}
  <2>1. /\ queue' = Push(Pop(j), B)
        /\ build' = IF first THEN [build EXCEPT ![b] = "settling"] ELSE build
        /\ j.kind = "rejected" /\ IsTop(j.load) /\ left' = left
    BY <1>8 DEF ElementRejected, Undecided
  <2>2. load[j.load] = "rejected" /\ j.load \in members[b]
    BY <1>1, <2>1 DEF JobInv, Settled
  <2>3. CASE first
    <3>1. /\ build'[b] = "settling" /\ build[b] = "awaiting"
          /\ \A c \in Builds : c # b => build'[c] = build[c]
      BY <1>1, <2>1, <2>3 DEF IInv, TypeOK
    <3>2. members[b] \ left'[b] \subseteq registry
      BY <1>1, <2>1 DEF IInv, BuildInv
    <3>3. StartInv' /\ BuildInv'
      BY <1>1, <1>5, <2>1, <3>1, <3>2
    <3>4. PICK n \in Jobs : B = {n} /\ n.kind = "failed" /\ n.build = b
      <4> DEFINE n == Job("failed", j.load, b, 0)
      <4>1. n \in Jobs
        BY <1>1, JobTypes DEF JobKinds
      <4>2. n.kind = "failed" /\ n.build = b
        BY DEF Job
      <4>3. B = {n}
        BY <2>3
      <4> QED BY <4>1, <4>2, <4>3
    <3>5. JobInv(n)'
      BY <1>2, <2>2, <3>1, <3>4 DEF JobInv, Continues, Ends, Settled
    <3>6. \A m \in Pending(queue) : JobInv(m) => JobInv(m)' /\ ~Rivals(m, n)
      BY <1>2, <1>4, <3>1, <3>4 DEF JobInv, Rivals, Ends, Continues
    <3>7. QueueInv'
      <4>1. queue' = Push(Pop(j), {n}) /\ {n} \in SUBSET Jobs
        BY <2>1, <3>4
      <4>2. \A m \in Pending(queue), k \in {n} : ~Rivals(m, k)
        BY <1>3, <3>6 DEF QueueInv
      <4> QED BY <1>3, <4>1, <4>2, <3>5, <3>6, QueueStep
    <3> QED BY <1>2, <3>3, <3>7 DEF IInv, NamesUnique, RegistryInv
  <2>4. CASE ~first
    <3>1. build' = build /\ queue' = Push(Pop(j), {})
      BY <2>1, <2>4
    <3>2. StartInv' /\ BuildInv'
      BY <1>2, <2>1, <3>1 DEF IInv, StartInv, BuildInv
    <3>3. \A m \in Pending(queue) : JobInv(m) => JobInv(m)'
      BY <1>2, <3>1 DEF JobInv
    <3>4. QueueInv'
      BY <1>3, <3>1, <3>3, QueueStep
    <3> QED BY <1>2, <3>2, <3>4 DEF IInv, NamesUnique, RegistryInv
  <2> QED BY <2>3, <2>4
<1>9. CASE BuildReturns(j)
  <2> DEFINE b == j.build
  <2>1. queue' = Push(Pop(j), {}) /\ left' = left /\ Ends(j) /\ build[b] = "settling"
    BY <1>1, <1>9 DEF BuildReturns, Push, Ends, JobInv
  <2>2. /\ build'[b] \in Over
        /\ \A c \in Builds : c # b => build'[c] = build[c]
        /\ build'[b] = "resolved" => members[b] \subseteq registry
    BY <1>1, <1>9 DEF BuildReturns, IInv, TypeOK, JobInv, Over
  <2>3. members[b] \ left'[b] \subseteq registry
    BY <1>1, <2>1 DEF IInv, BuildInv
  <2>4. StartInv' /\ BuildInv'
    BY <1>1, <1>5, <2>1, <2>2, <2>3 DEF Over
  <2>5. \A m \in Pending(queue) : JobInv(m) /\ ~Rivals(j, m) => JobInv(m)'
    BY <1>2, <1>4, <2>1, <2>2 DEF JobInv, Rivals
  <2>6. QueueInv'
    BY <1>3, <2>1, <2>5, QueueStep
  <2> QED BY <1>2, <2>4, <2>6 DEF IInv, NamesUnique, RegistryInv
<1> QED BY <1>6, <1>7, <1>8, <1>9

\* Every step of the builder and of the event loop preserves the invariant.
LEMMA IInvStep == IInv /\ [Next]_vars => IInv'
<1> SUFFICES ASSUME IInv, [Next]_vars PROVE IInv'
  OBVIOUS
<1>1. TypeOK'
  BY TypeStep DEF IInv
<1>2. ASSUME NEW d \in Decls, WithModule(d) PROVE IInv'
  BY <1>1, <1>2, ConfigStep DEF WithModule, buildVars, loadVars, IInv
<1>3. ASSUME NEW t \in Targets, WithTargets(t) PROVE IInv'
  BY <1>1, <1>3, ConfigStep DEF WithTargets, buildVars, loadVars, IInv
<1>4. CASE ToFolder
  BY <1>1, <1>4, ConfigStep DEF ToFolder, buildVars, loadVars, IInv
<1>5. ASSUME NEW b \in Builds, Build(b) \/ BuildWithoutFolder(b) PROVE IInv'
  BY <1>1, <1>5, BuildStep, RefusedStep
<1>6. ASSUME NEW l \in io, LoaderIO(l) PROVE IInv'
  BY <1>1, <1>6, LoaderIOStep
<1>7. ASSUME NEW j \in queue[1], RunJob(j) PROVE IInv'
  BY <1>1, <1>7, AbortStep, FinalizeStep, ReactionStep DEF RunJob, Finalize
<1>8. CASE UNCHANGED vars
  BY <1>1, <1>8, ConfigStep DEF vars, builderVars, buildVars, loadVars, IInv
<1> QED BY <1>2, <1>3, <1>4, <1>5, <1>6, <1>7, <1>8 DEF Next, UserCall, Microtask

\* The bookkeeping of the builder is coherent, for every instance.
THEOREM Coherent == Spec => []IInv
BY IInvInit, IInvStep, PTL DEF Spec

\* A build() that resolved has every one of its modules registered.
THEOREM ResolvedBuildsAreComplete == Spec => []ResolvedMeansRegistered
<1>1. IInv => ResolvedMeansRegistered
  BY DEF IInv, BuildInv, ResolvedMeansRegistered
<1> QED BY <1>1, Coherent, PTL

\* No two modules are registered under one name.
THEOREM RegisteredNamesAreUnique == Spec => []NamesUnique
<1>1. IInv => NamesUnique
  BY DEF IInv
<1> QED BY <1>1, Coherent, PTL

\* A builder yields one compiler at most: every resolved build has its own
\* load of std::core in the registry, where names are unique.
THEOREM OneCompilerPerBuilder == Spec => []OneBuildResolves
<1>1. IInv => OneBuildResolves
  <2> SUFFICES ASSUME IInv, NEW b \in Builds, NEW c \in Builds,
                      build[b] = "resolved", build[c] = "resolved"
               PROVE  b = c
    BY DEF OneBuildResolves
  <2>1. <<Core, b>> \in registry /\ <<Core, c>> \in registry
    BY DEF IInv, BuildInv
  <2>2. Name(<<Core, b>>) = Name(<<Core, c>>)
    BY DEF Name
  <2> QED BY <2>1, <2>2 DEF IInv, NamesUnique
<1> QED BY <1>1, Coherent, PTL

-----------------------------------------------------------------------------
(* The order of the microtasks *)

\* What stays in the queue when the next job runs keeps its place: whatever
\* ran before it still does, and only the job itself is gone.
LEMMA PopKeepsOrder ==
  ASSUME queue \in Seq(SUBSET Jobs), NEW j, IsNextJob(j)
  PROVE  /\ \A r \in Pending(queue) : r = j \/ r \in Pending(Pop(j))
         /\ \A k \in DOMAIN Pop(j) : \A x \in Pop(j)[k] :
              \E h \in DOMAIN queue :
                /\ x \in queue[h]
                /\ \A r, turn : Before(queue, r, h, turn) => r = j \/ Before(Pop(j), r, k, turn)
<1>1. queue # <<>> /\ 1 \in DOMAIN queue /\ j \in queue[1]
  BY DEF IsNextJob
<1>2. CASE queue[1] = {j}
  <2>1. Pop(j) = Tail(queue)
    BY <1>2 DEF Pop
  <2>2. /\ \A i \in DOMAIN Tail(queue) : i + 1 \in DOMAIN queue /\ Tail(queue)[i] = queue[i + 1]
        /\ \A i \in DOMAIN queue : i = 1 \/ i - 1 \in DOMAIN Tail(queue)
        /\ DOMAIN Tail(queue) \subseteq Nat /\ DOMAIN queue \subseteq Nat
    BY <1>1
  <2>3. \A i \in DOMAIN queue : i = 1 \/ (i - 1 \in DOMAIN Tail(queue) /\ Tail(queue)[i - 1] = queue[i])
    BY <2>2
  <2>4. ASSUME NEW r \in Pending(queue), r # j
        PROVE  r \in Pending(Tail(queue))
    <3>1. PICK i \in DOMAIN queue : r \in queue[i]
      BY DEF Pending
    <3>2. i - 1 \in DOMAIN Tail(queue) /\ r \in Tail(queue)[i - 1]
      BY <1>2, <2>3, <2>4, <3>1
    <3> QED BY <3>2 DEF Pending
  <2>5. ASSUME NEW k \in DOMAIN Tail(queue), NEW r, NEW turn, Before(queue, r, k + 1, turn), r # j
        PROVE  Before(Tail(queue), r, k, turn)
    <3>1. PICK i \in DOMAIN queue : r \in queue[i] /\ (i < k + 1 \/ (i = k + 1 /\ 0 < turn))
      BY <2>5 DEF Before
    <3>2. i - 1 \in DOMAIN Tail(queue) /\ r \in Tail(queue)[i - 1]
      BY <1>2, <2>3, <2>5, <3>1
    <3>3. i \in Nat /\ k \in Nat
      BY <2>2
    <3>4. i - 1 < k \/ (i - 1 = k /\ 0 < turn)
      BY <3>1, <3>3
    <3> QED BY <3>2, <3>4 DEF Before
  <2> QED BY <2>1, <2>2, <2>4, <2>5
<1>3. CASE queue[1] # {j}
  <2> DEFINE Q == [queue EXCEPT ![1] = @ \ {j}]
  <2>1. Pop(j) = Q
    BY <1>3 DEF Pop
  <2>2. /\ DOMAIN Q = DOMAIN queue
        /\ \A i \in DOMAIN queue : Q[i] \subseteq queue[i] /\ \A r \in queue[i] : r = j \/ r \in Q[i]
    BY <1>1
  <2> HIDE DEF Q
  <2>3. \A r \in Pending(queue) : r = j \/ r \in Pending(Q)
    BY <2>2 DEF Pending
  <2>4. \A r, k, turn : Before(queue, r, k, turn) => r = j \/ Before(Q, r, k, turn)
    BY <2>2 DEF Before
  <2> QED BY <2>1, <2>2, <2>3, <2>4
<1> QED BY <1>2, <1>3

\* A batch is pushed behind everything that is pending; within it the jobs of
\* a later turn run after the others.
LEMMA PushKeepsOrder ==
  ASSUME NEW q \in Seq(SUBSET Jobs), NEW B \in SUBSET Jobs,
         NEW k \in DOMAIN Push(q, B), NEW x \in Push(q, B)[k]
  PROVE  \/ /\ k \in DOMAIN q /\ x \in q[k]
            /\ \A r, turn : Before(q, r, k, turn) => Before(Push(q, B), r, k, turn)
         \/ /\ x \in B
            /\ \A r \in Pending(q) : \A turn : Before(Push(q, B), r, k, turn)
            /\ \A r \in B : \A turn : 0 < turn => Before(Push(q, B), r, k, turn)
<1>1. CASE B = {}
  BY <1>1 DEF Push
<1>2. CASE B # {}
  <2> DEFINE A == Append(q, B)
  <2>1. Push(q, B) = A
    BY <1>2 DEF Push
  <2>2. /\ DOMAIN A = 1 .. Len(q) + 1
        /\ DOMAIN q = 1 .. Len(q) /\ Len(q) \in Nat
        /\ A[Len(q) + 1] = B
        /\ \A i \in DOMAIN q : A[i] = q[i]
    OBVIOUS
  <2>3. \A i \in DOMAIN q : i \in DOMAIN A /\ i < Len(q) + 1
    BY <2>2
  <2>4. k \in DOMAIN q \/ k = Len(q) + 1
    BY <2>1, <2>2
  <2>5. Len(q) + 1 \in DOMAIN A
    BY <2>2
  <2> HIDE DEF A
  <2>6. CASE k \in DOMAIN q
    BY <2>1, <2>2, <2>3, <2>6 DEF Before
  <2>7. CASE k = Len(q) + 1
    <3>1. x \in B
      BY <2>1, <2>2, <2>7
    <3>2. \A r \in Pending(q) : \A turn : Before(A, r, k, turn)
      BY <2>2, <2>3, <2>7 DEF Before, Pending
    <3>3. \A r \in B : \A turn : 0 < turn => Before(A, r, k, turn)
      BY <2>2, <2>5, <2>7 DEF Before
    <3> QED BY <2>1, <3>1, <3>2, <3>3
  <2> QED BY <2>4, <2>6, <2>7
<1> QED BY <1>1, <1>2

\* Nothing with turn 0 that continues a load runs before the next job.
LEMMA NothingBeforeNext ==
  ASSUME queue \in Seq(SUBSET Jobs), NEW j, IsNextJob(j), NEW m \in Loads,
         SettlesBefore(m, 1, j.turn)
  PROVE  IsSettled(m)
<1>1. SUFFICES ASSUME Before(queue, Resume(m), 1, j.turn) PROVE FALSE
  BY DEF SettlesBefore
<1>2. PICK i \in DOMAIN queue : Resume(m) \in queue[i] /\ (i < 1 \/ (i = 1 /\ 0 < j.turn))
  BY <1>1 DEF Before
<1>3. i \in Nat /\ i # 0
  OBVIOUS
<1>4. i = 1 /\ 0 < j.turn
  BY <1>2, <1>3
<1>5. Precedes(j, Resume(m)) /\ Resume(m).turn = 0
  BY <1>2, <1>4 DEF IsNextJob, Resume, Job
<1>6. j.turn \in Nat
  BY PopQueue DEF Jobs
<1> QED BY <1>4, <1>5, <1>6 DEF Precedes

\* The submodules of a load are loads of the same build.
LEMMA SubsAreLoads ==
  ASSUME TypeOK, NEW l \in Loads
  PROVE  SyncSubs(l) \in SUBSET Loads
BY LoadFacts DEF TypeOK, SyncSubs, StartedBy

\* The queue Q holds what a step leaves of the queue: a load that was to settle
\* has settled or still is to, and before the same jobs.
Leaves(Q) ==
  /\ Q \in Seq(SUBSET Jobs)
  /\ \A m \in Loads : Settles(m) => IsSettled(m)' \/ Resume(m) \in Pending(Q)
  /\ \A k \in DOMAIN Q : \A x \in Q[k] : \E h \in DOMAIN queue :
       /\ x \in queue[h]
       /\ \A m \in Loads : \A turn : SettlesBefore(m, h, turn) =>
            IsSettled(m)' \/ Before(Q, Resume(m), k, turn)


\* A step that runs no job leaves the whole queue.
LEMMA LeavesAll ==
  ASSUME TypeOK, \A m \in Loads : IsSettled(m) => IsSettled(m)'
  PROVE  Leaves(queue)
BY DEF Leaves, TypeOK, Settles, SettlesBefore

\* A step that runs a job leaves the rest of the queue: if it is the load's
\* continuation that runs, it settles the load.
LEMMA LeavesRest ==
  ASSUME TypeOK, NEW j, IsNextJob(j),
         \A m \in Loads : IsSettled(m) => IsSettled(m)',
         \A m \in Loads : j = Resume(m) => IsSettled(m)'
  PROVE  Leaves(Pop(j))
<1>1. queue \in Seq(SUBSET Jobs)
  BY DEF TypeOK
<1>2. Pop(j) \in Seq(SUBSET Jobs)
  BY <1>1, PopQueue
<1>3. \A m \in Loads : Settles(m) => IsSettled(m)' \/ Resume(m) \in Pending(Pop(j))
  BY <1>1, PopKeepsOrder DEF Settles
<1>4. ASSUME NEW k \in DOMAIN Pop(j), NEW x \in Pop(j)[k]
      PROVE  \E h \in DOMAIN queue :
               /\ x \in queue[h]
               /\ \A m \in Loads : \A turn : SettlesBefore(m, h, turn) =>
                    IsSettled(m)' \/ Before(Pop(j), Resume(m), k, turn)
  <2>1. PICK h \in DOMAIN queue :
          /\ x \in queue[h]
          /\ \A r, turn : Before(queue, r, h, turn) => r = j \/ Before(Pop(j), r, k, turn)
    BY <1>1, <1>4, PopKeepsOrder
  <2>2. ASSUME NEW m \in Loads, NEW turn, SettlesBefore(m, h, turn)
        PROVE  IsSettled(m)' \/ Before(Pop(j), Resume(m), k, turn)
    BY <2>1, <2>2 DEF SettlesBefore
  <2> QED BY <2>1, <2>2
<1> QED BY <1>2, <1>3, <1>4 DEF Leaves

\* What a step must show for the order of the microtasks to stay as it is:
\* it leaves Q of the queue and enqueues B.
LEMMA OrderStep ==
  ASSUME IInv, IInv', OrderInv,
         NEW Q, Leaves(Q), NEW B \in SUBSET Jobs, queue' = Push(Q, B),
         \A l \in Loads : IsSettled(l) => load'[l] = load[l] /\ declared'[l] = declared[l],
         \A l \in Loads : load'[l] = "fulfilled" /\ load[l] # "fulfilled" =>
           \A m \in SyncSubs(l)' : IsSettled(m)' \/ Resume(m) \in B,
         \A x \in B : x.kind = "fulfilled" /\ IsTop(x.load) => 0 < x.turn,
         \A x \in B : x.kind = "built" => B = {x} /\ left'[x.build] = {},
         \A b \in Builds : \A l \in members'[b] \ left'[b] :
           l \in members[b] \ left[b] \/ \A m \in SyncSubs(l)' : IsSettled(m)',
         \A b \in Builds : build[b] # "idle" => members'[b] = members[b],
         \A b \in Builds : build'[b] = "resolved" =>
           \/ build[b] = "resolved"
           \/ \A l \in members'[b] : \A m \in SyncSubs(l)' :
                /\ IsSettled(m)'
                /\ load'[m] = "fulfilled" => \A n \in SyncSubs(m)' : IsSettled(n)'
  PROVE  OrderInv'
<1>1. /\ \A l \in Loads : SyncSubs(l) \in SUBSET Loads
      /\ \A l \in Loads : SyncSubs(l)' \in SUBSET Loads
      /\ members \in [Builds -> SUBSET Loads] /\ members' \in [Builds -> SUBSET Loads]
      /\ \A x \in Pending(queue) : x \in Jobs
  <2>1. /\ \A l \in Loads : l[2] \in Builds
        /\ \A d \in Decls, b \in Builds : <<d, b>> \in Loads
    BY LoadFacts
  <2>2. /\ declared \in [Loads -> SUBSET Decls] /\ declared' \in [Loads -> SUBSET Decls]
        /\ members \in [Builds -> SUBSET Loads] /\ members' \in [Builds -> SUBSET Loads]
        /\ \A x \in Pending(queue) : x \in Jobs
    BY DEF IInv, TypeOK, Pending
  <2> QED BY <2>1, <2>2 DEF SyncSubs, StartedBy
<1>2. \A l \in Loads : IsSettled(l) => SyncSubs(l)' = SyncSubs(l) /\ IsSettled(l)'
  BY DEF SyncSubs, StartedBy, IsSettled
<1>3. Q \in Seq(SUBSET Jobs) /\ Pending(queue') = Pending(Q) \cup B
  BY PushPending DEF Leaves
<1>4. \A m \in Loads : Settles(m) => Settles(m)'
  <2>1. \A m \in Loads : Resume(m)' = Resume(m)
    BY DEF Resume
  <2> QED BY <1>3, <2>1 DEF Leaves, Settles
<1>5. ASSUME NEW l \in Loads, load'[l] = "fulfilled", NEW m \in SyncSubs(l)'
      PROVE  Settles(m)'
  <2>1. CASE load[l] = "fulfilled"
    <3>1. IsSettled(l)
      BY <2>1 DEF IsSettled, Settled
    <3>2. m \in SyncSubs(l) /\ m \in Loads
      BY <1>1, <1>2, <1>5, <3>1
    <3> QED BY <1>4, <2>1, <3>2 DEF OrderInv, SubsOnTheirWay
  <2>2. CASE load[l] # "fulfilled"
    BY <1>3, <1>5, <2>2 DEF Settles, Resume
  <2> QED BY <2>1, <2>2
<1>6. ASSUME NEW k \in DOMAIN queue', NEW x \in queue'[k]
      PROVE  \/ \E h \in DOMAIN queue :
                  /\ x \in queue[h]
                  /\ \A m \in Loads : \A turn :
                       SettlesBefore(m, h, turn) => SettlesBefore(m, k, turn)'
             \/ /\ x \in B
                /\ \A m \in Loads : \A turn :
                     Settles(m)' /\ (Resume(m) \in B => 0 < turn) => SettlesBefore(m, k, turn)'
  <2>1. CASE /\ k \in DOMAIN Q /\ x \in Q[k]
             /\ \A r, turn : Before(Q, r, k, turn) => Before(queue', r, k, turn)
    <3>1. PICK h \in DOMAIN queue :
            /\ x \in queue[h]
            /\ \A m \in Loads : \A turn : SettlesBefore(m, h, turn) =>
                 IsSettled(m)' \/ Before(Q, Resume(m), k, turn)
      BY <2>1 DEF Leaves
    <3>2. ASSUME NEW m \in Loads, NEW turn, SettlesBefore(m, h, turn)
          PROVE  SettlesBefore(m, k, turn)'
      <4>1. IsSettled(m)' \/ Before(queue', Resume(m), k, turn)
        BY <2>1, <3>1, <3>2
      <4> QED BY <4>1 DEF SettlesBefore, Before, Resume
    <3> QED BY <3>1, <3>2
  <2>2. CASE /\ x \in B
             /\ \A r \in Pending(Q) : \A turn : Before(queue', r, k, turn)
             /\ \A r \in B : \A turn : 0 < turn => Before(queue', r, k, turn)
    <3>1. ASSUME NEW m \in Loads, NEW turn, Settles(m)', Resume(m) \in B => 0 < turn
          PROVE  SettlesBefore(m, k, turn)'
      <4>1. IsSettled(m)' \/ Resume(m) \in Pending(Q) \/ Resume(m) \in B
        BY <1>3, <3>1 DEF Settles, Resume
      <4>2. IsSettled(m)' \/ Before(queue', Resume(m), k, turn)
        BY <2>2, <3>1, <4>1
      <4> QED BY <4>2 DEF SettlesBefore, Before, Resume
    <3> QED BY <2>2, <3>1
  <2> QED BY <1>3, <1>6, <2>1, <2>2, PushKeepsOrder
<1>7. ASSUME NEW k \in DOMAIN queue', NEW x \in queue'[k]
      PROVE  x \in Pending(queue') /\ x \in Jobs /\ x.load \in Loads /\ x.build \in Builds
  BY <1>7 DEF IInv, TypeOK, Pending, Jobs
<1>8. ASSUME NEW k \in DOMAIN queue', NEW x \in queue'[k],
             x.kind = "fulfilled", IsTop(x.load), NEW m \in SyncSubs(x.load)'
      PROVE  SettlesBefore(m, k, x.turn)'
  <2>1. /\ x.load \in Loads /\ load'[x.load] = "fulfilled"
    BY <1>7, <1>8 DEF IInv, QueueInv, JobInv
  <2>2. m \in Loads /\ Settles(m)'
    BY <1>1, <1>5, <1>8, <2>1
  <2>3. ASSUME NEW h \in DOMAIN queue, x \in queue[h] PROVE SettlesBefore(m, h, x.turn)
    <3>1. IsSettled(x.load)
      <4>1. x \in Pending(queue)
        BY <2>3 DEF Pending
      <4> QED BY <1>8, <4>1 DEF IInv, QueueInv, JobInv, IsSettled, Settled
    <3>2. m \in SyncSubs(x.load)
      BY <1>2, <1>8, <2>1, <3>1
    <3> QED BY <1>8, <2>3, <3>2 DEF OrderInv, SubsOnTheirWay
  <2> QED BY <1>6, <1>8, <2>2, <2>3
<1>9. SubsOnTheirWay'
  BY <1>5, <1>8 DEF SubsOnTheirWay
<1>10. ASSUME NEW b \in Builds, NEW l \in members'[b] \ left'[b], NEW m \in SyncSubs(l)'
       PROVE  IsSettled(m)'
  <2>1. SUFFICES ASSUME l \in members[b] \ left[b] PROVE IsSettled(m)'
    BY <1>10
  <2>2. l \in Loads /\ IsSettled(l)
    <3>1. l \in registry
      BY <2>1 DEF IInv, BuildInv
    <3> QED BY <3>1 DEF IInv, RegistryInv, IsSettled, Settled
  <2>3. m \in SyncSubs(l) /\ m \in Loads
    BY <1>1, <1>2, <1>10, <2>2
  <2>4. IsSettled(m)
    BY <2>1, <2>3 DEF OrderInv, SubsCounted
  <2> QED BY <1>2, <2>3, <2>4
<1>11. ASSUME NEW k \in DOMAIN queue', NEW x \in queue'[k], x.kind = "built",
              NEW l \in members'[x.build], NEW m \in SyncSubs(l)'
       PROVE  /\ IsSettled(m)'
              /\ load'[m] = "fulfilled" => \A n \in SyncSubs(m)' : SettlesBefore(n, k, x.turn)'
  <2>1. l \in Loads /\ m \in Loads /\ x.build \in Builds
    BY <1>1, <1>7, <1>11
  <2>2. CASE x \in B /\ \A n \in Loads : \A turn :
               Settles(n)' /\ (Resume(n) \in B => 0 < turn) => SettlesBefore(n, k, turn)'
    <3>1. l \in members'[x.build] \ left'[x.build]
      BY <1>11, <2>2
    <3>2. IsSettled(m)'
      BY <1>10, <1>11, <2>1, <3>1
    <3>3. \A n \in Loads : Resume(n) \notin B
      <4>1. B = {x}
        BY <1>11, <2>2
      <4> QED BY <1>11, <4>1 DEF Resume, Job
    <3>4. ASSUME load'[m] = "fulfilled", NEW n \in SyncSubs(m)' PROVE SettlesBefore(n, k, x.turn)'
      BY <1>1, <1>5, <2>1, <2>2, <3>3, <3>4
    <3> QED BY <3>2, <3>4
  <2>3. CASE \E h \in DOMAIN queue :
               /\ x \in queue[h]
               /\ \A n \in Loads : \A turn : SettlesBefore(n, h, turn) => SettlesBefore(n, k, turn)'
    <3>1. PICK h \in DOMAIN queue :
            /\ x \in queue[h]
            /\ \A n \in Loads : \A turn : SettlesBefore(n, h, turn) => SettlesBefore(n, k, turn)'
      BY <2>3
    <3>2. JobInv(x)
      BY <3>1 DEF IInv, QueueInv, Pending
    <3>3. l \in members[x.build] /\ l \in registry
      BY <1>11, <2>1, <3>2 DEF JobInv, Ends
    <3>4. m \in SyncSubs(l)
      <4>1. IsSettled(l)
        BY <3>3 DEF IInv, RegistryInv, IsSettled, Settled
      <4> QED BY <1>2, <1>11, <2>1, <4>1
    <3>5. /\ IsSettled(m)
          /\ load[m] = "fulfilled" => \A n \in SyncSubs(m) : SettlesBefore(n, h, x.turn)
      BY <1>11, <3>1, <3>3, <3>4 DEF OrderInv, SubsCounted
    <3>6. IsSettled(m)' /\ load'[m] = load[m] /\ SyncSubs(m)' = SyncSubs(m)
      BY <1>2, <2>1, <3>5
    <3> QED BY <1>1, <2>1, <3>1, <3>5, <3>6
  <2> QED BY <1>6, <1>11, <2>2, <2>3
<1>12. ASSUME NEW b \in Builds, build'[b] = "resolved", NEW l \in members'[b], NEW m \in SyncSubs(l)'
       PROVE  /\ IsSettled(m)'
              /\ load'[m] = "fulfilled" => \A n \in SyncSubs(m)' : IsSettled(n)'
  <2>1. SUFFICES ASSUME build[b] = "resolved"
                 PROVE  /\ IsSettled(m)'
                        /\ load'[m] = "fulfilled" => \A n \in SyncSubs(m)' : IsSettled(n)'
    BY <1>12
  <2>2. l \in members[b] /\ l \in Loads /\ m \in Loads /\ l \in registry
    BY <1>1, <1>12, <2>1 DEF IInv, BuildInv
  <2>3. m \in SyncSubs(l)
    <3>1. IsSettled(l)
      BY <2>2 DEF IInv, RegistryInv, IsSettled, Settled
    <3> QED BY <1>2, <1>12, <2>2, <3>1
  <2>4. /\ IsSettled(m)
        /\ load[m] = "fulfilled" => \A n \in SyncSubs(m) : IsSettled(n)
    BY <2>1, <2>2, <2>3 DEF OrderInv, SubsCounted
  <2>5. IsSettled(m)' /\ load'[m] = load[m] /\ SyncSubs(m)' = SyncSubs(m)
    BY <1>2, <2>2, <2>4
  <2> QED BY <1>1, <1>2, <2>2, <2>4, <2>5
<1>13. SubsCounted'
  BY <1>10, <1>11, <1>12 DEF SubsCounted
<1> QED BY <1>9, <1>13 DEF OrderInv

\* Calls that enqueue nothing and start nothing.
LEMMA OrderIdleStep ==
  ASSUME IInv, IInv', OrderInv,
         UNCHANGED <<members, left, load, declared, queue>>,
         \A b \in Builds : build'[b] = "resolved" => build[b] = "resolved"
  PROVE  OrderInv'
<1>1. \A m \in Loads : IsSettled(m) => IsSettled(m)'
  BY DEF IsSettled
<1>2. Leaves(queue) /\ queue' = Push(queue, {})
  BY <1>1, LeavesAll DEF Push, IInv
<1> QED BY <1>2, OrderStep

\* build(): what it enqueues again is about loads that fulfilled earlier.
LEMMA OrderBuildStep ==
  ASSUME IInv, IInv', OrderInv, NEW b \in Builds, Build(b)
  PROVE  OrderInv'
<1> DEFINE S == thunks \X {b}
           all == S \cup UNION {members[c] : c \in Builds}
           again == {Job(load'[l], l, b, l[2]) : l \in {m \in all : load'[m] \in Settled}}
           B == ResumeJobs(S) \cup again
<1>1. /\ S \in SUBSET Loads /\ all \in SUBSET Loads
      /\ \A l \in S : IsTop(l) /\ l[2] = b
  BY LoadFacts DEF IInv, TypeOK, Loads, Top, IsTop
<1>2. \A l \in S : load[l] = "idle"
  BY <1>1 DEF IInv, StartInv, Build, NextBuild
<1>3. /\ \A l \in Loads : l \notin S => load'[l] = load[l] /\ declared'[l] = declared[l]
      /\ \A l \in S : load'[l] \in {"loading", "rejected"}
  <2>1. load' = Started(S) /\ declared' = DeclaredBy({l \in S : ~Suspends(l)})
    BY DEF Build
  <2> QED BY <1>1, <2>1, StartedIs DEF DeclaredBy
<1>4. /\ \A c \in Builds : c # b => build'[c] = build[c] /\ members'[c] = members[c]
                                     /\ left'[c] = left[c]
      /\ build'[b] = "awaiting" /\ members'[b] = left'[b] /\ build[b] = "idle"
  BY DEF Build, NextBuild, IInv, TypeOK
<1>5. \A m \in Loads : IsSettled(m) => IsSettled(m)' /\ m \notin S
  BY <1>2, <1>3 DEF IsSettled, Settled
<1>6. Leaves(queue)
  BY <1>5, LeavesAll DEF IInv
<1>7. queue' = Push(queue, B)
  BY DEF Build
<1>8. \A x \in again : x.kind \in Settled /\ x.turn \in Nat \ {0} /\ x \in Jobs
  <2>1. \A l \in all : l \in Loads /\ l[2] \in Nat \ {0}
    BY <1>1, LoadFacts DEF Builds
  <2>2. ASSUME NEW l \in all, load'[l] \in Settled
        PROVE  LET x == Job(load'[l], l, b, l[2])
               IN x.kind \in Settled /\ x.turn \in Nat \ {0} /\ x \in Jobs
    BY <2>1, <2>2, JobTypes DEF Job, JobKinds, Settled
  <2> QED BY <2>2
<1>9. \A x \in ResumeJobs(S) : x.kind = "resume" /\ x \in Jobs
  BY <1>1, NewJobs, JobTypes
<1> HIDE DEF S, all, again
<1>10. /\ B \in SUBSET Jobs
       /\ \A x \in B : x.kind = "fulfilled" => 0 < x.turn
       /\ \A x \in B : x.kind # "built"
  BY <1>8, <1>9 DEF Settled
<1> HIDE DEF B
<1>11. \A l \in Loads : IsSettled(l) => load'[l] = load[l] /\ declared'[l] = declared[l]
  BY <1>3, <1>5
<1>12. \A l \in Loads : load'[l] = "fulfilled" => load[l] = "fulfilled"
  BY <1>3
<1>13. /\ \A c \in Builds : members'[c] \ left'[c] \subseteq members[c] \ left[c]
       /\ \A c \in Builds : build[c] # "idle" => members'[c] = members[c]
       /\ \A c \in Builds : build'[c] = "resolved" => build[c] = "resolved"
  BY <1>4
<1> QED BY <1>6, <1>7, <1>10, <1>11, <1>12, <1>13, OrderStep

\* The I/O of a loader completes.
LEMMA OrderLoaderIOStep ==
  ASSUME IInv, IInv', OrderInv, NEW l \in io, LoaderIO(l)
  PROVE  OrderInv'
<1>1. /\ l \in Loads /\ load[l] = "loading"
      /\ UNCHANGED <<build, members, left, load>>
  BY DEF LoaderIO, IInv, TypeOK, buildVars
<1>2. \A m \in Loads : IsSettled(m) => declared'[m] = declared[m]
  BY <1>1 DEF LoaderIO, DeclaredBy, IsSettled, Settled
<1>3. Leaves(queue)
  BY <1>1, LeavesAll DEF IsSettled, IInv
<1>4. queue' = Push(queue, AfterIO(l)) /\ AfterIO(l) \in SUBSET Jobs
      /\ \A x \in AfterIO(l) : x.kind \notin {"fulfilled", "built"}
  <2>1. \A k \in JobKinds : Job(k, l, l[2], 0) \in Jobs /\ Job(k, l, l[2], 0).kind = k
    BY <1>1, JobTypes, LoadFacts DEF Job
  <2> QED BY <2>1 DEF LoaderIO, AfterIO, JobKinds
<1> QED BY <1>1, <1>2, <1>3, <1>4, OrderStep

\* The loader's promise rejected.
LEMMA OrderAbortStep ==
  ASSUME IInv, IInv', OrderInv, NEW j, IsNextJob(j), Abort(j)
  PROVE  OrderInv'
<1> DEFINE l == j.load
           B == Reactions(l, "rejected")
<1>1. /\ j \in Jobs /\ j \in Pending(queue) /\ JobInv(j) /\ l \in Loads
      /\ j.kind = "abort"
  BY PopQueue DEF IInv, TypeOK, QueueInv, Jobs, Abort
<1>2. /\ load[l] = "loading" /\ load'[l] = "rejected"
      /\ \A m \in Loads : m # l => load'[m] = load[m]
      /\ UNCHANGED <<build, members, left, declared>>
  BY <1>1 DEF JobInv, Continues, Abort, IInv, TypeOK, buildVars
<1>3. \A m \in Loads : IsSettled(m) => IsSettled(m)' /\ load'[m] = load[m]
  BY <1>2 DEF IsSettled, Settled
<1>4. \A m \in Loads : j # Resume(m)
  BY <1>1 DEF Resume, Job
<1>5. Leaves(Pop(j))
  BY <1>3, <1>4, LeavesRest DEF IInv
<1>6. /\ B \in SUBSET Jobs /\ queue' = Push(Pop(j), B)
      /\ \A x \in B : x.kind = "rejected"
  BY <1>1, JobTypes, NewJobs DEF Abort, Settled
<1> HIDE DEF B
<1> QED BY <1>2, <1>3, <1>5, <1>6, OrderStep

\* _finalize: the submodules that need no I/O settle at once or continue in the
\* same batch, ahead of the reactions to the module's own promise.
LEMMA OrderFinalizeStep ==
  ASSUME IInv, IInv', OrderInv, NEW j, IsNextJob(j),
         NEW D \in Startable(j.load), FinalizeWith(j, D)
  PROVE  OrderInv'
<1> DEFINE l == j.load
           S == D \X {l[2]}
           status == IF CanDeclare(l) THEN "fulfilled" ELSE "rejected"
           B == ResumeJobs(S) \cup ThrowJobs(S) \cup Reactions(l, status)
<1>1. /\ j \in Jobs /\ j \in Pending(queue) /\ JobInv(j) /\ l \in Loads
      /\ j.kind = "resume" /\ Continues(j)
  BY PopQueue DEF IInv, TypeOK, QueueInv, Jobs, FinalizeWith, Continues
<1>2. /\ load[l] = "loading"
      /\ status \in Settled
      /\ UNCHANGED <<build, members, left>>
  BY <1>1 DEF JobInv, FinalizeWith, buildVars, Settled
<1>3. /\ S \in SUBSET Loads
      /\ \A m \in S : load[m] = "idle" /\ m # l
  <2>1. D \subseteq SubsOf(l[1])
    BY <1>1 DEF IInv, StartInv, Startable
  <2>2. ASSUME NEW m \in S PROVE m \in Loads /\ ~IsTop(m) /\ <<ParentOf[m[1]], m[2]>> = l
    <3>1. m[1] \in Decls /\ ParentOf[m[1]] = l[1] /\ m[2] = l[2] /\ m = <<m[1], m[2]>>
      BY <2>1 DEF SubsOf
    <3>2. l[1] # 0 /\ l[2] \in Builds /\ l = <<l[1], l[2]>>
      BY <1>1, LoadFacts
    <3> QED BY <3>1, <3>2, LoadFacts DEF IsTop, Top
  <2>3. \A m \in S : load[m] = "idle"
    BY <1>2, <2>2 DEF IInv, StartInv
  <2> QED BY <1>2, <2>2, <2>3
<1>4. /\ load'[l] = status
      /\ \A m \in Loads : m \notin S /\ m # l => load'[m] = load[m]
      /\ \A m \in S : load'[m] \in {"loading", "rejected"}
      /\ \A m \in S : ~Suspends(m) /\ Throws(m) => load'[m] = "rejected"
  <2>1. Started(S) \in [Loads -> {"idle", "loading"} \cup Settled]
    BY <1>3, StartTypes DEF IInv
  <2>2. load' = [Started(S) EXCEPT ![l] = status]
    BY DEF FinalizeWith
  <2> HIDE DEF S, status
  <2>3. \A m \in Loads : load'[m] = IF m = l THEN status ELSE Started(S)[m]
    BY <1>1, <2>1, <2>2
  <2>4. \A m \in Loads :
          /\ m \notin S => Started(S)[m] = load[m]
          /\ m \in S /\ ~Suspends(m) /\ Throws(m) => Started(S)[m] = "rejected"
          /\ m \in S /\ (Suspends(m) \/ ~Throws(m)) => Started(S)[m] = "loading"
    BY <1>3, StartedIs
  <2> QED BY <1>1, <1>3, <2>3, <2>4
<1>5. \A m \in Loads : m \notin S => declared'[m] = declared[m]
  BY DEF FinalizeWith, DeclaredBy
<1>6. queue' = Push(Pop(j), B)
  BY DEF FinalizeWith
<1>7. status = "fulfilled" => SyncSubs(l)' = {m \in S : ~Suspends(m)}
  BY <1>1, <1>3, <1>5 DEF SyncSubs, StartedBy, Startable, CanDeclare
<1>8. \A m \in S : ~Suspends(m) /\ ~Throws(m) => Resume(m) \in ResumeJobs(S)
  BY DEF ResumeJobs, Resume
<1>9. /\ \A x \in ResumeJobs(S) : x.kind = "resume"
      /\ \A x \in ThrowJobs(S) : x.kind = "rejected"
      /\ \A x \in Reactions(l, status) : x.kind = status /\ x.load = l /\ (IsTop(l) => 0 < x.turn)
      /\ B \in SUBSET Jobs
  <2>1. \A x \in Reactions(l, status) : IsTop(l) => 0 < x.turn
    BY BoundsAssumption DEF Reactions, Job, Builds
  <2> QED BY <1>1, <1>2, <1>3, <2>1, NewJobs, JobTypes
<1> HIDE DEF S, status
<1>10. /\ B \in SUBSET Jobs
       /\ \A x \in B : x.kind = "fulfilled" /\ IsTop(x.load) => 0 < x.turn
       /\ \A x \in B : x.kind # "built"
  BY <1>2, <1>9 DEF Settled
<1>11. \A m \in Loads : load'[m] = "fulfilled" /\ load[m] # "fulfilled" =>
         \A n \in SyncSubs(m)' : IsSettled(n)' \/ Resume(n) \in B
  <2>1. \A m \in Loads : load'[m] = "fulfilled" /\ load[m] # "fulfilled" =>
          m = l /\ status = "fulfilled"
    BY <1>3, <1>4
  <2>2. \A n \in S : ~Suspends(n) /\ Throws(n) => IsSettled(n)'
    BY <1>4 DEF IsSettled, Settled
  <2> QED BY <1>7, <1>8, <2>1, <2>2
<1> HIDE DEF B
<1>12. \A m \in Loads : IsSettled(m) => IsSettled(m)' /\ load'[m] = load[m] /\ declared'[m] = declared[m]
  BY <1>2, <1>3, <1>4, <1>5 DEF IsSettled, Settled
<1>13. Leaves(Pop(j))
  <2>1. \A m \in Loads : j = Resume(m) => IsSettled(m)'
    BY <1>2, <1>4 DEF Resume, Job, IsSettled
  <2> QED BY <1>12, <2>1, LeavesRest DEF IInv
<1> QED BY <1>2, <1>6, <1>10, <1>11, <1>12, <1>13, OrderStep

\* A submodule's finalize action, Promise.all or build() goes on.
LEMMA OrderReactionStep ==
  ASSUME IInv, IInv', OrderInv, NEW j, IsNextJob(j),
         SubLoaded(j) \/ ElementFulfilled(j) \/ ElementRejected(j) \/ BuildReturns(j)
  PROVE  OrderInv'
<1>1. /\ j \in Jobs /\ JobInv(j) /\ j.load \in Loads /\ j.build \in Builds
      /\ j \in Pending(queue)
  BY PopQueue DEF IInv, TypeOK, QueueInv, Jobs
<1>2. UNCHANGED <<members, load, declared>>
  BY DEF SubLoaded, ElementFulfilled, ElementRejected, BuildReturns, buildVars, loadVars
<1>3. /\ \A m \in Loads : IsSettled(m) => IsSettled(m)' /\ load'[m] = load[m] /\ declared'[m] = declared[m]
      /\ \A m \in Loads : SyncSubs(m)' = SyncSubs(m)
      /\ \A m \in Loads : IsSettled(m)' <=> IsSettled(m)
  BY <1>2 DEF IsSettled, SyncSubs, StartedBy
<1>4. Leaves(Pop(j))
  <2>1. \A m \in Loads : j # Resume(m)
    BY DEF Resume, Job, SubLoaded, ElementFulfilled, ElementRejected, BuildReturns
  <2> QED BY <1>3, <2>1, LeavesRest DEF IInv
<1>5. 1 \in DOMAIN queue /\ j \in queue[1] /\ queue \in Seq(SUBSET Jobs)
  BY DEF IsNextJob, IInv, TypeOK
<1>6. CASE SubLoaded(j)
  <2>1. UNCHANGED <<build, left>> /\ queue' = Push(Pop(j), {})
    BY <1>6 DEF SubLoaded, buildVars, Push
  <2> QED BY <1>2, <1>3, <1>4, <2>1, OrderStep
<1>7. CASE ElementFulfilled(j)
  <2> DEFINE b == j.build
             rest == left[b] \ {j.load}
             done == build[b] = "awaiting" /\ rest = {}
             B == IF done THEN {Job("built", j.load, b, 0)} ELSE {}
  <2>1. /\ queue' = Push(Pop(j), B)
        /\ left' = [left EXCEPT ![b] = rest]
        /\ build' = IF done THEN [build EXCEPT ![b] = "settling"] ELSE build
        /\ j.kind = "fulfilled" /\ IsTop(j.load)
    BY <1>7 DEF ElementFulfilled, Undecided, LastOf
  <2>2. left'[b] = rest /\ \A c \in Builds : c # b => left'[c] = left[c]
    BY <1>1, <2>1 DEF IInv, TypeOK
  <2>3. \A c \in Builds : build'[c] = "resolved" => build[c] = "resolved"
    BY <1>1, <2>1 DEF IInv, TypeOK
  <2>4. \A m \in SyncSubs(j.load) : IsSettled(m)
    <3>1. ASSUME NEW m \in SyncSubs(j.load) PROVE m \in Loads /\ SettlesBefore(m, 1, j.turn)
      BY <1>1, <1>5, <2>1, SubsAreLoads DEF OrderInv, SubsOnTheirWay, IInv
    <3> QED BY <1>5, <3>1, NothingBeforeNext
  <2>5. \A c \in Builds : \A l \in members'[c] \ left'[c] :
          l \in members[c] \ left[c] \/ \A m \in SyncSubs(l)' : IsSettled(m)'
    <3>1. \A c \in Builds : \A l \in members[c] \ left'[c] : l \in members[c] \ left[c] \/ l = j.load
      BY <2>2
    <3>2. \A m \in SyncSubs(j.load)' : IsSettled(m)'
      BY <1>1, <1>3, <2>4, SubsAreLoads DEF IInv
    <3> QED BY <1>2, <3>1, <3>2
  <2>6. B \in SUBSET Jobs /\ \A x \in B : x.kind = "built" /\ B = {x} /\ left'[x.build] = {}
    <3>1. CASE done
      <4>1. PICK n \in Jobs : B = {n} /\ n.kind = "built" /\ n.build = b
        <5> DEFINE n == Job("built", j.load, b, 0)
        <5>1. n \in Jobs
          BY <1>1, JobTypes DEF JobKinds
        <5>2. n.kind = "built" /\ n.build = b
          BY DEF Job
        <5>3. B = {n}
          BY <3>1
        <5> QED BY <5>1, <5>2, <5>3
      <4>2. left'[b] = {}
        BY <2>2, <3>1
      <4> QED BY <4>1, <4>2
    <3>2. CASE ~done
      BY <3>2
    <3> QED BY <3>1, <3>2
  <2> HIDE DEF B
  <2> QED BY <1>2, <1>3, <1>4, <2>1, <2>3, <2>5, <2>6, OrderStep
<1>8. CASE ElementRejected(j)
  <2> DEFINE b == j.build
             first == build[b] = "awaiting"
             B == IF first THEN {Job("failed", j.load, b, 0)} ELSE {}
  <2>1. /\ queue' = Push(Pop(j), B)
        /\ build' = IF first THEN [build EXCEPT ![b] = "settling"] ELSE build
        /\ left' = left
    BY <1>8 DEF ElementRejected, Undecided
  <2>2. \A c \in Builds : build'[c] = "resolved" => build[c] = "resolved"
    BY <1>1, <2>1 DEF IInv, TypeOK
  <2>3. B \in SUBSET Jobs /\ \A x \in B : x.kind = "failed"
    BY <1>1, JobTypes DEF Job, JobKinds
  <2> HIDE DEF B
  <2> QED BY <1>2, <1>3, <1>4, <2>1, <2>2, <2>3, OrderStep
<1>9. CASE BuildReturns(j)
  <2> DEFINE b == j.build
  <2>1. queue' = Push(Pop(j), {}) /\ left' = left
    BY <1>9 DEF BuildReturns, Push
  <2>2. \A c \in Builds : build'[c] = "resolved" => build[c] = "resolved" \/ (c = b /\ j.kind = "built")
    BY <1>1, <1>9 DEF BuildReturns, IInv, TypeOK
  <2>3. ASSUME j.kind = "built", NEW l \in members[b], NEW m \in SyncSubs(l)
        PROVE  /\ IsSettled(m)
               /\ load[m] = "fulfilled" => \A n \in SyncSubs(m) : IsSettled(n)
    <3>1. l \in Loads /\ m \in Loads
      BY <1>1, <2>3, SubsAreLoads DEF IInv, TypeOK
    <3>2. /\ IsSettled(m)
          /\ load[m] = "fulfilled" => \A n \in SyncSubs(m) : SettlesBefore(n, 1, j.turn)
      BY <1>5, <2>3 DEF OrderInv, SubsCounted
    <3>3. \A n \in SyncSubs(m) : n \in Loads
      BY <3>1, SubsAreLoads DEF IInv
    <3> QED BY <1>5, <3>2, <3>3, NothingBeforeNext
  <2>4. ASSUME NEW c \in Builds, build'[c] = "resolved"
        PROVE  \/ build[c] = "resolved"
               \/ \A l \in members'[c] : \A m \in SyncSubs(l)' :
                    /\ IsSettled(m)'
                    /\ load'[m] = "fulfilled" => \A n \in SyncSubs(m)' : IsSettled(n)'
    <3>1. SUFFICES ASSUME c = b, j.kind = "built", NEW l \in members[b], NEW m \in SyncSubs(l)'
                   PROVE  /\ IsSettled(m)'
                          /\ load'[m] = "fulfilled" => \A n \in SyncSubs(m)' : IsSettled(n)'
      BY <1>2, <2>2, <2>4
    <3>2. l \in Loads
      BY <1>1, <3>1 DEF IInv, TypeOK
    <3>3. m \in SyncSubs(l) /\ m \in Loads
      BY <1>3, <3>1, <3>2, SubsAreLoads DEF IInv
    <3>4. \A n \in SyncSubs(m) : n \in Loads
      BY <3>3, SubsAreLoads DEF IInv
    <3> QED BY <1>2, <1>3, <2>3, <3>1, <3>2, <3>3, <3>4
  <2> QED BY <1>2, <1>3, <1>4, <2>1, <2>4, OrderStep
<1> QED BY <1>6, <1>7, <1>8, <1>9

\* The order of the microtasks holds at first.
LEMMA OrderInit == Init => OrderInv
BY DEF Init, OrderInv, SubsOnTheirWay, SubsCounted

\* Every step of the builder and of the event loop keeps it.
LEMMA OrderNext == IInv /\ IInv' /\ OrderInv /\ [Next]_vars => OrderInv'
<1> SUFFICES ASSUME IInv, IInv', OrderInv, [Next]_vars PROVE OrderInv'
  OBVIOUS
<1>1. ASSUME NEW d \in Decls, WithModule(d) PROVE OrderInv'
  BY <1>1, OrderIdleStep DEF WithModule, buildVars, loadVars
<1>2. ASSUME NEW t \in Targets, WithTargets(t) PROVE OrderInv'
  BY <1>2, OrderIdleStep DEF WithTargets, buildVars, loadVars
<1>3. CASE ToFolder
  BY <1>3, OrderIdleStep DEF ToFolder, buildVars, loadVars
<1>4. ASSUME NEW b \in Builds, BuildWithoutFolder(b) PROVE OrderInv'
  <2>1. \A c \in Builds : build'[c] = "resolved" => build[c] = "resolved"
    BY <1>4 DEF BuildWithoutFolder, IInv, TypeOK
  <2> QED BY <1>4, <2>1, OrderIdleStep DEF BuildWithoutFolder, loadVars
<1>5. ASSUME NEW b \in Builds, Build(b) PROVE OrderInv'
  BY <1>5, OrderBuildStep
<1>6. ASSUME NEW l \in io, LoaderIO(l) PROVE OrderInv'
  BY <1>6, OrderLoaderIOStep
<1>7. ASSUME NEW j \in queue[1], RunJob(j) PROVE OrderInv'
  BY <1>7, OrderAbortStep, OrderFinalizeStep, OrderReactionStep DEF RunJob, Finalize
<1>8. CASE UNCHANGED vars
  BY <1>8, OrderIdleStep DEF vars, buildVars, loadVars
<1> QED BY <1>1, <1>2, <1>3, <1>4, <1>5, <1>6, <1>7, <1>8 DEF Next, UserCall, Microtask

\* Although build() does not await submodules, every submodule that does no
\* I/O has settled when build() resolves, and so has every such submodule of a
\* submodule that loaded: the microtasks that settle them come first.
THEOREM SynchronousSubmodulesSettleFirst == Spec => []SyncSubmodulesFirst
<1>1. OrderInv => SyncSubmodulesFirst
  BY DEF OrderInv, SubsCounted, SyncSubmodulesFirst, SyncSubs, NoneSuspends, IsSettled
<1> QED BY <1>1, IInvInit, IInvStep, OrderInit, OrderNext, PTL DEF Spec

-----------------------------------------------------------------------------
(* BuilderContract is implemented, and nothing is taken back: each step of *)
(* the event loop is a step of the contract or invisible to it.            *)

\* What has been registered or has settled stays as it is.
Keeps ==
  /\ registry \subseteq registry'
  /\ \A l \in Loads : load[l] \in Settled => load'[l] = load[l]
  /\ \A b \in Builds : build[b] \in Over => build'[b] = build[b]

ContractStep == Contract!Next \/ UNCHANGED Contract!vars

\* What the contract sees of the builder.
FailedLoads == {l \in Loads : load[l] = "rejected"}
Outward == [b \in Builds |-> IF build[b] = "settling" THEN "awaiting" ELSE build[b]]

-----------------------------------------------------------------------------
\* A step that leaves promises and registry alone.
LEMMA InvisibleStep ==
  ASSUME UNCHANGED <<registry, load, members, build>>
  PROVE  Keeps /\ ContractStep
BY DEF Keeps, ContractStep, Contract!vars

\* Promise.all settles: the contract sees no difference to awaiting.
LEMMA SettlingStep ==
  ASSUME TypeOK, NEW b \in Builds, build[b] = "awaiting",
         build' = [build EXCEPT ![b] = "settling"],
         UNCHANGED <<registry, load, members>>
  PROVE  Keeps /\ ContractStep
<1>1. Keeps
  BY DEF Keeps, Over, TypeOK
<1>2. Outward' = Outward
  BY DEF Outward, TypeOK
<1> QED BY <1>1, <1>2 DEF ContractStep, Contract!vars, Outward

\* A build() without an output folder is refused.
LEMMA RefuseStep ==
  ASSUME IInv, NEW b \in Builds, BuildWithoutFolder(b)
  PROVE  Keeps /\ ContractStep
<1>1. /\ build[b] = "idle" /\ build' = [build EXCEPT ![b] = "rejected"]
      /\ UNCHANGED <<registry, load, members>>
  BY DEF BuildWithoutFolder, NextBuild, loadVars
<1>2. Keeps
  BY <1>1 DEF Keeps, Over, IInv, TypeOK
<1>3. Outward[b] = "idle" /\ Outward' = [Outward EXCEPT ![b] = "rejected"]
  BY <1>1 DEF Outward, IInv, TypeOK
<1>4. Contract!Refuse(b)
  BY <1>1, <1>3 DEF Contract!Refuse, Outward
<1> QED BY <1>2, <1>4 DEF ContractStep, Contract!Next

\* build() starts the loads of all thunks, some of which fail at once.
LEMMA StartStep ==
  ASSUME IInv, NEW b \in Builds, Build(b)
  PROVE  Keeps /\ ContractStep
<1> DEFINE S == thunks \X {b}
           all == S \cup UNION {members[c] : c \in Builds}
<1>1. /\ S \in SUBSET Loads /\ all \in SUBSET Loads
      /\ \A l \in S : IsTop(l) /\ l[2] = b
  BY LoadFacts DEF IInv, TypeOK, Loads, Top, IsTop
<1>2. \A l \in S : load[l] = "idle"
  BY <1>1 DEF IInv, StartInv, Build, NextBuild
<1>3. /\ \A l \in Loads : l \notin S => load'[l] = load[l]
      /\ \A l \in S : load'[l] \in {"loading", "rejected"}
  BY <1>1, StartedIs DEF Build
<1>4. /\ build[b] = "idle" /\ build' = [build EXCEPT ![b] = "awaiting"]
      /\ members' = [members EXCEPT ![b] = all] /\ registry' = registry
  BY DEF Build, NextBuild
<1>5. Keeps
  BY <1>2, <1>3, <1>4 DEF Keeps, Settled, Over, IInv, TypeOK
<1>6. Outward[b] = "idle" /\ Outward' = [Outward EXCEPT ![b] = "awaiting"]
  BY <1>4 DEF Outward, IInv, TypeOK
<1>7. FailedLoads \subseteq FailedLoads' /\ FailedLoads' \subseteq Loads \ registry'
  BY <1>2, <1>3, <1>4 DEF FailedLoads, IInv, RegistryInv
<1>8. Contract!Start(b)
  BY <1>1, <1>4, <1>6, <1>7 DEF Contract!Start, Contract!SomeFail, Outward, FailedLoads
<1> QED BY <1>5, <1>8 DEF ContractStep, Contract!Next

\* A load whose loader rejected fails.
LEMMA FailStep ==
  ASSUME IInv, NEW j, IsNextJob(j), Abort(j)
  PROVE  Keeps /\ ContractStep
<1>1. /\ j.load \in Loads /\ load[j.load] = "loading"
      /\ load' = [load EXCEPT ![j.load] = "rejected"]
      /\ UNCHANGED <<registry, members, build>>
  BY PopQueue DEF IInv, TypeOK, QueueInv, JobInv, Jobs, Abort, Continues, buildVars
<1>2. Keeps
  BY <1>1 DEF Keeps, Settled, IInv, TypeOK
<1>3. FailedLoads \subseteq FailedLoads' /\ FailedLoads' \subseteq Loads \ registry'
  BY <1>1 DEF FailedLoads, IInv, TypeOK, RegistryInv
<1>4. Contract!Fail
  BY <1>1, <1>3 DEF Contract!Fail, Contract!SomeFail, FailedLoads
<1> QED BY <1>2, <1>4 DEF ContractStep, Contract!Next

\* _finalize registers a module under a free name, or the load fails.
LEMMA RegisterStep ==
  ASSUME IInv, NEW j, IsNextJob(j),
         NEW D \in Startable(j.load), FinalizeWith(j, D)
  PROVE  Keeps /\ ContractStep
<1> DEFINE l == j.load
           S == D \X {l[2]}
           status == IF CanDeclare(l) THEN "fulfilled" ELSE "rejected"
<1>1. l \in Loads /\ load[l] = "loading" /\ UNCHANGED <<members, build>>
  BY PopQueue DEF IInv, TypeOK, QueueInv, JobInv, Jobs, FinalizeWith, Continues, buildVars
<1>2. S \in SUBSET Loads /\ \A m \in S : load[m] = "idle" /\ m # l
  <2>1. D \subseteq SubsOf(l[1])
    BY <1>1 DEF IInv, StartInv, Startable
  <2>2. ASSUME NEW m \in S PROVE m \in Loads /\ load[m] = "idle"
    <3>1. m[1] \in Decls /\ ParentOf[m[1]] = l[1] /\ m[2] = l[2] /\ m = <<m[1], m[2]>>
      BY <2>1 DEF SubsOf
    <3>2. l[1] # 0 /\ l[2] \in Builds /\ l = <<l[1], l[2]>>
      BY <1>1, LoadFacts
    <3>3. m \in Loads /\ ~IsTop(m) /\ <<ParentOf[m[1]], m[2]>> = l
      BY <3>1, <3>2, LoadFacts DEF IsTop, Top
    <3> QED BY <1>1, <3>3 DEF IInv, StartInv
  <2> QED BY <1>1, <2>2
<1>3. /\ load'[l] = status
      /\ \A m \in Loads : m \notin S /\ m # l => load'[m] = load[m]
      /\ \A m \in S : load'[m] \in {"loading", "rejected"}
  <2>1. Started(S) \in [Loads -> {"idle", "loading"} \cup Settled]
    BY <1>2, StartTypes DEF IInv
  <2>2. load' = [Started(S) EXCEPT ![l] = status]
    BY DEF FinalizeWith
  <2>3. \A m \in Loads :
          /\ m \notin S => Started(S)[m] = load[m]
          /\ m \in S => Started(S)[m] \in {"loading", "rejected"}
    BY <1>2, StartedIs
  <2> HIDE DEF S, status
  <2> QED BY <1>1, <1>2, <2>1, <2>2, <2>3
<1>4. \/ CanDeclare(l) /\ status = "fulfilled" /\ registry' = registry \cup {l}
      \/ ~CanDeclare(l) /\ status = "rejected" /\ registry' = registry
  BY DEF FinalizeWith
<1> HIDE DEF S, status
<1>5. Keeps
  BY <1>1, <1>2, <1>3, <1>4 DEF Keeps, Settled
<1>6. /\ l \notin registry \cup FailedLoads
      /\ FailedLoads \subseteq FailedLoads' /\ FailedLoads' \subseteq Loads \ registry'
  BY <1>1, <1>2, <1>3, <1>4 DEF FailedLoads, IInv, RegistryInv
<1>7. CASE CanDeclare(l)
  <2>1. \A r \in registry : r \in Loads /\ Name(r) # Name(l)
    BY <1>7 DEF CanDeclare, Taken, IInv, TypeOK
  <2>2. Contract!NameFree(l)
    BY <1>1, <2>1 DEF Contract!NameFree
  <2>3. Contract!Register(l)
    BY <1>1, <1>4, <1>6, <1>7, <2>2 DEF Contract!Register, Contract!SomeFail, FailedLoads
  <2> QED BY <1>1, <1>5, <2>3 DEF ContractStep, Contract!Next
<1>8. CASE ~CanDeclare(l)
  <2>1. Contract!Fail
    BY <1>1, <1>4, <1>6, <1>8 DEF Contract!Fail, Contract!SomeFail, FailedLoads
  <2> QED BY <1>5, <2>1 DEF ContractStep, Contract!Next
<1> QED BY <1>7, <1>8

\* Promise.all counts an element, and perhaps settles.
LEMMA ElementStep ==
  ASSUME IInv, NEW j, IsNextJob(j), ElementFulfilled(j) \/ ElementRejected(j)
  PROVE  Keeps /\ ContractStep
<1>1. j.build \in Builds
  BY PopQueue DEF IInv, TypeOK, Jobs
<1>2. /\ UNCHANGED <<registry, load, members>>
      /\ \/ build' = build
         \/ build[j.build] = "awaiting" /\ build' = [build EXCEPT ![j.build] = "settling"]
  BY DEF ElementFulfilled, ElementRejected, Undecided, loadVars
<1> QED BY <1>1, <1>2, InvisibleStep, SettlingStep DEF IInv

\* build() returns or throws what Promise.all found.
LEMMA ReturnStep ==
  ASSUME IInv, NEW j, IsNextJob(j), BuildReturns(j)
  PROVE  Keeps /\ ContractStep
<1> DEFINE b == j.build
<1>1. b \in Builds /\ JobInv(j) /\ UNCHANGED <<registry, load, members>>
  BY PopQueue DEF IInv, TypeOK, Jobs, QueueInv, BuildReturns, loadVars
<1>2. build[b] = "settling" /\ Outward[b] = "awaiting"
  BY <1>1 DEF JobInv, Ends, BuildReturns, Outward
<1>3. CASE j.kind = "built"
  <2>1. build' = [build EXCEPT ![b] = "resolved"] /\ members[b] \subseteq registry
    BY <1>1, <1>3 DEF BuildReturns, JobInv
  <2>2. Outward' = [Outward EXCEPT ![b] = "resolved"]
    BY <1>1, <2>1 DEF Outward, IInv, TypeOK
  <2>3. Contract!Resolve(b)
    BY <1>1, <1>2, <2>1, <2>2 DEF Contract!Resolve, Outward
  <2>4. Keeps
    BY <1>1, <1>2, <2>1 DEF Keeps, Over, IInv, TypeOK
  <2> QED BY <1>1, <2>3, <2>4 DEF ContractStep, Contract!Next
<1>4. CASE j.kind = "failed"
  <2>1. /\ build' = [build EXCEPT ![b] = "rejected"]
        /\ members[b] \cap FailedLoads # {}
    BY <1>1, <1>4 DEF BuildReturns, JobInv, FailedLoads, IInv, TypeOK
  <2>2. Outward' = [Outward EXCEPT ![b] = "rejected"]
    BY <1>1, <2>1 DEF Outward, IInv, TypeOK
  <2>3. Contract!Reject(b)
    BY <1>1, <1>2, <2>1, <2>2 DEF Contract!Reject, Outward, FailedLoads
  <2>4. Keeps
    BY <1>1, <1>2, <2>1 DEF Keeps, Over, IInv, TypeOK
  <2> QED BY <1>1, <2>3, <2>4 DEF ContractStep, Contract!Next
<1> QED BY <1>3, <1>4 DEF BuildReturns

-----------------------------------------------------------------------------
\* Every step from a coherent state keeps what was handed out and is a step
\* of the contract.
LEMMA EveryStep == IInv /\ [Next]_vars => Keeps /\ ContractStep
<1> SUFFICES ASSUME IInv, [Next]_vars PROVE Keeps /\ ContractStep
  OBVIOUS
<1>1. ASSUME NEW d \in Decls, WithModule(d) PROVE Keeps /\ ContractStep
  BY <1>1, InvisibleStep DEF WithModule, buildVars, loadVars
<1>2. ASSUME NEW t \in Targets, WithTargets(t) PROVE Keeps /\ ContractStep
  BY <1>2, InvisibleStep DEF WithTargets, buildVars, loadVars
<1>3. CASE ToFolder
  BY <1>3, InvisibleStep DEF ToFolder, buildVars, loadVars
<1>4. ASSUME NEW b \in Builds, Build(b) \/ BuildWithoutFolder(b) PROVE Keeps /\ ContractStep
  BY <1>4, StartStep, RefuseStep
<1>5. ASSUME NEW l \in io, LoaderIO(l) PROVE Keeps /\ ContractStep
  BY <1>5, InvisibleStep DEF LoaderIO, buildVars
<1>6. ASSUME NEW j \in queue[1], RunJob(j) PROVE Keeps /\ ContractStep
  <2>1. CASE SubLoaded(j)
    BY <2>1, InvisibleStep DEF SubLoaded, buildVars
  <2> QED BY <1>6, <2>1, FailStep, RegisterStep, ElementStep, ReturnStep DEF RunJob, Finalize
<1>7. CASE UNCHANGED vars
  BY <1>7, InvisibleStep DEF vars, buildVars, loadVars
<1> QED BY <1>1, <1>2, <1>3, <1>4, <1>5, <1>6, <1>7 DEF Next, UserCall, Microtask

\* The empty builder is an initial state of the contract.
LEMMA ContractInit == Init => Contract!Init
BY DEF Init, Contract!Init

\* The builder on Node's event loop implements the contract.
THEOREM KeepsContract == Spec => ImplementsContract
<1>1. IInv /\ [Next]_vars => [Contract!Next]_(Contract!vars)
  BY EveryStep DEF ContractStep
<1> QED BY <1>1, ContractInit, Coherent, PTL DEF Spec, ImplementsContract, Contract!Spec

-----------------------------------------------------------------------------
(* Why loads come to what they do *)

\* The initial states: no load yet.
LEMMA LoadsInit == Init => LoadsInv /\ TargetsInv
BY DEF Init, LoadsInv, TargetsInv, Pending

\* Steps that start and settle no load, and may only settle builds.
LEMMA LoadsIdleStep ==
  ASSUME LoadsInv, UNCHANGED <<fault, members, load, registry, io>>,
         \A b \in Builds : build[b] # "idle" => build'[b] # "idle",
         \A j \in Pending(queue') : j.kind = "abort" => j \in Pending(queue)
  PROVE  LoadsInv'
BY DEF LoadsInv, Taken, Name, Throws

LEMMA TargetsIdleStep ==
  ASSUME TargetsInv, UNCHANGED <<targets, load, io, declared>>
  PROVE  TargetsInv'
BY DEF TargetsInv, Declares

\* withTargets(): when it is not called late, no load has started.
LEMMA TargetsGivenStep ==
  ASSUME IInv, LoadsInv, TargetsInv, NEW t \in Targets, WithTargets(t)
  PROVE  LoadsInv' /\ TargetsInv'
<1>1. LoadsInv'
  BY LoadsIdleStep DEF WithTargets, buildVars, loadVars
<1>2. TargetsInv'
  <2>1. SUFFICES ASSUME ~LateTargets, NEW l \in Loads, load'[l] # "idle"
                 PROVE  FALSE
    BY DEF TargetsInv
  <2>2. load[l] # "idle" /\ l[2] \in Builds
    BY <2>1, LoadFacts DEF WithTargets, loadVars
  <2>3. build[l[2]] # "idle"
    BY <2>2 DEF LoadsInv
  <2> QED BY <2>1, <2>2, <2>3 DEF WithTargets
<1> QED BY <1>1, <1>2

\* build(): all the thunks run.
LEMMA LoadsBuildStep ==
  ASSUME IInv, LoadsInv, TargetsInv, NEW b \in Builds, Build(b)
  PROVE  LoadsInv' /\ TargetsInv'
<1> DEFINE S == thunks \X {b}
           all == S \cup UNION {members[c] : c \in Builds}
           again == {Job(load'[l], l, b, l[2]) : l \in {m \in all : load'[m] \in Settled}}
<1>1. /\ S \in SUBSET Loads /\ all \in SUBSET Loads
      /\ \A l \in S : IsTop(l) /\ l[2] = b
      /\ <<Core, b>> \in S
  BY LoadFacts DEF IInv, TypeOK, Loads, Top, IsTop
<1>2. /\ load' = Started(S)
      /\ \A l \in Loads : l \notin S => load'[l] = load[l]
      /\ \A l \in S : load'[l] # "idle"
      /\ \A l \in S : load'[l] = "rejected" => Throws(l)
  BY <1>1, StartedIs DEF Build
<1>3. /\ \A c \in Builds : c # b => build'[c] = build[c] /\ members'[c] = members[c]
      /\ build'[b] = "awaiting" /\ members'[b] = all
      /\ build[b] = "idle"
  BY DEF Build, NextBuild, IInv, TypeOK
<1>4. /\ io' = io \cup {l \in S : Suspends(l)} /\ registry' = registry /\ fault' = fault
      /\ targets' = targets /\ declared' = DeclaredBy({l \in S : ~Suspends(l)})
  BY DEF Build, builderVars
<1>5. \A l \in Loads : load'[l] # "idle" =>
         members'[l[2]] # {} /\ (IsTop(l) => l \in members'[l[2]])
  <2>1. ASSUME NEW l \in Loads, load'[l] # "idle", l \notin S
        PROVE  members'[l[2]] # {} /\ (IsTop(l) => l \in members'[l[2]])
    <3>1. l[2] \in Builds /\ load[l] # "idle"
      BY <1>2, <2>1, LoadFacts
    <3>2. members[l[2]] # {} /\ (IsTop(l) => l \in members[l[2]])
      BY <2>1, <3>1 DEF LoadsInv
    <3>3. l[2] # b
      BY <1>3, <3>1, <3>2 DEF LoadsInv
    <3> QED BY <1>3, <3>1, <3>2, <3>3
  <2> QED BY <1>1, <1>3, <2>1
<1>6. \A j \in Pending(queue') : j.kind = "abort" => j \in Pending(queue)
  <2>1. again \subseteq Jobs /\ \A j \in again : j.kind \in Settled
    <3>1. \A l \in all : l \in Loads /\ l[2] \in Nat
      BY <1>1, LoadFacts
    <3>2. \A j \in again : \E l \in all : load'[l] \in Settled /\ j = Job(load'[l], l, b, l[2])
      OBVIOUS
    <3> QED BY <3>1, <3>2, JobTypes DEF Job, JobKinds, Settled
  <2>2. ResumeJobs(S) \cup again \in SUBSET Jobs
    BY <1>1, <2>1, JobTypes
  <2>3. queue' = Push(queue, ResumeJobs(S) \cup again) /\ queue \in Seq(SUBSET Jobs)
    BY DEF Build, IInv, TypeOK
  <2>4. \A j \in ResumeJobs(S) \cup again : j.kind # "abort"
    BY <1>1, <2>1, NewJobs DEF Settled
  <2> HIDE DEF again
  <2>5. Pending(queue') = Pending(queue) \cup (ResumeJobs(S) \cup again)
    BY <2>2, <2>3, PushPending
  <2> QED BY <2>4, <2>5
<1>7. LoadsInv'
  <2>1. (\A d \in Decls \ Faulty : fault[d] = "none")' /\ (\A c \in Builds : members[c] # {} => build[c] # "idle")'
    BY <1>3, <1>4 DEF LoadsInv
  <2>2. (\A l \in io : Suspends(l))'
    BY <1>4 DEF LoadsInv, Suspends
  <2>3. (\A l \in Loads : load[l] = "rejected" => fault[l[1]] # "none" \/ Taken(Name(l)))'
    BY <1>2, <1>4 DEF LoadsInv, Taken, Throws, Name
  <2>4. (\A j \in Pending(queue) : j.kind = "abort" => Throws(j.load))'
    BY <1>4, <1>6 DEF LoadsInv, Throws
  <2> QED BY <1>5, <2>1, <2>2, <2>3, <2>4 DEF LoadsInv
<1>8. TargetsInv'
  BY <1>1, <1>2, <1>4 DEF TargetsInv, DeclaredBy, Declares
<1> QED BY <1>7, <1>8

\* The I/O of a loader completes: only a loader that throws aborts its load.
LEMMA LoadsLoaderIOStep ==
  ASSUME IInv, LoadsInv, TargetsInv, NEW l \in io, LoaderIO(l)
  PROVE  LoadsInv' /\ TargetsInv'
<1>1. /\ l \in Loads /\ io' = io \ {l} /\ declared' = DeclaredBy({l})
      /\ UNCHANGED <<fault, targets, build, members, load, registry>>
      /\ queue' = Push(queue, AfterIO(l)) /\ queue \in Seq(SUBSET Jobs)
  BY DEF LoaderIO, IInv, TypeOK, buildVars, builderVars
<1>2. Pending(queue') = Pending(queue) \cup AfterIO(l)
  <2>1. AfterIO(l) \in SUBSET Jobs
    BY <1>1, LoadFacts, JobTypes DEF AfterIO, JobKinds
  <2> QED BY <1>1, <2>1, PushPending
<1>3. \A j \in AfterIO(l) : j.kind = "abort" => Throws(j.load)
  BY DEF AfterIO, Job
<1>4. (\A j \in Pending(queue) : j.kind = "abort" => Throws(j.load))'
  BY <1>1, <1>2, <1>3 DEF LoadsInv, Throws
<1>5. LoadsInv'
  BY <1>1, <1>4 DEF LoadsInv, Taken, Suspends
<1>6. TargetsInv'
  BY <1>1 DEF TargetsInv, DeclaredBy, Declares
<1> QED BY <1>5, <1>6

\* The loader's promise rejected: the loader did throw.
LEMMA LoadsAbortStep ==
  ASSUME IInv, LoadsInv, TargetsInv, NEW j, IsNextJob(j), Abort(j)
  PROVE  LoadsInv' /\ TargetsInv'
<1> DEFINE l == j.load
           B == Reactions(l, "rejected")
<1>1. /\ j \in Jobs /\ j \in Pending(queue) /\ JobInv(j) /\ l \in Loads
      /\ j.kind = "abort" /\ Continues(j)
      /\ Pop(j) \in Seq(SUBSET Jobs) /\ Pending(Pop(j)) \subseteq Pending(queue)
  BY PopQueue DEF IInv, TypeOK, QueueInv, Jobs, Abort, Continues
<1>2. /\ load[l] = "loading" /\ l \notin io /\ Throws(l)
      /\ load'[l] = "rejected"
      /\ \A m \in Loads : m # l => load'[m] = load[m]
      /\ UNCHANGED <<fault, targets, build, members, declared, registry, io>>
  BY <1>1 DEF JobInv, Abort, IInv, TypeOK, builderVars, buildVars, LoadsInv
<1>3. \A m \in Pending(queue') : m.kind = "abort" => m \in Pending(queue)
  <2>1. B \in SUBSET Jobs /\ queue' = Push(Pop(j), B)
    BY <1>1, JobTypes DEF Abort, Settled
  <2>2. \A m \in B : m.kind = "rejected"
    BY <1>1, NewJobs DEF Settled
  <2> HIDE DEF B
  <2>3. Pending(queue') = Pending(Pop(j)) \cup B
    BY <1>1, <2>1, PushPending
  <2> QED BY <1>1, <2>2, <2>3
<1> HIDE DEF l
<1>4. LoadsInv'
  BY <1>1, <1>2, <1>3 DEF LoadsInv, Taken, Throws, Suspends
<1>5. TargetsInv'
  BY <1>1, <1>2 DEF TargetsInv, Declares
<1> QED BY <1>4, <1>5

\* _finalize: the load fails only if finalization throws or the name is taken,
\* and so does a submodule at once only if its loader throws.
LEMMA LoadsFinalizeStep ==
  ASSUME IInv, LoadsInv, TargetsInv, NEW j, IsNextJob(j),
         NEW D \in Startable(j.load), FinalizeWith(j, D)
  PROVE  LoadsInv' /\ TargetsInv'
<1> DEFINE l == j.load
           S == D \X {l[2]}
           status == IF CanDeclare(l) THEN "fulfilled" ELSE "rejected"
           B == ResumeJobs(S) \cup ThrowJobs(S) \cup Reactions(l, status)
<1>1. /\ j \in Jobs /\ j \in Pending(queue) /\ JobInv(j) /\ l \in Loads
      /\ j.kind = "resume" /\ Continues(j)
      /\ Pop(j) \in Seq(SUBSET Jobs) /\ Pending(Pop(j)) \subseteq Pending(queue)
  BY PopQueue DEF IInv, TypeOK, QueueInv, Jobs, FinalizeWith, Continues
<1>2. /\ load[l] = "loading" /\ l \notin io /\ status \in Settled
      /\ io' = io \cup {m \in S : Suspends(m)}
      /\ declared' = DeclaredBy({m \in S : ~Suspends(m)})
      /\ registry' = IF CanDeclare(l) THEN registry \cup {l} ELSE registry
      /\ UNCHANGED <<fault, targets, build, members>>
  BY <1>1 DEF JobInv, FinalizeWith, builderVars, buildVars, Settled
<1>3. /\ S \in SUBSET Loads
      /\ \A m \in S : ~IsTop(m) /\ m[2] = l[2] /\ m # l
  <2>1. D \subseteq SubsOf(l[1])
    BY <1>1 DEF IInv, StartInv, Startable
  <2> QED BY <1>1, <2>1, LoadFacts DEF SubsOf, IsTop, Top, Loads
<1>4. /\ load'[l] = status
      /\ \A m \in Loads : m # l /\ m \notin S => load'[m] = load[m]
      /\ \A m \in S : load'[m] = "rejected" => Throws(m)
  <2>1. load' = [Started(S) EXCEPT ![l] = status]
    BY DEF FinalizeWith
  <2>2. Started(S) \in [Loads -> {"idle", "loading"} \cup Settled]
    BY <1>3, StartTypes DEF IInv
  <2> HIDE DEF S, status
  <2>3. load'[l] = status /\ \A m \in Loads : m # l => load'[m] = Started(S)[m]
    BY <1>1, <2>1, <2>2
  <2> QED BY <1>3, <2>3, StartedIs
<1>5. \A m \in Pending(queue') : m.kind = "abort" => m \in Pending(queue)
  <2>1. B \in SUBSET Jobs
    BY <1>1, <1>2, <1>3, JobTypes
  <2>2. queue' = Push(Pop(j), B)
    BY DEF FinalizeWith
  <2>3. \A m \in B : m.kind # "abort"
    <3>1. \A m \in Reactions(l, status) : m.kind \in Settled
      BY <1>1, <1>2, NewJobs
    <3>2. \A m \in ResumeJobs(S) \cup ThrowJobs(S) : m.kind \in {"resume", "rejected"}
      BY <1>3, NewJobs
    <3> QED BY <3>1, <3>2 DEF Settled
  <2> HIDE DEF B
  <2>4. Pending(queue') = Pending(Pop(j)) \cup B
    BY <1>1, <2>1, <2>2, PushPending
  <2> QED BY <1>1, <2>3, <2>4
<1>6. status = "rejected" => fault[l[1]] # "none" \/ Taken(Name(l))
  BY DEF CanDeclare
<1>7. members[l[2]] # {} /\ (IsTop(l) => l \in members[l[2]])
  BY <1>1, <1>2 DEF LoadsInv
<1> HIDE DEF l, S, status
<1>8. LoadsInv'
  <2>1. (\A d \in Decls \ Faulty : fault[d] = "none")' /\ (\A c \in Builds : members[c] # {} => build[c] # "idle")'
    BY <1>2 DEF LoadsInv
  <2>2. (\A m \in Loads : load[m] # "idle" => members[m[2]] # {} /\ (IsTop(m) => m \in members[m[2]]))'
    <3>1. SUFFICES ASSUME NEW m \in Loads, load'[m] # "idle"
                   PROVE  members[m[2]] # {} /\ (IsTop(m) => m \in members[m[2]])
      BY <1>2 DEF IsTop
    <3>2. CASE m \in S
      BY <1>3, <1>7, <3>2
    <3>3. CASE m \notin S /\ m # l
      BY <1>4, <3>1, <3>3 DEF LoadsInv
    <3> QED BY <1>7, <3>2, <3>3
  <2>3. (\A m \in io : Suspends(m))'
    BY <1>2 DEF LoadsInv, Suspends
  <2>4. (\A m \in Loads : load[m] = "rejected" => fault[m[1]] # "none" \/ Taken(Name(m)))'
    <3>1. \A n : Taken(n) => Taken(n)'
      BY <1>2 DEF Taken, Name
    <3>2. SUFFICES ASSUME NEW m \in Loads, load'[m] = "rejected"
                   PROVE  fault[m[1]] # "none" \/ Taken(Name(m))
      BY <1>2, <3>1 DEF Name
    <3>3. CASE m \in S
      BY <1>4, <3>2, <3>3 DEF Throws
    <3>4. CASE m \notin S /\ m # l
      BY <1>4, <3>2, <3>4 DEF LoadsInv
    <3>5. CASE m = l
      BY <1>4, <1>6, <3>2, <3>5
    <3> QED BY <3>3, <3>4, <3>5
  <2>5. (\A m \in Pending(queue) : m.kind = "abort" => Throws(m.load))'
    BY <1>2, <1>5 DEF LoadsInv, Throws
  <2> QED BY <2>1, <2>2, <2>3, <2>4, <2>5 DEF LoadsInv
<1>9. TargetsInv'
  <2>1. SUFFICES ASSUME ~LateTargets, NEW m \in Loads, load'[m] # "idle", m \notin io'
                 PROVE  declared'[m] = Declares(m)
    BY <1>2 DEF TargetsInv, Declares
  <2>2. CASE m \in S
    BY <1>2, <2>1, <2>2 DEF DeclaredBy
  <2>3. CASE m \notin S
    <3>1. declared'[m] = declared[m] /\ m \notin io /\ load[m] # "idle"
      BY <1>2, <1>4, <2>1, <2>3 DEF DeclaredBy
    <3> QED BY <2>1, <3>1 DEF TargetsInv
  <2> QED BY <2>2, <2>3
<1> QED BY <1>8, <1>9

\* The reactions settle builds and start no load.
LEMMA LoadsReactionStep ==
  ASSUME IInv, LoadsInv, TargetsInv, NEW j, IsNextJob(j),
         SubLoaded(j) \/ ElementFulfilled(j) \/ ElementRejected(j) \/ BuildReturns(j)
  PROVE  LoadsInv' /\ TargetsInv'
<1>1. /\ j \in Jobs /\ j.load \in Loads /\ j.build \in Builds
      /\ Pop(j) \in Seq(SUBSET Jobs) /\ Pending(Pop(j)) \subseteq Pending(queue)
  BY PopQueue DEF IInv, TypeOK, QueueInv, Jobs
<1>2. UNCHANGED <<fault, targets, members, load, declared, registry, io>>
  BY DEF SubLoaded, ElementFulfilled, ElementRejected, BuildReturns, builderVars, buildVars, loadVars
<1>3. \A b \in Builds : build[b] # "idle" => build'[b] # "idle"
  BY DEF SubLoaded, ElementFulfilled, ElementRejected, BuildReturns, buildVars, IInv, TypeOK
<1>4. PICK B \in {{}, {Job("built", j.load, j.build, 0)}, {Job("failed", j.load, j.build, 0)}} :
        queue' = Push(Pop(j), B)
  <2>1. Pop(j) = Push(Pop(j), {})
    BY DEF Push
  <2> QED BY <2>1 DEF SubLoaded, ElementFulfilled, ElementRejected, BuildReturns
<1>5. B \in SUBSET Jobs /\ \A m \in B : m.kind # "abort"
  BY <1>1, <1>4, JobTypes DEF Job, JobKinds
<1>6. \A m \in Pending(queue') : m.kind = "abort" => m \in Pending(queue)
  BY <1>1, <1>4, <1>5, PushPending
<1> QED BY <1>2, <1>3, <1>6, LoadsIdleStep, TargetsIdleStep

\* Every step of the builder and of the event loop keeps both.
LEMMA LoadsNext == IInv /\ LoadsInv /\ TargetsInv /\ [Next]_vars => LoadsInv' /\ TargetsInv'
<1> SUFFICES ASSUME IInv, LoadsInv, TargetsInv, [Next]_vars PROVE LoadsInv' /\ TargetsInv'
  OBVIOUS
<1>1. ASSUME NEW d \in Decls, WithModule(d) PROVE LoadsInv' /\ TargetsInv'
  BY <1>1, LoadsIdleStep, TargetsIdleStep DEF WithModule, buildVars, loadVars
<1>2. ASSUME NEW t \in Targets, WithTargets(t) PROVE LoadsInv' /\ TargetsInv'
  BY <1>2, TargetsGivenStep
<1>3. CASE ToFolder
  BY <1>3, LoadsIdleStep, TargetsIdleStep DEF ToFolder, buildVars, loadVars
<1>4. ASSUME NEW b \in Builds, BuildWithoutFolder(b) PROVE LoadsInv' /\ TargetsInv'
  <2>1. \A c \in Builds : build[c] # "idle" => build'[c] # "idle"
    BY <1>4 DEF BuildWithoutFolder, IInv, TypeOK
  <2> QED BY <1>4, <2>1, LoadsIdleStep, TargetsIdleStep DEF BuildWithoutFolder, builderVars, loadVars
<1>5. ASSUME NEW b \in Builds, Build(b) PROVE LoadsInv' /\ TargetsInv'
  BY <1>5, LoadsBuildStep
<1>6. ASSUME NEW l \in io, LoaderIO(l) PROVE LoadsInv' /\ TargetsInv'
  BY <1>6, LoadsLoaderIOStep
<1>7. ASSUME NEW j \in queue[1], RunJob(j) PROVE LoadsInv' /\ TargetsInv'
  BY <1>7, LoadsAbortStep, LoadsFinalizeStep, LoadsReactionStep DEF RunJob, Finalize
<1>8. CASE UNCHANGED vars
  BY <1>8, LoadsIdleStep, TargetsIdleStep DEF vars, builderVars, buildVars, loadVars
<1> QED BY <1>1, <1>2, <1>3, <1>4, <1>5, <1>6, <1>7, <1>8 DEF Next, UserCall, Microtask

\* A load fails only for a fault of its own or a name that is taken, and
\* belongs to a build() that was called.
THEOREM LoadsFailForAReason == Spec => [](LoadsInv /\ TargetsInv)
BY IInvInit, IInvStep, LoadsInit, LoadsNext, PTL DEF Spec

-----------------------------------------------------------------------------
(* No failure of a load is lost on the way from microtask to microtask *)

\* Among the jobs P one tells build b, or the finalize action, that l rejected.
Told(P, l, b) == \E j \in P : j.kind = "rejected" /\ j.load = l /\ j.build = b

\* Among the jobs P one goes on with build b.
Ending(P, b) == \E j \in P : Ends(j) /\ j.build = b

\* Whoever has not heard of a rejection has a job pending that says so.
SurfaceInv ==
  /\ \A b \in Builds : \A l \in members[b] : IsTop(l) /\ load[l] # "idle"
  /\ \A l \in Loads : load[l] = "rejected" /\ ~IsTop(l) =>
       l \in unhandled \/ \E b \in Builds : Told(Pending(queue), l, b)
  /\ \A b \in Builds : \A l \in members[b] : load[l] = "rejected" =>
       build[b] # "awaiting" \/ Told(Pending(queue), l, b)
  /\ \A b \in Builds : build[b] = "settling" => Ending(Pending(queue), b)

LEMMA SurfaceInit == Init => SurfaceInv
BY DEF Init, SurfaceInv

\* Running the next job removes no other.
LEMMA PopRest ==
  ASSUME queue \in Seq(SUBSET Jobs), NEW j, IsNextJob(j)
  PROVE  Pending(queue) \subseteq Pending(Pop(j)) \cup {j}
<1>1. queue # <<>> /\ j \in queue[1]
  BY DEF IsNextJob
<1> SUFFICES ASSUME NEW m \in Pending(queue), m # j PROVE m \in Pending(Pop(j))
  OBVIOUS
<1>2. PICK i \in DOMAIN queue : m \in queue[i]
  BY DEF Pending
<1>3. CASE queue[1] = {j}
  <2>1. i # 1 /\ i - 1 \in DOMAIN Tail(queue) /\ Tail(queue)[i - 1] = queue[i]
    BY <1>1, <1>2, <1>3
  <2> QED BY <1>2, <1>3, <2>1 DEF Pop, Pending
<1>4. CASE queue[1] # {j}
  <2> DEFINE Q == [queue EXCEPT ![1] = @ \ {j}]
  <2>1. i \in DOMAIN Q /\ m \in Q[i]
    BY <1>1, <1>2
  <2> HIDE DEF Q
  <2>2. Pop(j) = Q
    BY <1>4 DEF Pop, Q
  <2> QED BY <2>1, <2>2 DEF Pending
<1> QED BY <1>3, <1>4

\* A job that ran leaves the other ones pending, and those it has enqueued.
LEMMA JobsLeft ==
  ASSUME TypeOK, NEW j, IsNextJob(j), NEW B \in SUBSET Jobs, queue' = Push(Pop(j), B)
  PROVE  (Pending(queue) \ {j}) \cup B \subseteq Pending(queue')
<1>1. queue \in Seq(SUBSET Jobs)
  BY DEF TypeOK
<1>2. Pending(Push(Pop(j), B)) = Pending(Pop(j)) \cup B
  BY <1>1, PopQueue, PushPending
<1> QED BY <1>1, <1>2, PopRest

\* A step in which no load and no build changes, and no report is lost.
LEMMA SurfaceIdleStep ==
  ASSUME SurfaceInv, Pending(queue) \subseteq Pending(queue'),
         UNCHANGED <<load, members, build, unhandled>>
  PROVE  SurfaceInv'
BY DEF SurfaceInv, Told, Ending

\* A step in which loads settle, and those that reject say so.
LEMMA SurfaceSettleStep ==
  ASSUME TypeOK, SurfaceInv, NEW j, Continues(j),
         Pending(queue) \ {j} \subseteq Pending(queue'),
         UNCHANGED <<members, build, unhandled>>,
         \A m \in Loads : load[m] # "idle" => load'[m] # "idle",
         \A m \in Loads : load'[m] = "rejected" =>
           \/ load[m] = "rejected"
           \/ IsTop(m) /\ \A b \in Builds : m \in members[b] => Told(Pending(queue'), m, b)
           \/ ~IsTop(m) /\ \E b \in Builds : Told(Pending(queue'), m, b)
  PROVE  SurfaceInv'
<1>1. \A m, b : Told(Pending(queue), m, b) => Told(Pending(queue'), m, b)
  BY DEF Told, Continues
<1>2. \A b : Ending(Pending(queue), b) => Ending(Pending(queue'), b)
  BY DEF Ending, Ends, Continues
<1>3. \A b \in Builds : members[b] \subseteq Loads
  BY DEF TypeOK
<1>4. (\A b \in Builds : \A l \in members[b] : IsTop(l) /\ load[l] # "idle")'
  BY <1>3 DEF SurfaceInv, IsTop
<1>5. \A l \in Loads : load'[l] = "rejected" /\ ~IsTop(l) =>
        l \in unhandled' \/ \E b \in Builds : Told(Pending(queue'), l, b)
  BY <1>1 DEF SurfaceInv
<1>6. \A b \in Builds : \A l \in members'[b] : load'[l] = "rejected" =>
        build'[b] # "awaiting" \/ Told(Pending(queue'), l, b)
  <2>1. \A b \in Builds : \A l \in members[b] : IsTop(l) /\ l \in Loads
    BY <1>3 DEF SurfaceInv
  <2> QED BY <1>1, <2>1 DEF SurfaceInv
<1>7. \A b \in Builds : build'[b] = "settling" => Ending(Pending(queue'), b)
  BY <1>2 DEF SurfaceInv
<1> QED BY <1>4, <1>5, <1>6, <1>7 DEF SurfaceInv, Told, Ending, IsTop, Ends

\* The promise of a load that rejects is heard by all who wait for it.
LEMMA ReactionsTell ==
  ASSUME NEW l \in Loads, NEW P, Reactions(l, "rejected") \subseteq P
  PROVE  /\ IsTop(l) => \A b \in Builds : l \in members[b] => Told(P, l, b)
         /\ ~IsTop(l) => \E b \in Builds : Told(P, l, b)
<1>1. CASE IsTop(l)
  <2>1. \A b \in Builds : l \in members[b] => Job("rejected", l, b, b) \in P
    BY <1>1 DEF Reactions
  <2> QED BY <1>1, <2>1 DEF Told, Job
<1>2. CASE ~IsTop(l)
  <2>1. Job("rejected", l, l[2], 1) \in P /\ l[2] \in Builds
    BY <1>2, LoadFacts DEF Reactions
  <2> QED BY <1>2, <2>1 DEF Told, Job
<1> QED BY <1>1, <1>2

\* build(): the loads that reject at once, or did before, are told of.
LEMMA SurfaceBuildStep ==
  ASSUME IInv, LoadsInv, SurfaceInv, NEW b \in Builds, Build(b)
  PROVE  SurfaceInv'
<1> DEFINE S == thunks \X {b}
           all == S \cup UNION {members[c] : c \in Builds}
           again == {Job(load'[l], l, b, l[2]) : l \in {m \in all : load'[m] \in Settled}}
<1>1. /\ S \in SUBSET Loads /\ all \in SUBSET Loads
      /\ \A l \in S : IsTop(l) /\ load[l] = "idle"
  <2>1. /\ S \in SUBSET Loads /\ all \in SUBSET Loads
        /\ \A l \in S : IsTop(l) /\ l[2] = b
    BY LoadFacts DEF IInv, TypeOK, Loads, Top, IsTop
  <2> QED BY <2>1 DEF IInv, StartInv, Build, NextBuild
<1>2. /\ \A l \in Loads : l \notin S => load'[l] = load[l]
      /\ \A l \in S : load'[l] \in {"loading", "rejected"}
  BY <1>1, StartedIs DEF Build
<1>3. /\ \A c \in Builds : c # b => build'[c] = build[c] /\ members'[c] = members[c]
      /\ build'[b] = "awaiting" /\ members'[b] = all /\ unhandled' = unhandled
  BY DEF Build, IInv, TypeOK
<1>4. again \subseteq Pending(queue') /\ Pending(queue) \subseteq Pending(queue')
  <2>1. again \subseteq Jobs
    <3>1. \A l \in all : l \in Loads /\ l[2] \in Nat
      BY <1>1, LoadFacts
    <3>2. \A j \in again : \E l \in all : load'[l] \in Settled /\ j = Job(load'[l], l, b, l[2])
      OBVIOUS
    <3> QED BY <3>1, <3>2, JobTypes DEF Job, JobKinds, Settled
  <2>2. ResumeJobs(S) \cup again \in SUBSET Jobs
    BY <1>1, <2>1, JobTypes
  <2>3. queue' = Push(queue, ResumeJobs(S) \cup again) /\ queue \in Seq(SUBSET Jobs)
    BY DEF Build, IInv, TypeOK
  <2> HIDE DEF again
  <2> QED BY <2>2, <2>3, PushPending
<1>5. \A m, c : Told(Pending(queue), m, c) => Told(Pending(queue'), m, c)
  BY <1>4 DEF Told
<1>6. \A c \in Builds : \A l \in members[c] : l \in Loads /\ l \notin S /\ load'[l] = load[l]
  BY <1>1, <1>2 DEF SurfaceInv, IInv, TypeOK
<1>7. ASSUME NEW l \in all, load'[l] = "rejected" PROVE Told(Pending(queue'), l, b)
  <2>1. Job("rejected", l, b, l[2]) \in again
    BY <1>7 DEF Settled
  <2> HIDE DEF again
  <2> QED BY <1>4, <2>1 DEF Told, Job
<1>8. \A l \in all : IsTop(l) /\ load'[l] # "idle"
  BY <1>1, <1>2, <1>6 DEF SurfaceInv
<1> HIDE DEF S, all, again
<1>9. (\A c \in Builds : \A l \in members[c] : IsTop(l) /\ load[l] # "idle")'
  <2>1. \A c \in Builds : \A l \in members'[c] : IsTop(l) /\ load'[l] # "idle"
    BY <1>3, <1>6, <1>8 DEF SurfaceInv
  <2> QED BY <2>1 DEF IsTop
<1>10. \A l \in Loads : load'[l] = "rejected" /\ ~IsTop(l) =>
         l \in unhandled' \/ \E c \in Builds : Told(Pending(queue'), l, c)
  BY <1>1, <1>2, <1>3, <1>5 DEF SurfaceInv
<1>11. \A c \in Builds : \A l \in members'[c] : load'[l] = "rejected" =>
         build'[c] # "awaiting" \/ Told(Pending(queue'), l, c)
  BY <1>3, <1>5, <1>6, <1>7 DEF SurfaceInv
<1>12. \A c \in Builds : build'[c] = "settling" => Ending(Pending(queue'), c)
  <2>1. \A c \in Builds : Ending(Pending(queue), c) => Ending(Pending(queue'), c)
    BY <1>4 DEF Ending
  <2> QED BY <1>3, <2>1 DEF SurfaceInv
<1> QED BY <1>9, <1>10, <1>11, <1>12 DEF SurfaceInv, Told, Ending, IsTop, Ends

\* The loader's promise rejected.
LEMMA SurfaceAbortStep ==
  ASSUME IInv, SurfaceInv, NEW j, IsNextJob(j), Abort(j)
  PROVE  SurfaceInv'
<1> DEFINE l == j.load
           B == Reactions(l, "rejected")
<1>1. j \in Jobs /\ l \in Loads /\ Continues(j)
  BY PopQueue DEF IInv, TypeOK, Jobs, Abort, Continues
<1>2. B \in SUBSET Jobs /\ queue' = Push(Pop(j), B)
  BY <1>1, JobTypes DEF Abort, Settled
<1>3. (Pending(queue) \ {j}) \cup B \subseteq Pending(queue')
  BY <1>2, JobsLeft DEF IInv
<1>4. /\ load'[l] = "rejected" /\ \A m \in Loads : m # l => load'[m] = load[m]
      /\ UNCHANGED <<members, build, unhandled>>
  BY <1>1 DEF Abort, IInv, TypeOK, buildVars
<1>5. /\ IsTop(l) => \A b \in Builds : l \in members[b] => Told(Pending(queue'), l, b)
      /\ ~IsTop(l) => \E b \in Builds : Told(Pending(queue'), l, b)
  BY <1>1, <1>3, ReactionsTell
<1> HIDE DEF l, B
<1>6. \A m \in Loads : load'[m] = "rejected" =>
        \/ load[m] = "rejected"
        \/ IsTop(m) /\ \A b \in Builds : m \in members[b] => Told(Pending(queue'), m, b)
        \/ ~IsTop(m) /\ \E b \in Builds : Told(Pending(queue'), m, b)
  BY <1>4, <1>5
<1>7. \A m \in Loads : load[m] # "idle" => load'[m] # "idle"
  BY <1>1, <1>4
<1> QED BY <1>1, <1>3, <1>4, <1>6, <1>7, SurfaceSettleStep DEF IInv

\* _finalize: the load itself may fail, and submodules that throw at once.
LEMMA SurfaceFinalizeStep ==
  ASSUME IInv, SurfaceInv, NEW j, IsNextJob(j),
         NEW D \in Startable(j.load), FinalizeWith(j, D)
  PROVE  SurfaceInv'
<1> DEFINE l == j.load
           S == D \X {l[2]}
           status == IF CanDeclare(l) THEN "fulfilled" ELSE "rejected"
           B == ResumeJobs(S) \cup ThrowJobs(S) \cup Reactions(l, status)
<1>1. j \in Jobs /\ l \in Loads /\ Continues(j) /\ status \in Settled
  BY PopQueue DEF IInv, TypeOK, Jobs, FinalizeWith, Continues, Settled
<1>2. /\ S \in SUBSET Loads
      /\ \A m \in S : ~IsTop(m) /\ m # l /\ m[2] \in Builds
  <2>1. D \subseteq SubsOf(l[1])
    BY <1>1 DEF IInv, StartInv, Startable
  <2> QED BY <1>1, <2>1, LoadFacts DEF SubsOf, IsTop, Top, Loads
<1>3. B \in SUBSET Jobs /\ queue' = Push(Pop(j), B)
  BY <1>1, <1>2, JobTypes DEF FinalizeWith
<1>4. (Pending(queue) \ {j}) \cup B \subseteq Pending(queue')
  <2>1. TypeOK
    BY DEF IInv
  <2> HIDE DEF B
  <2> QED BY <1>3, <2>1, JobsLeft
<1>5. /\ load'[l] = status
      /\ \A m \in Loads : m # l /\ m \notin S => load'[m] = load[m]
      /\ \A m \in S : load'[m] \in {"loading", "rejected"}
      /\ \A m \in S : load'[m] = "rejected" => ~Suspends(m) /\ Throws(m)
  <2>1. load' = [Started(S) EXCEPT ![l] = status]
    BY DEF FinalizeWith
  <2>2. Started(S) \in [Loads -> {"idle", "loading"} \cup Settled]
    BY <1>2, StartTypes DEF IInv
  <2> HIDE DEF S, status
  <2>3. load'[l] = status /\ \A m \in Loads : m # l => load'[m] = Started(S)[m]
    BY <1>1, <2>1, <2>2
  <2> QED BY <1>2, <2>3, StartedIs
<1>6. UNCHANGED <<members, build, unhandled>>
  BY DEF FinalizeWith, buildVars
<1>7. ASSUME NEW m \in S, load'[m] = "rejected" PROVE Told(Pending(queue'), m, m[2])
  <2>1. Job("rejected", m, m[2], 0) \in ThrowJobs(S)
    BY <1>5, <1>7 DEF ThrowJobs
  <2> HIDE DEF S, status
  <2> QED BY <1>4, <2>1 DEF Told, Job
<1>8. ASSUME status = "rejected"
      PROVE  /\ IsTop(l) => \A b \in Builds : l \in members[b] => Told(Pending(queue'), l, b)
             /\ ~IsTop(l) => \E b \in Builds : Told(Pending(queue'), l, b)
  <2>1. Reactions(l, "rejected") \subseteq Pending(queue')
    BY <1>4, <1>8
  <2> QED BY <1>1, <2>1, ReactionsTell
<1> HIDE DEF l, S, status, B
<1>9. \A m \in Loads : load'[m] = "rejected" =>
        \/ load[m] = "rejected"
        \/ IsTop(m) /\ \A b \in Builds : m \in members[b] => Told(Pending(queue'), m, b)
        \/ ~IsTop(m) /\ \E b \in Builds : Told(Pending(queue'), m, b)
  BY <1>2, <1>5, <1>7, <1>8
<1>10. \A m \in Loads : load[m] # "idle" => load'[m] # "idle"
  BY <1>1, <1>5 DEF Settled
<1> QED BY <1>1, <1>4, <1>6, <1>9, <1>10, SurfaceSettleStep DEF IInv

\* A report is heard, or build() goes on: nothing else is forgotten.
LEMMA SurfaceReactionStep ==
  ASSUME IInv, SurfaceInv, NEW j, IsNextJob(j),
         SubLoaded(j) \/ ElementFulfilled(j) \/ ElementRejected(j) \/ BuildReturns(j)
  PROVE  SurfaceInv'
<1>1. j \in Jobs /\ j.load \in Loads /\ j.build \in Builds /\ JobInv(j)
  BY PopQueue DEF IInv, TypeOK, QueueInv, Jobs
<1>2. UNCHANGED <<members, load>>
  BY DEF SubLoaded, ElementFulfilled, ElementRejected, BuildReturns, buildVars, loadVars
<1>3. PICK B \in {{}, {Job("built", j.load, j.build, 0)}, {Job("failed", j.load, j.build, 0)}} :
        /\ queue' = Push(Pop(j), B)
        /\ (ElementFulfilled(j) \/ ElementRejected(j)) /\ build' # build => B # {}
  <2>1. Pop(j) = Push(Pop(j), {})
    BY DEF Push
  <2> QED BY <2>1 DEF SubLoaded, ElementFulfilled, ElementRejected, BuildReturns
<1>4. (Pending(queue) \ {j}) \cup B \subseteq Pending(queue')
  <2>1. B \in SUBSET Jobs
    BY <1>1, <1>3, JobTypes DEF JobKinds
  <2> QED BY <1>3, <2>1, JobsLeft DEF IInv
<1>5. /\ \A m, b : Told(Pending(queue), m, b) /\ ~(m = j.load /\ b = j.build) =>
           Told(Pending(queue'), m, b)
      /\ j.kind # "rejected" => \A m, b : Told(Pending(queue), m, b) => Told(Pending(queue'), m, b)
      /\ \A b : Ending(Pending(queue), b) /\ ~(Ends(j) /\ b = j.build) => Ending(Pending(queue'), b)
      /\ B # {} => Ending(Pending(queue'), j.build)
  <2>1. B # {} => \E m \in B : Ends(m) /\ m.build = j.build
    BY <1>3 DEF Ends, Job
  <2> QED BY <1>4, <2>1 DEF Told, Ending
<1>6. \A b \in Builds : b # j.build => build'[b] = build[b]
  BY <1>1 DEF SubLoaded, ElementFulfilled, ElementRejected, BuildReturns, buildVars, IInv, TypeOK
<1>7. ASSUME NEW l \in Loads, load[l] = "rejected", ~IsTop(l)
      PROVE  l \in unhandled' \/ \E b \in Builds : Told(Pending(queue'), l, b)
  <2>1. CASE SubLoaded(j) /\ l = j.load /\ j.kind = "rejected"
    BY <2>1 DEF SubLoaded
  <2>2. CASE ~(SubLoaded(j) /\ l = j.load /\ j.kind = "rejected")
    <3>1. unhandled \subseteq unhandled'
      BY DEF SubLoaded, ElementFulfilled, ElementRejected, BuildReturns, loadVars
    <3>2. l # j.load \/ j.kind # "rejected"
      BY <1>7, <2>2 DEF ElementFulfilled, ElementRejected, BuildReturns
    <3> QED BY <1>5, <1>7, <3>1, <3>2 DEF SurfaceInv
  <2> QED BY <2>1, <2>2
<1>8. ASSUME NEW b \in Builds, NEW l \in members[b], load[l] = "rejected"
      PROVE  build'[b] # "awaiting" \/ Told(Pending(queue'), l, b)
  <2>1. IsTop(l)
    BY DEF SurfaceInv
  <2>2. build[b] # "awaiting" => build'[b] # "awaiting"
    BY DEF SubLoaded, ElementFulfilled, ElementRejected, BuildReturns, buildVars, IInv, TypeOK
  <2>3. CASE ElementRejected(j) /\ l = j.load /\ b = j.build
    BY <2>3 DEF ElementRejected, Undecided, IInv, TypeOK
  <2>4. CASE ~(ElementRejected(j) /\ l = j.load /\ b = j.build)
    <3>1. j.kind # "rejected" \/ l # j.load \/ b # j.build
      BY <2>1, <2>4 DEF SubLoaded, ElementFulfilled, BuildReturns
    <3> QED BY <1>5, <1>8, <2>2, <3>1 DEF SurfaceInv
  <2> QED BY <2>3, <2>4
<1>9. ASSUME NEW b \in Builds, build'[b] = "settling" PROVE Ending(Pending(queue'), b)
  <2>1. CASE build'[b] = build[b]
    <3>1. ~(Ends(j) /\ b = j.build)
      <4>1. SUFFICES ASSUME Ends(j), b = j.build PROVE FALSE
        OBVIOUS
      <4>2. BuildReturns(j)
        BY <4>1 DEF Ends, SubLoaded, ElementFulfilled, ElementRejected
      <4> QED BY <1>1, <1>9, <4>1, <4>2 DEF BuildReturns, IInv, TypeOK
    <3> QED BY <1>5, <1>9, <2>1, <3>1 DEF SurfaceInv
  <2>2. CASE build'[b] # build[b]
    <3>1. b = j.build /\ (ElementFulfilled(j) \/ ElementRejected(j))
      BY <1>1, <1>6, <1>9, <2>2 DEF SubLoaded, BuildReturns, buildVars, IInv, TypeOK
    <3> QED BY <1>3, <1>5, <2>2, <3>1
  <2> QED BY <2>1, <2>2
<1>10. (\A b \in Builds : \A l \in members[b] : IsTop(l) /\ load[l] # "idle")'
  BY <1>2 DEF SurfaceInv, IsTop
<1> QED BY <1>2, <1>7, <1>8, <1>9, <1>10 DEF SurfaceInv, Told, Ending, IsTop, Ends

\* Every step of the builder and of the event loop keeps the reports.
LEMMA SurfaceNext == IInv /\ LoadsInv /\ SurfaceInv /\ [Next]_vars => SurfaceInv'
<1> SUFFICES ASSUME IInv, LoadsInv, SurfaceInv, [Next]_vars PROVE SurfaceInv'
  OBVIOUS
<1>1. CASE UNCHANGED vars \/ ToFolder \/ (\E d \in Decls : WithModule(d)) \/ \E t \in Targets : WithTargets(t)
  BY <1>1, SurfaceIdleStep DEF vars, ToFolder, WithModule, WithTargets, buildVars, loadVars
<1>2. ASSUME NEW b \in Builds, BuildWithoutFolder(b) PROVE SurfaceInv'
  <2>1. /\ UNCHANGED <<load, members, unhandled, queue>>
        /\ \A c \in Builds : build'[c] = build[c] \/ build'[c] = "rejected"
    BY <1>2 DEF BuildWithoutFolder, loadVars, IInv, TypeOK
  <2> QED BY <2>1 DEF SurfaceInv, Told, Ending, IsTop, Ends
<1>3. ASSUME NEW b \in Builds, Build(b) PROVE SurfaceInv'
  BY <1>3, SurfaceBuildStep
<1>4. ASSUME NEW l \in io, LoaderIO(l) PROVE SurfaceInv'
  <2>1. /\ queue' = Push(queue, AfterIO(l)) /\ queue \in Seq(SUBSET Jobs)
        /\ UNCHANGED <<load, members, build, unhandled>>
    BY <1>4 DEF LoaderIO, IInv, TypeOK, buildVars
  <2>2. l \in Loads /\ l[2] \in Builds /\ 0 \in Nat
    BY LoadFacts DEF IInv, TypeOK
  <2>3. AfterIO(l) \in SUBSET Jobs
    BY <2>2, JobTypes DEF AfterIO, JobKinds
  <2> QED BY <2>1, <2>3, PushPending, SurfaceIdleStep
<1>5. ASSUME NEW j \in queue[1], RunJob(j) PROVE SurfaceInv'
  BY <1>5, SurfaceAbortStep, SurfaceFinalizeStep, SurfaceReactionStep DEF RunJob, Finalize
<1> QED BY <1>1, <1>2, <1>3, <1>4, <1>5 DEF Next, UserCall, Microtask

\* When the microtasks have run out no rejection is left that nobody has heard
\* of: every build() that was handed the load has rejected, and a submodule's
\* rejection is unhandled.
THEOREM FailuresAreReported == Spec => []FailuresSurface
<1>1. ASSUME IInv, LoadsInv, SurfaceInv PROVE FailuresSurface
  <2>1. SUFFICES ASSUME queue = <<>>, NEW l \in Loads, load[l] = "rejected"
                 PROVE  /\ \A b \in Builds : l \in members[b] => build[b] = "rejected"
                        /\ ~IsTop(l) => l \in unhandled
    BY DEF FailuresSurface
  <2>2. Pending(queue) = {}
    BY <2>1 DEF Pending
  <2>3. ~IsTop(l) => l \in unhandled
    BY <1>1, <2>1, <2>2 DEF SurfaceInv, Told
  <2>4. ASSUME NEW b \in Builds, l \in members[b] PROVE build[b] = "rejected"
    <3>1. build[b] # "awaiting" /\ build[b] # "settling"
      BY <1>1, <2>1, <2>2, <2>4 DEF SurfaceInv, Told, Ending
    <3>2. build[b] # "idle"
      BY <1>1, <2>4 DEF LoadsInv
    <3>3. build[b] # "resolved"
      BY <1>1, <2>1, <2>4 DEF IInv, BuildInv, RegistryInv
    <3> QED BY <1>1, <3>1, <3>2, <3>3 DEF IInv, TypeOK, Over
  <2> QED BY <2>3, <2>4
<1>2. Init => IInv /\ LoadsInv /\ TargetsInv /\ SurfaceInv
  BY IInvInit, LoadsInit, SurfaceInit
<1>3. IInv /\ LoadsInv /\ TargetsInv /\ SurfaceInv /\ [Next]_vars
        => (IInv /\ LoadsInv /\ TargetsInv /\ SurfaceInv)'
  BY IInvStep, LoadsNext, SurfaceNext
<1> QED BY <1>1, <1>2, <1>3, PTL DEF Spec

-----------------------------------------------------------------------------
(* The whole program: what a file that is compiled finds in the registry,  *)
(* for every set of modules, of files and of targets.                      *)

\* The registry's module names, which FileContext.make takes over.
Registered == {Name(l) : l \in registry}

\* What is known of the builder at every job boundary.
BuilderInv == IInv /\ OrderInv /\ LoadsInv /\ TargetsInv

\* A load of std::main or std::core leaves the file with outputters for t.
Ready(S, t) ==
  /\ Cardinality({m \in S : t \in Strings[m]}) = 1
  /\ Cardinality({m \in S : t \in Roots[m]}) = 1
  /\ Needs[t] \subseteq S

-----------------------------------------------------------------------------
(* The builder within the whole program *)

\* The builder's bookkeeping survives every step, of a render too.
LEMMA BuilderInit == LapolInit => BuilderInv
BY IInvInit, OrderInit, LoadsInit DEF LapolInit, BuilderInv

LEMMA BuilderStep == BuilderInv /\ [LapolNext]_lapolVars => BuilderInv'
<1> SUFFICES ASSUME BuilderInv, [LapolNext]_lapolVars PROVE BuilderInv'
  OBVIOUS
<1>1. [Next]_vars
  BY DEF LapolNext, lapolVars, Load, Render, RenderIO
<1>2. IInv'
  BY <1>1, IInvStep DEF BuilderInv
<1>3. OrderInv'
  BY <1>1, <1>2, OrderNext DEF BuilderInv
<1>4. LoadsInv' /\ TargetsInv'
  BY <1>1, LoadsNext DEF BuilderInv
<1> QED BY <1>2, <1>3, <1>4 DEF BuilderInv

\* A compiler that was handed out is not taken back.
LEMMA ResolvedStays ==
  ASSUME IInv, [Next]_vars, SomeResolved
  PROVE  SomeResolved'
BY EveryStep DEF Keeps, SomeResolved, Over

-----------------------------------------------------------------------------
(* The steps of a render *)

\* An I/O step of a render begins no reading, and gives a file a context only
\* by compiling the file it has read.
LEMMA RenderStep ==
  ASSUME DOMAIN stage = Renders, DOMAIN storage = Renders,
         NEW r \in Renders, R!IO(r)
  PROVE  /\ DOMAIN stage' = Renders /\ DOMAIN storage' = Renders
         /\ \A s \in Renders : stage'[s] = "reading" => stage[s] = "reading"
         /\ \A s \in Renders :
              \/ storage'[s] = storage[s]
              \/ s = r /\ stage[r] = "reading" /\ storage'[s] = Registered
<1>1. CASE R!ReadFails(r)
  BY <1>1 DEF R!ReadFails
<1>2. CASE R!Compile(r)
  BY <1>2 DEF R!Compile, R!ModuleStorage, Registered
<1>3. ASSUME NEW o \in R!Ops, R!FileOp(r, o)
      PROVE  /\ storage' = storage
             /\ \/ stage' = stage
                \/ \E x \in {"resolved", "copying", "rejected", stage[r]} :
                     stage' = [stage EXCEPT ![r] = x]
  <2>1. CASE R!Mkdirp(r, o) \/ R!OpenFile(r, o)
    BY <2>1 DEF R!Mkdirp, R!OpenFile
  <2>2. CASE R!Finish(r, o)
    BY <2>2 DEF R!Finish, R!Advance
  <2>3. CASE R!CopyBusy(r, o)
    BY <2>3 DEF R!CopyBusy, R!Advance
  <2>4. CASE R!FileFails(r, o)
    BY <2>4 DEF R!FileFails, R!AfterFailure
  <2> QED BY <1>3, <2>1, <2>2, <2>3, <2>4 DEF R!FileOp
<1>4. CASE \E o \in R!Ops : R!FileOp(r, o)
  BY <1>3, <1>4
<1> QED BY <1>1, <1>2, <1>4 DEF R!IO

\* A file is read and compiled only for a compiler that was handed out.
LEMMA CalledInit == LapolInit => CalledInv
BY DEF LapolInit, R!Init, CalledInv, Compiled

LEMMA CalledStep == BuilderInv /\ CalledInv /\ [LapolNext]_lapolVars => CalledInv'
<1> SUFFICES ASSUME BuilderInv, CalledInv, [LapolNext]_lapolVars PROVE CalledInv'
  OBVIOUS
<1>1. SomeResolved => SomeResolved'
  BY ResolvedStays DEF BuilderInv, LapolNext, lapolVars, Load, Render, RenderIO
<1>2. CASE UNCHANGED renderVars
  BY <1>1, <1>2 DEF CalledInv, Compiled, renderVars
<1>3. ASSUME NEW r \in Renders, Render(r) PROVE CalledInv'
  BY <1>1, <1>3 DEF Render, R!Render, CalledInv, Compiled, SomeResolved
<1>4. ASSUME NEW r \in Renders, RenderIO(r) PROVE CalledInv'
  <2>1. DOMAIN stage = Renders /\ DOMAIN storage = Renders /\ R!IO(r)
    BY <1>4 DEF CalledInv, RenderIO
  <2> QED BY <1>1, <2>1, RenderStep DEF CalledInv, Compiled
<1> QED BY <1>2, <1>3, <1>4 DEF LapolNext, lapolVars, Load

-----------------------------------------------------------------------------
(* The file context is complete *)

\* When a file is compiled and no submodule awaits, no loader is suspended:
\* build() has awaited all those that may be.
LEMMA NothingSuspended ==
  ASSUME SubmodulesDoNotWait, BuilderInv, OneBuildLoads, SomeResolved
  PROVE  io = {}
<1> SUFFICES ASSUME NEW l \in io PROVE FALSE
  OBVIOUS
<1>1. l \in Loads /\ load[l] = "loading" /\ Suspends(l)
  BY DEF BuilderInv, IInv, TypeOK, LoadsInv
<1>2. IsTop(l)
  BY <1>1, LoadFacts DEF SubmodulesDoNotWait, Suspends, IsTop, Top
<1>3. l[2] \in Builds /\ l \in members[l[2]]
  BY <1>1, <1>2, LoadFacts DEF BuilderInv, LoadsInv
<1>4. PICK b \in Builds : build[b] = "resolved"
  BY DEF SomeResolved
<1>5. <<Core, b>> \in members[b] /\ members[b] \subseteq registry
  BY <1>4 DEF BuilderInv, IInv, BuildInv
<1>6. l \in registry
  BY <1>3, <1>5 DEF OneBuildLoads
<1> QED BY <1>1, <1>6 DEF BuilderInv, IInv, RegistryInv

\* The invariant holds at first, and every step keeps it.
LEMMA CompleteInit == LapolInit => CompiledInv
BY DEF LapolInit, R!Init, CompiledInv, Compiled

LEMMA CompleteStep ==
  ASSUME SubmodulesDoNotWait, BuilderInv, CalledInv, OneBuildLoads => CompiledInv,
         [LapolNext]_lapolVars, OneBuildLoads'
  PROVE  CompiledInv'
<1>1. OneBuildLoads
  <2>1. \A b \in Builds : members[b] # {} => members'[b] # {}
    <3>1. [Next]_vars
      BY DEF LapolNext, lapolVars, Load, Render, RenderIO
    <3>2. ASSUME NEW b \in Builds, Build(b), NEW c \in Builds, members[c] # {}
          PROVE  members'[c] # {}
      <4>1. c # b
        BY <3>2 DEF BuilderInv, LoadsInv, Build, NextBuild
      <4> QED BY <3>2, <4>1 DEF Build
    <3>3. (\E b \in Builds : Build(b)) \/ members' = members
      BY <3>1 DEF Next, vars, UserCall, WithModule, WithTargets, ToFolder, BuildWithoutFolder,
                  LoaderIO, Microtask, RunJob, Abort, Finalize, FinalizeWith, SubLoaded, ElementFulfilled,
                  ElementRejected, BuildReturns, buildVars
    <3> QED BY <3>2, <3>3
  <2> QED BY <2>1 DEF OneBuildLoads
<1>2. CompiledInv
  BY <1>1
<1>3. CASE UNCHANGED vars /\ UNCHANGED renderVars
  BY <1>2, <1>3 DEF CompiledInv, Compiled, Name, renderVars, vars, loadVars
<1>4. ASSUME NEW r \in Renders, Render(r) PROVE CompiledInv'
  BY <1>2, <1>4 DEF Render, R!Render, CompiledInv, Compiled, Name, vars, loadVars
<1>5. ASSUME NEW r \in Renders, RenderIO(r) PROVE CompiledInv'
  <2>1. /\ DOMAIN stage = Renders /\ DOMAIN storage = Renders /\ R!IO(r)
        /\ queue = <<>> /\ UNCHANGED <<queue, io, registry>>
    BY <1>5 DEF CalledInv, RenderIO, vars, loadVars
  <2>2. stage[r] = "reading" => io = {}
    BY <1>1, NothingSuspended DEF CalledInv
  <2>3. ASSUME NEW s \in Renders, storage'[s] # {}
        PROVE  queue' = <<>> /\ io' = {} /\ storage'[s] = Registered
    <3>1. CASE storage'[s] = storage[s]
      BY <1>2, <2>1, <2>3, <3>1 DEF CompiledInv, Compiled, Registered
    <3>2. CASE s = r /\ stage[r] = "reading" /\ storage'[s] = Registered
      BY <2>1, <2>2, <3>2
    <3> QED BY <2>1, <3>1, <3>2, RenderStep
  <2>4. {Name(l) : l \in registry'} = Registered
    BY <2>1 DEF Registered
  <2> QED BY <2>3, <2>4 DEF CompiledInv, Compiled, Name
<1>6. CASE Load
  <2>1. SUFFICES ASSUME NEW r \in Renders, Compiled(r)
                 PROVE  queue' = <<>> /\ io' = {} /\ registry' = registry
    BY <1>2, <1>6 DEF Load, renderVars, CompiledInv, Compiled, Name
  <2>2. queue = <<>> /\ io = {} /\ SomeResolved
    BY <1>2, <2>1 DEF CompiledInv, CalledInv
  <2>3. ASSUME NEW b \in Builds, Build(b) PROVE FALSE
    <3>1. PICK c \in Builds : build[c] = "resolved"
      BY <2>2 DEF SomeResolved
    <3>2. c # b /\ members'[c] = members[c]
      BY <2>3, <3>1 DEF Build, NextBuild
    <3>3. <<Core, c>> \in members'[c]
      BY <3>1, <3>2 DEF BuilderInv, IInv, BuildInv
    <3>4. <<Core, b>> \in members'[b]
      BY <2>3 DEF Build, BuilderInv, IInv, TypeOK
    <3> QED BY <3>2, <3>3, <3>4 DEF OneBuildLoads
  <2> QED BY <1>6, <2>2, <2>3 DEF Load, Next, UserCall, WithModule, WithTargets, ToFolder,
                BuildWithoutFolder, Microtask, loadVars
<1> QED BY <1>3, <1>4, <1>5, <1>6 DEF LapolNext, lapolVars

\* If only loaders of top-level modules await I/O, then no module that a load of
\* the builder ever registers is missing from the context of a compiled file, as
\* long as only one build() loads modules, however many are refused.
THEOREM FilesSeeEveryModule ==
  ASSUME SubmodulesDoNotWait
  PROVE  LapolSpec => [](OneBuildLoads => FileContextComplete)
<1> DEFINE Inv == BuilderInv /\ CalledInv /\ (OneBuildLoads => CompiledInv)
<1>1. LapolInit => Inv
  BY BuilderInit, CalledInit, CompleteInit
<1>2. Inv /\ [LapolNext]_lapolVars => Inv'
  BY BuilderStep, CalledStep, CompleteStep
<1>3. Inv => (OneBuildLoads => FileContextComplete)
  BY DEF CompiledInv, FileContextComplete
<1> QED BY <1>1, <1>2, <1>3, PTL DEF LapolSpec

\* So when build() is called once the context of every compiled file is complete.
THEOREM FilesOfOneBuildSeeEveryModule ==
  ASSUME SubmodulesDoNotWait, MaxBuilds = 1
  PROVE  LapolSpec => []FileContextComplete
<1>1. OneBuildLoads
  BY DEF OneBuildLoads, Builds
<1> QED BY <1>1, FilesSeeEveryModule, PTL

-----------------------------------------------------------------------------
(* The outputters of the requested targets are in place *)

\* Once the microtasks have run, a load that fulfilled has every submodule for
\* a requested target registered that neither awaits nor throws.
LEMMA OutputRegistered ==
  ASSUME BuilderInv, ~LateTargets, queue = <<>>, NEW t \in targets, NEW l \in registry,
         NEW d \in Decls \ (Faulty \cup Suspending), ParentOf[d] = l[1], TargetOf[d] = {t}
  PROVE  NameOf[d] \in Registered
<1> DEFINE m == <<d, l[2]>>
<1>1. l \in Loads /\ load[l] = "fulfilled" /\ l \notin io
  BY DEF BuilderInv, IInv, TypeOK, RegistryInv
<1>2. m \in Loads /\ m[1] = d /\ m[2] = l[2]
  BY <1>1, LoadFacts
<1>3. declared[l] = Declares(l)
  BY <1>1 DEF BuilderInv, TargetsInv
<1>4. d \in declared[l]
  BY <1>3 DEF Declares, SubsOf
<1>5. m \in SyncSubs(l)
  BY <1>4, <1>2 DEF SyncSubs, StartedBy, Suspends
<1>6. Pending(queue) = {}
  BY DEF Pending
<1>7. IsSettled(m)
  BY <1>1, <1>5, <1>6 DEF BuilderInv, OrderInv, SubsOnTheirWay, Settles
<1>8. load[m] = "fulfilled" => m \in registry
  BY <1>2 DEF BuilderInv, IInv, RegistryInv
<1>9. load[m] = "rejected" => Taken(Name(m))
  BY <1>2 DEF BuilderInv, LoadsInv
<1> HIDE DEF m
<1> QED BY <1>2, <1>7, <1>8, <1>9 DEF IsSettled, Settled, Taken, Name, Registered

\* The one module that provides the exports for a target is found exactly once.
LEMMA OneProvider ==
  ASSUME registry \subseteq Loads, NEW Provided, NEW t, NEW d \in Decls, NameOf[d] \in Registered,
         \A e \in Decls : t \in Provided[NameOf[e]] <=> e = d
  PROVE  Cardinality({m \in Registered : t \in Provided[m]}) = 1
<1>1. ASSUME NEW m \in Registered, t \in Provided[m]
      PROVE  m = NameOf[d]
  <2>1. PICK l \in registry : m = NameOf[l[1]]
    BY DEF Registered, Name
  <2>2. l[1] \in Decls
    BY LoadFacts
  <2> QED BY <1>1, <2>1, <2>2
<1>2. {m \in Registered : t \in Provided[m]} = {NameOf[d]}
  BY <1>1
<1> QED BY <1>2, FS_Singleton

\* The same of the outputs of a module that is registered.
LEMMA OutputsFound ==
  ASSUME BuilderInv, ~LateTargets, queue = <<>>, NEW t \in targets,
         NEW Provided, NEW l \in registry, OutputsIn(Provided, l[1])
  PROVE  Cardinality({m \in Registered : t \in Provided[m]}) = 1
<1>1. t \in Targets /\ registry \subseteq Loads
  BY DEF BuilderInv, IInv, TypeOK
<1>2. PICK d \in Decls \ (Faulty \cup Suspending) :
        /\ ParentOf[d] = l[1] /\ TargetOf[d] = {t}
        /\ \A e \in Decls : t \in Provided[NameOf[e]] <=> e = d
  BY <1>1 DEF OutputsIn
<1>3. NameOf[d] \in Registered
  BY <1>2, OutputRegistered
<1> QED BY <1>1, <1>2, <1>3, OneProvider

\* A file compiled for a requested target, with std::main loaded, is ready.
LEMMA ReadyWhenCompiled ==
  ASSUME StandardLibrary, BuilderInv, ~LateTargets, queue = <<>>, SomeResolved,
         NEW t \in targets, NameOf[Main] \in Registered
  PROVE  Ready(Registered, t)
<1>1. t \in Targets /\ registry \subseteq Loads
  BY DEF BuilderInv, IInv, TypeOK
<1>2. PICK k \in registry : k[1] = Core
  <2>1. PICK b \in Builds : build[b] = "resolved"
    BY DEF SomeResolved
  <2>2. <<Core, b>> \in registry
    BY <2>1 DEF BuilderInv, IInv, BuildInv
  <2> QED BY <2>2
<1>3. PICK l \in registry : l[1] = Main
  <2>1. PICK l \in registry : NameOf[l[1]] = NameOf[Main]
    BY DEF Registered, Name
  <2>2. l[1] \in Decls
    BY <1>1, LoadFacts
  <2> QED BY <2>1, <2>2 DEF StandardLibrary
<1>4. Cardinality({m \in Registered : t \in Strings[m]}) = 1
  BY <1>3, OutputsFound DEF StandardLibrary
<1>5. Cardinality({m \in Registered : t \in Roots[m]}) = 1
  BY <1>2, OutputsFound DEF StandardLibrary
<1>6. Needs[t] \subseteq Registered
  BY <1>1, <1>2 DEF StandardLibrary, Registered, Name
<1> QED BY <1>4, <1>5, <1>6 DEF Ready

\* RequestedTargetsReady, in the words of these lemmas.
LEMMA ReadyIs ==
  RequestedTargetsReady <=>
    \A r \in Renders : Compiled(r) /\ RenderTarget[r] \in targets /\ NameOf[Main] \in storage[r] =>
      Ready(storage[r], RenderTarget[r])
BY DEF RequestedTargetsReady, For, Ready

LEMMA ReadyInit == LapolInit => RequestedTargetsReady
BY ReadyIs DEF LapolInit, R!Init, Compiled

\* No target is added once a compiler has been handed out.
LEMMA TargetsStay ==
  ASSUME BuilderInv, ~LateTargets, SomeResolved, [Next]_vars
  PROVE  targets' = targets
<1>1. \A t \in Targets : ~WithTargets(t)
  BY DEF WithTargets, SomeResolved
<1> QED BY <1>1 DEF Next, vars, builderVars, UserCall, WithModule, ToFolder, Build, BuildWithoutFolder,
              LoaderIO, Microtask, RunJob, Abort, Finalize, FinalizeWith, SubLoaded, ElementFulfilled,
              ElementRejected, BuildReturns

LEMMA ReadyStep ==
  ASSUME StandardLibrary, ~LateTargets, BuilderInv, CalledInv, RequestedTargetsReady,
         [LapolNext]_lapolVars
  PROVE  RequestedTargetsReady'
<1>1. SUFFICES ASSUME NEW r \in Renders, storage'[r] # {},
                      RenderTarget[r] \in targets', NameOf[Main] \in storage'[r]
               PROVE  Ready(storage'[r], RenderTarget[r])
  BY DEF RequestedTargetsReady, Compiled, For, Ready
<1>2. [Next]_vars
  BY DEF LapolNext, lapolVars, Load, Render, RenderIO
<1>3. CASE storage'[r] = storage[r]
  <2>1. Compiled(r) /\ SomeResolved
    BY <1>1, <1>3 DEF Compiled, CalledInv
  <2>2. targets' = targets
    BY <1>2, <2>1, TargetsStay
  <2> QED BY <1>1, <1>3, <2>1, <2>2, ReadyIs
<1>4. CASE storage'[r] # storage[r]
  <2>1. PICK s \in Renders : RenderIO(s)
    BY <1>4 DEF LapolNext, lapolVars, Load, Render, R!Render, renderVars
  <2>2. R!IO(s) /\ queue = <<>> /\ targets' = targets
    BY <2>1 DEF RenderIO, vars, builderVars
  <2>3. stage[r] = "reading" /\ storage'[r] = Registered
    BY <1>4, <2>2, RenderStep DEF CalledInv
  <2>4. SomeResolved
    BY <2>3 DEF CalledInv
  <2> QED BY <1>1, <2>2, <2>3, <2>4, ReadyWhenCompiled
<1> QED BY <1>3, <1>4

\* When the targets are given before build(), every file compiled for one of
\* them with std::main loaded finds the outputters and the storages it needs,
\* each once, although nobody awaits the submodules that hold them; plugins may
\* fail or await, names may clash, and build() may be called again.
THEOREM OutputtersAreInPlace ==
  ASSUME StandardLibrary, ~LateTargets
  PROVE  LapolSpec => []RequestedTargetsReady
<1> DEFINE Inv == BuilderInv /\ CalledInv /\ RequestedTargetsReady
<1>1. LapolInit => Inv
  BY BuilderInit, CalledInit, ReadyInit
<1>2. Inv /\ [LapolNext]_lapolVars => Inv'
  BY BuilderStep, CalledStep, ReadyStep
<1> QED BY <1>1, <1>2, PTL DEF LapolSpec

-----------------------------------------------------------------------------
(* What is proved of the parts holds of the whole: while files are rendered, *)
(* modules register, and nothing else of the builder meets them              *)

RP == INSTANCE RenderingProofs WITH
        TargetOf <- RenderTarget,
        modules  <- {Name(l) : l \in registry}

\* A step of the builder registers a module or does not touch the registry.
LEMMA LoadRegisters ==
  ASSUME BuilderInv, [Next]_vars, UNCHANGED renderVars
  PROVE  [R!Next]_(R!vars)
<1>1. registry' = registry \/ \E l \in Loads : registry' = registry \cup {l} /\ Contract!NameFree(l)
  <2>1. ContractStep
    BY EveryStep DEF BuilderInv
  <2> QED BY <2>1 DEF ContractStep, Contract!Next, Contract!vars, Contract!Fail, Contract!Register,
                      Contract!Start, Contract!Refuse, Contract!Resolve, Contract!Reject
<1>2. CASE registry' = registry
  <2>1. UNCHANGED R!vars
    BY <1>2 DEF renderVars, R!vars, R!ioVars, Name
  <2> QED BY <2>1
<1>3. ASSUME NEW l \in Loads, registry' = registry \cup {l}, Contract!NameFree(l)
      PROVE  \E m \in DOMAIN Strings : R!Register(m)
  <2>1. Name(l) \in DOMAIN Strings
    BY RenderingAssumption DEF Loads, Name, Names
  <2>2. registry \subseteq Loads
    BY DEF BuilderInv, IInv, TypeOK
  <2>3. Name(l) \notin {Name(k) : k \in registry}
    BY <1>3, <2>2 DEF Contract!NameFree
  <2>4. {Name(k) : k \in registry'} = {Name(k) : k \in registry} \cup {Name(l)}
    BY <1>3
  <2>5. R!Register(Name(l))
    BY <2>3, <2>4 DEF R!Register, R!ioVars, renderVars, Name
  <2> QED BY <2>1, <2>5
<1> QED BY <1>1, <1>2, <1>3 DEF R!Next

LEMMA RendersInStep == BuilderInv /\ [LapolNext]_lapolVars => [R!Next]_(R!vars)
<1> SUFFICES ASSUME BuilderInv, [LapolNext]_lapolVars PROVE [R!Next]_(R!vars)
  OBVIOUS
<1>1. CASE [Next]_vars /\ UNCHANGED renderVars
  BY <1>1, LoadRegisters
<1>2. CASE \E r \in Renders : R!Render(r) \/ R!IO(r)
  BY <1>2 DEF R!Next
<1> QED BY <1>1, <1>2 DEF LapolNext, lapolVars, Load, Render, RenderIO

\* The whole program behaves as its builder, and as its renders, would alone.
THEOREM PartsBehave == LapolSpec => Spec /\ R!Spec
<1>1. LapolInit => Init /\ R!Init
  BY DEF LapolInit
<1>2. [LapolNext]_lapolVars => [Next]_vars
  BY DEF LapolNext, lapolVars, Load, Render, RenderIO
<1> QED BY <1>1, <1>2, BuilderInit, BuilderStep, RendersInStep, PTL DEF LapolSpec, Spec, R!Spec

\* The instance whose theorems are used is the one the program is built from.
LEMMA SameSteps == [R!Next]_(R!vars) => [RP!Next]_(RP!vars)
<1>1. \A m \in DOMAIN Strings : R!Register(m) => RP!Register(m)
  BY DEF R!Register, RP!Register, R!ioVars, RP!ioVars
<1>2. \A r \in Renders : R!Render(r) => RP!Render(r)
  BY DEF R!Render, RP!Render, R!ioVars, RP!ioVars
<1>3. \A r \in Renders : R!ReadFails(r) => RP!ReadFails(r)
  BY DEF R!ReadFails, RP!ReadFails, R!ioVars, RP!ioVars
<1>4. \A r \in Renders : R!Compile(r) => RP!Compile(r)
  <2>1. \A r \in Renders : R!Compiles(r) = RP!Compiles(r)
    <3>1. \A T : R!Cardinality(T) = RP!Cardinality(T)
      BY Zenon DEF R!Cardinality, RP!Cardinality
    <3> QED BY <3>1 DEF R!Compiles, RP!Compiles, R!CanOutput, RP!CanOutput, R!Providers, RP!Providers,
                        R!RootsFor, RP!RootsFor, R!Conflict, RP!Conflict
  <2> QED BY <2>1 DEF R!Compile, RP!Compile, R!ModuleStorage, RP!ModuleStorage
<1>5. \A r \in Renders, o \in R!Ops : R!Mkdirp(r, o) => RP!Mkdirp(r, o)
  BY DEF R!Mkdirp, RP!Mkdirp, R!DirFor, RP!DirFor, R!FileOf, RP!FileOf
<1> DEFINE Same == /\ \A p : R!Writers(p) = RP!Writers(p)
                   /\ \A r, o : R!Data(r, o) = RP!Data(r, o) /\ R!FileOf(r, o) = RP!FileOf(r, o)
                   /\ \A o : R!IsCopy(o) = RP!IsCopy(o)
<1>0. Same
  BY DEF R!Writers, RP!Writers, R!OpsOn, RP!OpsOn, R!Ops, RP!Ops, R!FileOf, RP!FileOf,
         R!Data, RP!Data, R!IsCopy, RP!IsCopy
<1> HIDE DEF Same
<1>6. \A r \in Renders, o \in R!Ops : R!OpenFile(r, o) => RP!OpenFile(r, o)
  BY <1>0 DEF Same, R!OpenFile, RP!OpenFile
<1>7. \A r \in Renders, o \in R!Ops : R!Finish(r, o) => RP!Finish(r, o)
  <2>1. \A r, ph : R!Advance(r, ph) = RP!Advance(r, ph)
    BY DEF R!Advance, RP!Advance, R!AllCopied, RP!AllCopied, R!DepsOf, RP!DepsOf
  <2>2. \A r, o : R!FinalContents(r, o) = RP!FinalContents(r, o)
    BY <1>0 DEF Same, R!FinalContents, RP!FinalContents
  <2>3. \A r, o : R!Submitted(r) = RP!Submitted(r) /\ R!Open(r, o) = RP!Open(r, o)
    BY DEF R!Submitted, RP!Submitted, R!DepsOf, RP!DepsOf, R!Open, RP!Open
  <2> SUFFICES ASSUME NEW r \in Renders, NEW o \in R!Ops, R!Finish(r, o) PROVE RP!Finish(r, o)
    OBVIOUS
  <2> DEFINE p     == R!FileOf(r, o)
             ended == [phase EXCEPT ![<<r, o>>] = "done"]
             next  == IF R!IsCopy(o) THEN ended
                      ELSE [w \in DOMAIN phase |->
                              IF w[1] = r /\ w[2] \in R!Submitted(r) THEN "mkdir" ELSE ended[w]]
  <2>4. /\ R!Open(r, o) /\ phase' = next
        /\ stage' = [stage EXCEPT ![r] = R!Advance(r, next)]
        /\ \E c \in IF R!Writers(p) = {<<r, o>>} THEN R!FinalContents(r, o) ELSE {Torn} :
             file' = [file EXCEPT ![p] = c]
        /\ UNCHANGED <<{Name(l) : l \in registry}, storage, dirs, session>>
    BY Zenon DEF R!Finish
  <2>5. next = IF RP!IsCopy(o) THEN ended
               ELSE [w \in DOMAIN phase |->
                       IF w[1] = r /\ w[2] \in RP!Submitted(r) THEN "mkdir" ELSE ended[w]]
    <3>1. R!IsCopy(o) = RP!IsCopy(o) /\ R!Submitted(r) = RP!Submitted(r)
      BY <1>0, <2>3 DEF Same
    <3> QED BY <3>1
  <2>6. p = RP!FileOf(r, o) /\ R!Writers(p) = RP!Writers(p)
    BY <1>0 DEF Same
  <2> HIDE DEF next, p
  <2> QED BY Zenon, <2>1, <2>2, <2>3, <2>4, <2>5, <2>6 DEF RP!Finish
<1>8. \A r \in Renders, o \in R!Ops : R!CopyBusy(r, o) => RP!CopyBusy(r, o)
  BY <1>0 DEF Same, R!CopyBusy, RP!CopyBusy, R!Advance, RP!Advance, R!AllCopied, RP!AllCopied,
              R!DepsOf, RP!DepsOf
<1>9. \A r \in Renders, o \in R!Ops : R!FileFails(r, o) => RP!FileFails(r, o)
  BY <1>0 DEF Same, R!FileFails, RP!FileFails, R!AfterFailure, RP!AfterFailure,
              R!Settled, RP!Settled, R!Open, RP!Open
<1>10. R!Next => RP!Next
  BY <1>1, <1>2, <1>3, <1>4, <1>5, <1>6, <1>7, <1>8, <1>9
     DEF R!Next, RP!Next, R!IO, RP!IO, R!FileOp, RP!FileOp, R!Ops, RP!Ops
<1>11. UNCHANGED R!vars => UNCHANGED RP!vars
  BY DEF R!vars, RP!vars, R!ioVars, RP!ioVars
<1> QED BY <1>10, <1>11

LEMMA SameRenders == LapolSpec => RP!Spec
<1>1. R!Init => RP!Init
  BY DEF R!Init, RP!Init, R!Ops, RP!Ops
<1> QED BY <1>1, SameSteps, PartsBehave, PTL DEF R!Spec, RP!Spec

\* In the whole program too, whatever registers modules in the meantime: a
\* write or copy that failed is reported by its own render, nothing of a render
\* is under way once it resolved, and its files are whole, unless distinct data
\* met on a file or an operation on it failed.
THEOREM WholeKeepsFiles ==
  LapolSpec => [](R!FailureReported /\ R!ResolvedMeansFinished /\ R!ResolvedFilesIntact)
<1>1. RP!PathsAssumption /\ RP!RequiresAssumption /\ RP!FaultsAssumption
  BY RenderingAssumption
     DEF R!PathsAssumption, R!RequiresAssumption, R!FaultsAssumption,
         RP!PathsAssumption, RP!RequiresAssumption, RP!FaultsAssumption
<1>2. RP!Spec => []RP!FailureReported
  BY <1>1, RP!FailuresReported
<1>3. RP!Spec => []RP!ResolvedMeansFinished
  BY <1>1, RP!ResolvedAreFinished
<1>4. RP!Spec => []RP!ResolvedFilesIntact
  BY <1>1, RP!FilesIntact
<1>5. RP!FailureReported => R!FailureReported
  BY DEF R!FailureReported, RP!FailureReported, R!Ops, RP!Ops
<1>6. RP!ResolvedMeansFinished => R!ResolvedMeansFinished
  BY DEF R!ResolvedMeansFinished, RP!ResolvedMeansFinished, R!DepsOf, RP!DepsOf
<1>7. RP!ResolvedFilesIntact => R!ResolvedFilesIntact
  <2>1. \A p : (R!SameData(p) <=> RP!SameData(p)) /\ (R!SomeFailed(p) <=> RP!SomeFailed(p))
    BY DEF R!SameData, RP!SameData, R!Users, RP!Users, R!SomeFailed, RP!SomeFailed,
           R!OpsOn, RP!OpsOn, R!Ops, RP!Ops, R!FileOf, RP!FileOf, R!Data, RP!Data
  <2> QED BY <2>1 DEF R!ResolvedFilesIntact, RP!ResolvedFilesIntact, R!Quiet, RP!Quiet
<1> QED BY SameRenders, <1>2, <1>3, <1>4, <1>5, <1>6, <1>7, PTL
=============================================================================
