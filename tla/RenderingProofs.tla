---------------------------- MODULE RenderingProofs ----------------------------
(* For any number of concurrent renders: what render() reports is what       *)
(* became of its files, and what a resolved render has written and copied    *)
(* is whole once all is quiet, unless distinct data met on one file or an    *)
(* operation on it failed.                                                   *)
EXTENDS Rendering, TLAPS

Pending == {"mkdir", "ready", "open"}

-----------------------------------------------------------------------------
(* How the phases change *)

\* The operation o of r goes on to phase v, every other one stays.
Moves(r, o, v) ==
  /\ phase' \in [Renders \X Ops -> Phases]
  /\ phase'[<<r, o>>] = v
  /\ \A s \in Renders, k \in Ops :
       s # r \/ k # o => phase'[<<s, k>>] = phase[<<s, k>>]

LEMMA MovesAt ==
  ASSUME NEW r \in Renders, NEW o \in Ops, NEW v, Moves(r, o, v)
  PROVE  \A s \in Renders, k \in Ops :
           phase'[<<s, k>>] = IF s = r /\ k = o THEN v ELSE phase[<<s, k>>]
<1> TAKE s \in Renders, k \in Ops
<1>1. CASE s = r /\ k = o
  BY <1>1 DEF Moves
<1>2. CASE ~(s = r /\ k = o)
  BY <1>2 DEF Moves
<1> QED BY <1>1, <1>2

LEMMA MovesOthers ==
  ASSUME NEW r \in Renders, NEW o \in Ops, NEW v, Moves(r, o, v),
         NEW w \in Renders \X Ops, w # <<r, o>>
  PROVE  phase'[w] = phase[w]
<1>1. PICK s \in Renders, k \in Ops : w = <<s, k>>
  OBVIOUS
<1> QED BY <1>1 DEF Moves

LEMMA ExceptMoves ==
  ASSUME TypeOK, NEW r \in Renders, NEW o \in Ops, NEW v \in Phases,
         phase' = [phase EXCEPT ![<<r, o>>] = v]
  PROVE  Moves(r, o, v)
<1>1. phase \in [Renders \X Ops -> Phases]
  BY DEF TypeOK
<1>2. <<r, o>> \in Renders \X Ops
  OBVIOUS
<1>3. \A s \in Renders, k \in Ops : <<s, k>> \in Renders \X Ops
  OBVIOUS
<1> QED BY <1>1, <1>2, <1>3 DEF Moves

\* The copies are other operations than the write of the output file.
LEMMA DepsAreOps ==
  ASSUME NEW r \in Renders
  PROVE  DepsOf(r) \subseteq Ops \ {Code} /\ Code \in Ops
BY PathsAssumption, RequiresAssumption DEF DepsOf, Ops

\* Each operation is one onto its file.
LEMMA FilesArePaths ==
  ASSUME NEW r \in Renders, NEW o \in Ops
  PROVE  FileOf(r, o) \in Paths /\ <<r, o>> \in OpsOn(FileOf(r, o))
BY PathsAssumption DEF FileOf, Ops, OpsOn

\* When a copy ends its render may advance; when the output file does, the
\* copies are submitted.
LEMMA FinishMoves ==
  ASSUME TypeOK, NEW r \in Renders, NEW o \in Ops, Finish(r, o)
  PROVE  /\ IsCopy(o) => Moves(r, o, "done")
         /\ ~IsCopy(o) =>
              /\ phase' \in [Renders \X Ops -> Phases]
              /\ phase'[<<r, o>>] = "done"
              /\ \A k \in DepsOf(r) : phase'[<<r, k>>] = "mkdir"
              /\ \A k \in Ops \ ({o} \cup DepsOf(r)) : phase'[<<r, k>>] = phase[<<r, k>>]
              /\ \A s \in Renders \ {r}, k \in Ops : phase'[<<s, k>>] = phase[<<s, k>>]
         /\ stage' = [stage EXCEPT ![r] = Advance(r, phase')]
<1>1. phase \in [Renders \X Ops -> Phases]
  BY DEF TypeOK
<1> DEFINE ended == [phase EXCEPT ![<<r, o>>] = "done"]
<1>2. CASE IsCopy(o)
  <2>1. phase' = ended /\ stage' = [stage EXCEPT ![r] = Advance(r, phase')]
    BY <1>2 DEF Finish
  <2> QED BY <1>2, <2>1, ExceptMoves DEF Phases
<1>3. CASE ~IsCopy(o)
  <2>1. /\ phase' = [w \in DOMAIN phase |->
                       IF w[1] = r /\ w[2] \in DepsOf(r) THEN "mkdir" ELSE ended[w]]
        /\ stage' = [stage EXCEPT ![r] = Advance(r, phase')]
    BY <1>3 DEF Finish, Submitted
  <2>2. ended \in [Renders \X Ops -> Phases]
    BY <1>1 DEF Phases
  <2>3. phase' \in [Renders \X Ops -> Phases]
    BY <1>1, <2>1, <2>2 DEF Phases
  <2>4. \A s \in Renders, k \in Ops :
          /\ <<s, k>> \in DOMAIN phase
          /\ phase'[<<s, k>>] = IF s = r /\ k \in DepsOf(r) THEN "mkdir" ELSE ended[<<s, k>>]
    BY <1>1, <2>1
  <2>5. \A s \in Renders, k \in Ops :
          ended[<<s, k>>] = IF s = r /\ k = o THEN "done" ELSE phase[<<s, k>>]
    BY <1>1
  <2>6. o = Code /\ o \notin DepsOf(r) /\ DepsOf(r) \subseteq Ops
    BY <1>3, DepsAreOps DEF IsCopy
  <2> HIDE DEF ended
  <2> QED BY <1>3, <2>1, <2>3, <2>4, <2>5, <2>6
<1> QED BY <1>2, <1>3

-----------------------------------------------------------------------------
(* Type correctness *)

LEMMA TypeInit == Init => TypeOK
BY DEF Init, TypeOK, Stages, Phases

LEMMA AdvanceType ==
  ASSUME NEW r \in Renders, stage[r] \in Stages, NEW ph
  PROVE  Advance(r, ph) \in Stages /\ AfterFailure(r, ph) \in Stages
BY DEF Advance, AfterFailure, Stages, Settled

LEMMA TypeStep ==
  ASSUME TypeOK, [Next]_vars
  PROVE  TypeOK'
<1> USE DEF TypeOK
<1>1. CASE UNCHANGED vars
  BY <1>1 DEF vars, ioVars
<1>2. ASSUME NEW r \in Renders, Render(r) \/ ReadFails(r) PROVE TypeOK'
  BY <1>2 DEF Render, ReadFails, ioVars, Stages
<1>3. ASSUME NEW r \in Renders, Compile(r) PROVE TypeOK'
  <2>1. phase' \in [Renders \X Ops -> Phases]
    BY <1>3, DepsAreOps, ExceptMoves DEF Compile, Moves, Phases
  <2>2. storage' \in [Renders -> SUBSET DOMAIN Strings] /\ stage' \in [Renders -> Stages]
    BY <1>3 DEF Compile, ModuleStorage, Stages
  <2> QED BY <1>3, <2>1, <2>2 DEF Compile
<1>4. ASSUME NEW r \in Renders, NEW o \in Ops, FileOp(r, o) PROVE TypeOK'
  <2>1. CASE Mkdirp(r, o)
    <3>1. phase' \in [Renders \X Ops -> Phases]
      BY <2>1, ExceptMoves DEF Mkdirp, Moves, Phases
    <3>2. dirs' \subseteq Dirs
      BY <2>1, PathsAssumption, FilesArePaths DEF Mkdirp, DirFor
    <3> QED BY <2>1, <3>1, <3>2 DEF Mkdirp
  <2>2. CASE OpenFile(r, o)
    <3>1. phase' \in [Renders \X Ops -> Phases]
      BY <2>2, ExceptMoves DEF OpenFile, Moves, Phases
    <3> QED BY <2>2, <3>1 DEF OpenFile
  <2>3. CASE Finish(r, o)
    <3>1. phase' \in [Renders \X Ops -> Phases] /\ stage' \in [Renders -> Stages]
      BY <2>3, FinishMoves, AdvanceType DEF Moves
    <3>2. DOMAIN file' = Paths
      BY <2>3 DEF Finish
    <3> QED BY <2>3, <3>1, <3>2 DEF Finish
  <2>4. CASE CopyBusy(r, o)
    <3>1. phase' \in [Renders \X Ops -> Phases]
      BY <2>4, ExceptMoves DEF CopyBusy, Moves, Phases
    <3>2. stage' \in [Renders -> Stages]
      BY <2>4, AdvanceType DEF CopyBusy
    <3> QED BY <2>4, <3>1, <3>2 DEF CopyBusy
  <2>5. CASE FileFails(r, o)
    <3>1. phase' \in [Renders \X Ops -> Phases]
      BY <2>5, ExceptMoves DEF FileFails, Moves, Phases
    <3>2. stage' \in [Renders -> Stages]
      BY <2>5, AdvanceType DEF FileFails
    <3>3. DOMAIN session' = Paths
      BY <2>5 DEF FileFails
    <3> QED BY <2>5, <3>1, <3>2, <3>3 DEF FileFails
  <2> QED BY <1>4, <2>1, <2>2, <2>3, <2>4, <2>5 DEF FileOp
<1>5. ASSUME NEW m \in DOMAIN Strings, Register(m) PROVE TypeOK'
  BY <1>5 DEF Register, ioVars
<1> QED BY <1>1, <1>2, <1>3, <1>4, <1>5 DEF Next, IO

\* Type correctness, for any number of renders, paths and modules.
THEOREM TypeCorrect == Spec => []TypeOK
BY TypeInit, TypeStep, PTL DEF Spec

-----------------------------------------------------------------------------
(* The life of one render *)

Untouched(r) == \A o \in Ops : phase[<<r, o>>] = "none"
CopiesOnly(r) ==
  \A o \in Ops \ ({Code} \cup DepsOf(r)) : phase[<<r, o>>] = "none"

\* What the stage of r says of its operations.
Life(r) ==
  /\ stage[r] \in {"idle", "reading"} => Untouched(r)
  /\ stage[r] = "writing" =>
       /\ phase[<<r, Code>>] \in Pending
       /\ \A o \in Ops \ {Code} : phase[<<r, o>>] = "none"
  /\ stage[r] = "copying" =>
       /\ phase[<<r, Code>>] = "done" /\ CopiesOnly(r)
       /\ \A o \in DepsOf(r) : phase[<<r, o>>] \in Pending \cup {"done", "busy"}
       /\ ~AllCopied(r, phase)
  /\ stage[r] = "resolved" =>
       phase[<<r, Code>>] = "done" /\ CopiesOnly(r) /\ AllCopied(r, phase)
  /\ stage[r] = "rejected" =>
       /\ phase[<<r, Code>>] \notin Pending
       /\ Untouched(r) \/ \E o \in Ops : phase[<<r, o>>] = "failed"
  /\ stage[r] \in {"writing", "copying", "resolved"} => ~Conflict(r)

LEMMA LifeInit == Init => \A r \in Renders : Life(r)
BY DEF Init, Life, Untouched

\* A render that a step leaves alone lives on.
LEMMA LifeKept ==
  ASSUME NEW r \in Renders, Life(r), stage'[r] = stage[r],
         \A o \in Ops : phase'[<<r, o>>] = phase[<<r, o>>]
  PROVE  Life(r)'
<1>1. Code \in Ops /\ DepsOf(r) \subseteq Ops
  BY DepsAreOps
<1>2. Untouched(r)' = Untouched(r) /\ CopiesOnly(r)' = CopiesOnly(r)
  BY DEF Untouched, CopiesOnly
<1>3. AllCopied(r, phase)' <=> AllCopied(r, phase)
  BY <1>1 DEF AllCopied
<1>4. Conflict(r)' = Conflict(r)
  BY DEF Conflict
<1> QED BY <1>1, <1>2, <1>3, <1>4 DEF Life

\* An operation of r that is under way goes on without an end.
LEMMA LifeGoesOn ==
  ASSUME TypeOK, NEW r \in Renders, NEW o \in Ops, NEW v \in Pending, Life(r),
         phase[<<r, o>>] \in Pending, Moves(r, o, v), UNCHANGED stage
  PROVE  Life(r)'
<1>1. Code \in Ops /\ DepsOf(r) \subseteq Ops \ {Code}
  BY DepsAreOps
<1>2. \A k \in Ops : phase'[<<r, k>>] = IF k = o THEN v ELSE phase[<<r, k>>]
  BY DEF Moves
<1>3. ~Untouched(r)
  BY DEF Untouched, Pending
<1>4. CASE stage[r] = "writing"
  <2>1. o = Code
    BY <1>4 DEF Life, Pending
  <2> QED BY <1>1, <1>2, <1>4, <2>1 DEF Life, Conflict
<1>5. CASE stage[r] = "copying"
  <2>1. o \in DepsOf(r)
    BY <1>5 DEF Life, Pending, CopiesOnly
  <2>2. ~AllCopied(r, phase)'
    BY <1>1, <1>2, <2>1 DEF AllCopied, Pending
  <2>3. CopiesOnly(r)'
    BY <1>2, <1>5, <2>1 DEF Life, CopiesOnly
  <2> QED BY <1>1, <1>2, <1>5, <2>1, <2>2, <2>3 DEF Life, Conflict
<1>6. CASE stage[r] = "rejected"
  <2>1. o # Code /\ \E k \in Ops : phase[<<r, k>>] = "failed"
    BY <1>3, <1>6 DEF Life
  <2>2. \E k \in Ops : phase'[<<r, k>>] = "failed"
    BY <1>2, <2>1 DEF Pending
  <2> QED BY <1>1, <1>2, <1>6, <2>1, <2>2 DEF Life
<1>7. stage[r] # "resolved"
  <2> SUFFICES ASSUME stage[r] = "resolved" PROVE FALSE
    OBVIOUS
  <2> QED BY DEF Life, Pending, CopiesOnly, AllCopied
<1>8. stage[r] \notin {"idle", "reading"}
  BY <1>3 DEF Life
<1>9. stage[r] \in Stages
  BY DEF TypeOK
<1> QED BY <1>4, <1>5, <1>6, <1>7, <1>8, <1>9 DEF Stages

\* A copy of r ends, well or with EBUSY.
LEMMA LifeCopied ==
  ASSUME TypeOK, NEW r \in Renders, NEW o \in Ops, NEW v \in {"done", "busy"}, Life(r),
         IsCopy(o), phase[<<r, o>>] \in Pending, Moves(r, o, v),
         stage' = [stage EXCEPT ![r] = Advance(r, phase')]
  PROVE  Life(r)'
<1>1. Code \in Ops /\ DepsOf(r) \subseteq Ops \ {Code} /\ o # Code
  BY DepsAreOps DEF IsCopy
<1>2. \A k \in Ops : phase'[<<r, k>>] = IF k = o THEN v ELSE phase[<<r, k>>]
  BY DEF Moves
<1>3. ~Untouched(r)
  BY DEF Untouched, Pending
<1>4. stage'[r] = Advance(r, phase')
  BY DEF TypeOK
<1>5. CASE stage[r] = "copying"
  <2>1. o \in DepsOf(r)
    BY <1>1, <1>5 DEF Life, Pending, CopiesOnly
  <2>2. CopiesOnly(r)'
    BY <1>2, <1>5, <2>1 DEF Life, CopiesOnly
  <2>3. /\ phase'[<<r, Code>>] = "done"
        /\ \A k \in DepsOf(r) : phase'[<<r, k>>] \in Pending \cup {"done", "busy"}
    BY <1>1, <1>2, <1>5 DEF Life
  <2>4. stage'[r] = IF AllCopied(r, phase') THEN "resolved" ELSE "copying"
    BY <1>4, <1>5 DEF Advance
  <2>5. ~Conflict(r)
    BY <1>5 DEF Life
  <2> QED BY <2>2, <2>3, <2>4, <2>5 DEF Life, Conflict
<1>6. CASE stage[r] = "rejected"
  <2>1. \E k \in Ops : phase[<<r, k>>] = "failed"
    BY <1>3, <1>6 DEF Life
  <2>2. \E k \in Ops : phase'[<<r, k>>] = "failed"
    BY <1>2, <2>1 DEF Pending
  <2>3. stage'[r] = "rejected"
    BY <1>4, <1>6 DEF Advance
  <2> QED BY <1>1, <1>2, <1>6, <2>2, <2>3 DEF Life
<1>7. stage[r] # "resolved"
  <2> SUFFICES ASSUME stage[r] = "resolved" PROVE FALSE
    OBVIOUS
  <2> QED BY DEF Life, Pending, CopiesOnly, AllCopied
<1>8. stage[r] \notin {"idle", "reading", "writing"}
  BY <1>1, <1>3 DEF Life, Pending
<1>9. stage[r] \in Stages
  BY DEF TypeOK
<1> QED BY <1>5, <1>6, <1>7, <1>8, <1>9 DEF Stages

\* The output file is written: the copies are submitted, if there are any.
LEMMA LifeWritten ==
  ASSUME TypeOK, NEW r \in Renders, NEW o \in Ops, Life(r), ~IsCopy(o), Finish(r, o)
  PROVE  Life(r)'
<1>1. o = Code /\ Code \in Ops /\ DepsOf(r) \subseteq Ops \ {Code}
  BY DepsAreOps DEF IsCopy
<1>2. phase[<<r, o>>] \in Pending
  BY DEF Finish, Open, Pending
<1>3. stage[r] = "writing"
  <2>1. stage[r] \in Stages
    BY DEF TypeOK
  <2> QED BY <1>1, <1>2, <2>1 DEF Life, Stages, Pending, Untouched
<1>4. /\ phase'[<<r, Code>>] = "done"
      /\ \A k \in DepsOf(r) : phase'[<<r, k>>] = "mkdir"
      /\ \A k \in Ops \ ({o} \cup DepsOf(r)) : phase'[<<r, k>>] = phase[<<r, k>>]
      /\ stage' = [stage EXCEPT ![r] = Advance(r, phase')]
  BY <1>1, FinishMoves
<1>5. stage'[r] = IF AllCopied(r, phase') THEN "resolved" ELSE "copying"
  BY <1>3, <1>4 DEF TypeOK, Advance
<1>6. CopiesOnly(r)'
  BY <1>1, <1>3, <1>4 DEF Life, CopiesOnly
<1>7. ~Conflict(r)
  BY <1>3 DEF Life
<1> QED BY <1>4, <1>5, <1>6, <1>7 DEF Life, Pending, Conflict

\* An operation of r fails.
LEMMA LifeFails ==
  ASSUME TypeOK, NEW r \in Renders, NEW o \in Ops, Life(r), FileFails(r, o)
  PROVE  Life(r)'
<1>1. Code \in Ops /\ DepsOf(r) \subseteq Ops \ {Code}
  BY DepsAreOps
<1>2. Moves(r, o, "failed") /\ phase[<<r, o>>] \in Pending
  BY ExceptMoves DEF FileFails, Phases, Pending
<1>3. \A k \in Ops : phase'[<<r, k>>] = IF k = o THEN "failed" ELSE phase[<<r, k>>]
  BY <1>2 DEF Moves
<1>4. stage[r] # "resolved"
  <2> SUFFICES ASSUME stage[r] = "resolved" PROVE FALSE
    OBVIOUS
  <2> QED BY <1>2 DEF Life, Pending, CopiesOnly, AllCopied
<1>5. stage'[r] = "rejected"
  BY <1>4 DEF FileFails, TypeOK, AfterFailure, Settled
<1>6. o # Code => phase[<<r, Code>>] \notin Pending
  <2>1. stage[r] \in Stages
    BY DEF TypeOK
  <2> QED BY <1>1, <1>2, <1>4, <2>1 DEF Life, Stages, Pending, Untouched
<1>7. phase'[<<r, Code>>] \notin Pending
  BY <1>1, <1>3, <1>6 DEF Pending
<1> QED BY <1>3, <1>5, <1>7 DEF Life

LEMMA LifeStep ==
  ASSUME TypeOK, \A r \in Renders : Life(r), [Next]_vars, NEW s \in Renders
  PROVE  Life(s)'
<1>1. CASE UNCHANGED vars
  BY <1>1, LifeKept DEF vars, ioVars
<1>2. ASSUME NEW r \in Renders, Render(r) \/ ReadFails(r) \/ Compile(r) PROVE Life(s)'
  <2>1. CASE s # r
    <3>1. stage'[s] = stage[s]
      BY <1>2, <2>1 DEF TypeOK, Render, ReadFails, Compile
    <3>2. \A o \in Ops : phase'[<<s, o>>] = phase[<<s, o>>]
      BY <1>2, <2>1, DepsAreOps, ExceptMoves
         DEF Moves, Render, ReadFails, Compile, ioVars, Phases
    <3> QED BY <3>1, <3>2, LifeKept
  <2>2. CASE s = r
    <3>1. Code \in Ops /\ stage[r] \in Stages
      BY DepsAreOps DEF TypeOK
    <3>2. stage[r] \in {"idle", "reading"} /\ Untouched(r)
      BY <1>2 DEF Render, ReadFails, Compile, Life
    <3>3. CASE Compile(r) /\ Compiles(r)
      <4>1. Moves(r, Code, "mkdir") /\ stage'[r] = "writing" /\ ~Conflict(r)
        BY <3>1, <3>3, ExceptMoves DEF Compile, Compiles, Phases, TypeOK
      <4>2. \A o \in Ops : phase'[<<r, o>>] = IF o = Code THEN "mkdir" ELSE "none"
        BY <3>2, <4>1 DEF Moves, Untouched
      <4> QED BY <2>2, <3>1, <4>1, <4>2 DEF Life, Pending, Conflict
    <3>4. CASE ~(Compile(r) /\ Compiles(r))
      <4>1. stage'[r] \in {"reading", "rejected"} /\ phase' = phase
        BY <1>2, <3>4 DEF Render, ReadFails, Compile, ioVars, TypeOK
      <4>2. Untouched(r)' /\ phase'[<<r, Code>>] = "none"
        BY <3>1, <3>2, <4>1 DEF Untouched
      <4> QED BY <2>2, <4>1, <4>2 DEF Life, Pending
    <3> QED BY <3>3, <3>4
  <2> QED BY <2>1, <2>2
<1>3. ASSUME NEW r \in Renders, NEW o \in Ops, FileOp(r, o) PROVE Life(s)'
  <2>1. CASE s # r
    <3>1. stage'[s] = stage[s]
      <4>1. stage' = stage \/ \E v : stage' = [stage EXCEPT ![r] = v]
        BY <1>3 DEF FileOp, Mkdirp, OpenFile, Finish, CopyBusy, FileFails
      <4> QED BY <2>1, <4>1 DEF TypeOK
    <3>2. \A k \in Ops : phase'[<<s, k>>] = phase[<<s, k>>]
      <4>1. CASE Finish(r, o)
        <5>1. CASE IsCopy(o)
          BY <2>1, <4>1, <5>1, FinishMoves, MovesAt
        <5>2. CASE ~IsCopy(o)
          <6>1. \A t \in Renders \ {r}, k \in Ops : phase'[<<t, k>>] = phase[<<t, k>>]
            BY <4>1, <5>2, FinishMoves
          <6> QED BY <2>1, <6>1
        <5> QED BY <5>1, <5>2
      <4>2. CASE ~Finish(r, o)
        <5>1. \E v \in Phases : phase' = [phase EXCEPT ![<<r, o>>] = v]
          BY <1>3, <4>2 DEF FileOp, Mkdirp, OpenFile, CopyBusy, FileFails, Phases
        <5> QED BY <2>1, <5>1, ExceptMoves, MovesAt
      <4> QED BY <4>1, <4>2
    <3> QED BY <3>1, <3>2, LifeKept
  <2>2. CASE Mkdirp(r, o) \/ OpenFile(r, o)
    <3>1. PICK v \in Pending : phase' = [phase EXCEPT ![<<r, o>>] = v]
      BY <2>2 DEF Mkdirp, OpenFile, Pending
    <3>2. v \in Phases
      BY DEF Pending, Phases
    <3>3. Moves(r, o, v)
      BY <3>1, <3>2, ExceptMoves
    <3>4. phase[<<r, o>>] \in Pending /\ UNCHANGED stage
      BY <2>2 DEF Mkdirp, OpenFile, Pending
    <3> QED BY <2>1, <3>3, <3>4, LifeGoesOn
  <2>3. CASE Finish(r, o)
    <3>1. phase[<<r, o>>] \in Pending
      BY <2>3 DEF Finish, Open, Pending
    <3> QED BY <2>1, <2>3, <3>1, FinishMoves, LifeCopied, LifeWritten
  <2>4. CASE CopyBusy(r, o)
    <3>1. /\ IsCopy(o) /\ phase[<<r, o>>] \in Pending /\ Moves(r, o, "busy")
          /\ stage' = [stage EXCEPT ![r] = Advance(r, phase')]
      BY <2>4, ExceptMoves DEF CopyBusy, Pending, Phases
    <3> QED BY <2>1, <3>1, LifeCopied
  <2>5. CASE FileFails(r, o)
    BY <2>1, <2>5, LifeFails
  <2> QED BY <1>3, <2>2, <2>3, <2>4, <2>5 DEF FileOp
<1>4. ASSUME NEW m \in DOMAIN Strings, Register(m) PROVE Life(s)'
  BY <1>4, LifeKept DEF Register, ioVars
<1> QED BY <1>1, <1>2, <1>3, <1>4 DEF Next, IO

LEMMA LifeInvariant == Spec => [](TypeOK /\ \A r \in Renders : Life(r))
<1>1. Init => TypeOK /\ \A r \in Renders : Life(r)
  BY TypeInit, LifeInit
<1>2. TypeOK /\ (\A r \in Renders : Life(r)) /\ [Next]_vars
        => (TypeOK /\ \A r \in Renders : Life(r))'
  BY TypeStep, LifeStep
<1> QED BY <1>1, <1>2, PTL DEF Spec

\* A render rejects if a write or copy of its own fails, and no failure of
\* another one makes it reject.
THEOREM FailuresReported == Spec => []FailureReported
<1>1. ASSUME TypeOK, \A r \in Renders : Life(r) PROVE FailureReported
  <2> SUFFICES ASSUME NEW r \in Renders
               PROVE  /\ (\E o \in Ops : phase[<<r, o>>] = "failed") => stage[r] = "rejected"
                      /\ stage[r] = "rejected" /\ ~Untouched(r) =>
                           \E o \in Ops : phase[<<r, o>>] = "failed"
    BY DEF FailureReported, Untouched
  <2>1. Life(r) /\ stage[r] \in Stages /\ DepsOf(r) \subseteq Ops \ {Code}
    BY <1>1, DepsAreOps DEF TypeOK
  <2>2. ASSUME NEW o \in Ops, phase[<<r, o>>] = "failed" PROVE stage[r] = "rejected"
    BY <2>1, <2>2 DEF Life, Stages, Untouched, CopiesOnly, AllCopied, Pending
  <2> QED BY <2>1, <2>2 DEF Life
<1> QED BY <1>1, LifeInvariant, PTL

\* When render() resolves, nothing of it is under way any more.
THEOREM ResolvedAreFinished == Spec => []ResolvedMeansFinished
<1>1. ASSUME TypeOK, \A r \in Renders : Life(r) PROVE ResolvedMeansFinished
  BY <1>1, DepsAreOps DEF ResolvedMeansFinished, Life, AllCopied
<1> QED BY <1>1, LifeInvariant, PTL

-----------------------------------------------------------------------------
(* The files *)

DataOf(w) == Data(w[1], w[2])

\* What a file owes to the operations on it, as long as none of them failed:
\* only their data has been written to it; once no writer is left, it has the
\* data of all of them, if that is one; and no copy was given up for a writer
\* that was not there.
PathInv(p) ==
  /\ ~SomeFailed(p) => session[p] \subseteq {DataOf(w) : w \in Users(p)}
  /\ SameData(p) /\ ~SomeFailed(p) /\ Writers(p) = {} =>
       \A w \in OpsOn(p) : phase[w] = "done" => file[p] = DataOf(w)
  /\ (\E w \in OpsOn(p) : phase[w] = "busy") =>
       \E w \in OpsOn(p) : phase[w] \in {"open", "done", "failed"}

LEMMA PathInit == Init => \A p \in Paths : PathInv(p)
BY DEF Init, PathInv, SomeFailed, Users, OpsOn

\* Which operations there are on a file, and their data, does not change.
LEMMA DataKept == /\ \A w : DataOf(w)' = DataOf(w)
                  /\ \A p : OpsOn(p)' = OpsOn(p)
BY DEF DataOf, Data, OpsOn, FileOf, Ops

\* A file on which operations are only submitted keeps what it has.
LEMMA PathKept ==
  ASSUME NEW p \in Paths, PathInv(p), file'[p] = file[p], session'[p] = session[p],
         \A w \in OpsOn(p) :
           \/ phase'[w] = phase[w]
           \/ phase[w] \in {"none", "mkdir"} /\ phase'[w] \in {"mkdir", "ready"}
  PROVE  PathInv(p)'
<1>1. Users(p) \subseteq Users(p)' /\ Writers(p)' = Writers(p)
  BY DataKept DEF Users, Writers
<1>2. SomeFailed(p)' <=> SomeFailed(p)
  BY DataKept DEF SomeFailed
<1>3. SameData(p)' => SameData(p)
  BY <1>1, DataKept DEF SameData, DataOf
<1>4. {DataOf(w) : w \in Users(p)} \subseteq {DataOf(w) : w \in Users(p)}'
  BY <1>1, DataKept
<1>5. \A w \in OpsOn(p) : /\ phase'[w] = "done" => phase[w] = "done"
                          /\ phase'[w] = "busy" => phase[w] = "busy"
                          /\ phase[w] \in {"open", "done", "failed"} =>
                               phase'[w] \in {"open", "done", "failed"}
  OBVIOUS
<1> QED BY <1>1, <1>2, <1>3, <1>4, <1>5, DataKept DEF PathInv

\* Besides its own operation a step at most submits copies: those of a render
\* whose output file is finished.
LEMMA OthersSubmitted ==
  ASSUME TypeOK, NEW r \in Renders, NEW o \in Ops, FileOp(r, o), Life(r),
         NEW w \in Renders \X Ops, w # <<r, o>>
  PROVE  phase'[w] = phase[w] \/ (phase[w] = "none" /\ phase'[w] = "mkdir")
<1>1. PICK s \in Renders, k \in Ops : w = <<s, k>>
  OBVIOUS
<1>2. CASE Finish(r, o) /\ ~IsCopy(o)
  <2>1. o = Code /\ phase[<<r, o>>] \in Pending /\ stage[r] \in Stages
    BY <1>2 DEF IsCopy, Finish, Open, Pending, TypeOK
  <2>2. ASSUME s = r PROVE phase[w] = "none" /\ phase'[w] \in {"none", "mkdir"}
    <3>1. phase[w] = "none"
      BY <1>1, <2>1, <2>2 DEF Life, Stages, Pending, Untouched
    <3>2. k \in DepsOf(r) => phase'[w] = "mkdir"
      BY <1>1, <1>2, <2>2, FinishMoves
    <3>3. k \notin DepsOf(r) => phase'[w] = phase[w]
      BY <1>1, <1>2, <2>2, FinishMoves
    <3> QED BY <3>1, <3>2, <3>3
  <2>3. ASSUME s # r PROVE phase'[w] = phase[w]
    <3>1. \A t \in Renders \ {r}, j \in Ops : phase'[<<t, j>>] = phase[<<t, j>>]
      BY <1>2, FinishMoves
    <3> QED BY <1>1, <2>3, <3>1
  <2> QED BY <2>2, <2>3
<1>3. CASE Finish(r, o) /\ IsCopy(o)
  BY <1>3, FinishMoves, MovesOthers
<1>4. CASE ~Finish(r, o)
  <2>1. \E v \in Phases : phase' = [phase EXCEPT ![<<r, o>>] = v]
    BY <1>4 DEF FileOp, Mkdirp, OpenFile, CopyBusy, FileFails, Phases
  <2> QED BY <2>1, ExceptMoves, MovesOthers
<1> QED BY <1>2, <1>3, <1>4

\* An operation that is under way goes on to v: the users of its file and
\* their data stay, although more of them may come.
LEMMA UsersKept ==
  ASSUME TypeOK, NEW r \in Renders, NEW o \in Ops, FileOp(r, o), Life(r),
         NEW v \in Phases, v # "none",
         phase[<<r, o>>] \in Pending, phase'[<<r, o>>] = v,
         NEW p \in Paths, p = FileOf(r, o)
  PROVE  /\ <<r, o>> \in OpsOn(p) /\ <<r, o>> \in Users(p) /\ Users(p) \subseteq Users(p)'
         /\ SameData(p)' => SameData(p)
         /\ {DataOf(w) : w \in Users(p)} \subseteq {DataOf(w) : w \in Users(p)}'
         /\ SomeFailed(p)' <=> SomeFailed(p) \/ v = "failed"
         /\ \A w \in OpsOn(p) \ {<<r, o>>} :
              phase'[w] = phase[w] \/ (phase[w] = "none" /\ phase'[w] = "mkdir")
<1>1. <<r, o>> \in OpsOn(p)
  BY FilesArePaths
<1>2. \A w \in OpsOn(p) \ {<<r, o>>} :
        phase'[w] = phase[w] \/ (phase[w] = "none" /\ phase'[w] = "mkdir")
  BY OthersSubmitted DEF OpsOn
<1>3. <<r, o>> \in Users(p) /\ Users(p) \subseteq Users(p)'
  BY <1>1, <1>2, DataKept DEF Users, Pending
<1>4. SameData(p)' => SameData(p)
  BY <1>3, DataKept DEF SameData, DataOf
<1>5. {DataOf(w) : w \in Users(p)} \subseteq {DataOf(w) : w \in Users(p)}'
  BY <1>3, DataKept
<1>6. SomeFailed(p)' <=> SomeFailed(p) \/ v = "failed"
  <2>1. phase[<<r, o>>] # "failed"
    BY DEF Pending
  <2> QED BY <1>1, <1>2, <2>1, DataKept DEF SomeFailed
<1> QED BY <1>1, <1>2, <1>3, <1>4, <1>5, <1>6

LEMMA PathOpened ==
  ASSUME TypeOK, NEW r \in Renders, NEW o \in Ops, Life(r), OpenFile(r, o),
         NEW p \in Paths, p = FileOf(r, o), PathInv(p)
  PROVE  PathInv(p)'
<1>1. Moves(r, o, "open") /\ phase[<<r, o>>] = "ready"
  BY ExceptMoves DEF OpenFile, Phases
<1>2. /\ <<r, o>> \in OpsOn(p) /\ <<r, o>> \in Users(p)
      /\ {DataOf(w) : w \in Users(p)} \subseteq {DataOf(w) : w \in Users(p)}'
      /\ SomeFailed(p)' <=> SomeFailed(p)
  BY <1>1, UsersKept DEF FileOp, Moves, Phases, Pending
<1>3. session'[p] \subseteq session[p] \cup {DataOf(<<r, o>>)}
  BY DEF OpenFile, TypeOK, DataOf
<1>4. phase'[<<r, o>>] = "open" /\ <<r, o>> \in Writers(p)'
  BY <1>1, <1>2, DataKept DEF Moves, Writers
<1>5. ~SomeFailed(p)' => session'[p] \subseteq {DataOf(w) : w \in Users(p)}'
  BY <1>2, <1>3 DEF PathInv
<1> QED BY <1>2, <1>4, <1>5, DataKept DEF PathInv

LEMMA PathFinished ==
  ASSUME TypeOK, NEW r \in Renders, NEW o \in Ops, Life(r), Finish(r, o),
         NEW p \in Paths, p = FileOf(r, o), PathInv(p)
  PROVE  PathInv(p)'
<1>1. phase[<<r, o>>] = "open" /\ phase'[<<r, o>>] = "done"
  BY FinishMoves DEF Moves, Finish, Open
<1>2. /\ <<r, o>> \in OpsOn(p) /\ <<r, o>> \in Users(p) /\ Users(p) \subseteq Users(p)'
      /\ SameData(p)' => SameData(p)
      /\ {DataOf(w) : w \in Users(p)} \subseteq {DataOf(w) : w \in Users(p)}'
      /\ SomeFailed(p)' <=> SomeFailed(p)
      /\ \A w \in OpsOn(p) \ {<<r, o>>} :
           phase'[w] = phase[w] \/ (phase[w] = "none" /\ phase'[w] = "mkdir")
  BY <1>1, UsersKept DEF FileOp, Phases, Pending
<1>3. Writers(p)' = Writers(p) \ {<<r, o>>}
  BY <1>1, <1>2, DataKept DEF Writers
<1>4. session' = session
  BY DEF Finish
<1>5. ASSUME SameData(p)', ~SomeFailed(p), Writers(p) \ {<<r, o>>} = {}
      PROVE  \A w \in OpsOn(p) : phase'[w] = "done" => file'[p] = DataOf(w)
  <2>1. Writers(p) = {<<r, o>>}
    BY <1>1, <1>2, <1>5 DEF Writers
  <2>2. session[p] \subseteq {Data(r, o)}
    BY <1>2, <1>5 DEF PathInv, SameData, DataOf
  <2>3. file'[p] = Data(r, o)
    BY <2>1, <2>2 DEF Finish, FinalContents, TypeOK
  <2>4. \A w \in OpsOn(p) : phase'[w] = "done" => w \in Users(p)'
    BY DataKept DEF Users
  <2>5. \A w \in Users(p)' : DataOf(w) = DataOf(<<r, o>>)
    BY <1>2, <1>5, DataKept DEF SameData, DataOf
  <2> QED BY <2>3, <2>4, <2>5 DEF DataOf
<1> QED BY <1>1, <1>2, <1>3, <1>4, <1>5, DataKept DEF PathInv

LEMMA PathBusy ==
  ASSUME TypeOK, NEW r \in Renders, NEW o \in Ops, Life(r), CopyBusy(r, o),
         NEW p \in Paths, p = FileOf(r, o), PathInv(p)
  PROVE  PathInv(p)'
<1>1. Moves(r, o, "busy") /\ phase[<<r, o>>] = "ready"
  BY ExceptMoves DEF CopyBusy, Phases
<1>2. /\ {DataOf(w) : w \in Users(p)} \subseteq {DataOf(w) : w \in Users(p)}'
      /\ SomeFailed(p)' <=> SomeFailed(p)
      /\ \A w \in OpsOn(p) \ {<<r, o>>} :
           phase'[w] = phase[w] \/ (phase[w] = "none" /\ phase'[w] = "mkdir")
  BY <1>1, UsersKept DEF FileOp, Moves, Phases, Pending
<1>3. PICK w \in OpsOn(p) : phase[w] = "open" /\ w # <<r, o>>
  BY <1>1 DEF CopyBusy, Writers
<1>4. phase'[w] = "open" /\ w \in Writers(p)'
  BY <1>2, <1>3, DataKept DEF Writers
<1> QED BY <1>2, <1>4, DataKept DEF PathInv, CopyBusy

LEMMA PathFails ==
  ASSUME TypeOK, NEW r \in Renders, NEW o \in Ops, FileFails(r, o),
         NEW p \in Paths, p = FileOf(r, o)
  PROVE  PathInv(p)'
<1>1. phase'[<<r, o>>] = "failed" /\ <<r, o>> \in OpsOn(p)
  BY ExceptMoves, FilesArePaths DEF FileFails, Moves, Phases
<1> QED BY <1>1, DataKept DEF PathInv, SomeFailed

\* An operation does nothing to another file than its own, but for the copies
\* that are submitted.
LEMMA PathElsewhere ==
  ASSUME TypeOK, NEW r \in Renders, NEW o \in Ops, FileOp(r, o), Life(r),
         NEW q \in Paths, q # FileOf(r, o), PathInv(q)
  PROVE  PathInv(q)'
<1> DEFINE p == FileOf(r, o)
<1>1. file'[q] = file[q]
  <2>1. file' = file \/ \E c : file' = [file EXCEPT ![p] = c]
    BY DEF FileOp, Mkdirp, OpenFile, Finish, CopyBusy, FileFails
  <2> QED BY <2>1 DEF TypeOK
<1>2. session'[q] = session[q]
  <2>1. session' = session \/ \E c : session' = [session EXCEPT ![p] = c]
    BY DEF FileOp, Mkdirp, OpenFile, Finish, CopyBusy, FileFails
  <2> QED BY <2>1 DEF TypeOK
<1>3. \A w \in OpsOn(q) : w \in Renders \X Ops /\ w # <<r, o>>
  BY DEF OpsOn
<1>4. \A w \in OpsOn(q) :
        phase'[w] = phase[w] \/ (phase[w] = "none" /\ phase'[w] = "mkdir")
  BY <1>3, OthersSubmitted
<1> QED BY <1>1, <1>2, <1>4, PathKept

LEMMA PathStep ==
  ASSUME TypeOK, \A r \in Renders : Life(r), \A p \in Paths : PathInv(p),
         [Next]_vars, NEW q \in Paths
  PROVE  PathInv(q)'
<1>0. OpsOn(q) \subseteq Renders \X Ops
  BY DEF OpsOn
<1>1. CASE UNCHANGED vars
  BY <1>1, PathKept DEF vars, ioVars
<1>2. ASSUME NEW r \in Renders, Render(r) \/ ReadFails(r) PROVE PathInv(q)'
  BY <1>2, PathKept DEF Render, ReadFails, ioVars
<1>3. ASSUME NEW r \in Renders, Compile(r) PROVE PathInv(q)'
  <2>1. Code \in Ops
    BY DepsAreOps
  <2>2. phase[<<r, Code>>] = "none"
    BY <1>3, <2>1 DEF Compile, Life, Untouched
  <2>3. phase' = phase \/ Moves(r, Code, "mkdir")
    BY <1>3, <2>1, ExceptMoves DEF Compile, Phases
  <2>4. \A w \in OpsOn(q) :
          phase'[w] = phase[w] \/ (phase[w] = "none" /\ phase'[w] = "mkdir")
    BY <1>0, <2>1, <2>2, <2>3, MovesOthers DEF Moves
  <2> QED BY <1>3, <2>4, PathKept DEF Compile
<1>4. ASSUME NEW r \in Renders, NEW o \in Ops, FileOp(r, o) PROVE PathInv(q)'
  <2>1. CASE Mkdirp(r, o)
    <3>1. Moves(r, o, "ready") /\ phase[<<r, o>>] = "mkdir"
      BY <2>1, ExceptMoves DEF Mkdirp, Phases
    <3>2. \A w \in OpsOn(q) :
            phase'[w] = phase[w] \/ (phase[w] = "mkdir" /\ phase'[w] = "ready")
      BY <1>0, <3>1, MovesOthers DEF Moves
    <3> QED BY <2>1, <3>2, PathKept DEF Mkdirp
  <2>2. CASE q # FileOf(r, o)
    BY <1>4, <2>2, PathElsewhere
  <2>3. CASE q = FileOf(r, o) /\ ~Mkdirp(r, o)
    BY <1>4, <2>3, PathOpened, PathFinished, PathBusy, PathFails DEF FileOp
  <2> QED BY <2>1, <2>2, <2>3
<1>5. ASSUME NEW m \in DOMAIN Strings, Register(m) PROVE PathInv(q)'
  BY <1>5, PathKept DEF Register, ioVars
<1> QED BY <1>1, <1>2, <1>3, <1>4, <1>5 DEF Next, IO

\* What a render that resolved has asked for is in its file, whole, unless
\* distinct data met there or an operation failed.
THEOREM FilesIntact == Spec => []ResolvedFilesIntact
<1> DEFINE IInv == /\ TypeOK /\ \A r \in Renders : Life(r)
                   /\ \A p \in Paths : PathInv(p)
<1>1. Init => IInv
  BY TypeInit, LifeInit, PathInit
<1>2. IInv /\ [Next]_vars => IInv'
  BY TypeStep, LifeStep, PathStep
<1>3. ASSUME IInv PROVE ResolvedFilesIntact
  <2> SUFFICES ASSUME Quiet, NEW r \in Renders, stage[r] = "resolved"
               PROVE  /\ SameData(OutOf[r]) /\ ~SomeFailed(OutOf[r]) => file[OutOf[r]] = CodeOf[r]
                      /\ \A q \in Requires[r] :
                           LET p == PathOf[Normal[q.as]]
                           IN SameData(p) /\ ~SomeFailed(p) => file[p] = q.src
    BY DEF ResolvedFilesIntact
  <2>1. Code \in Ops /\ DepsOf(r) \subseteq Ops \ {Code}
    BY DepsAreOps
  <2>2. /\ phase[<<r, Code>>] = "done" /\ ~Conflict(r)
        /\ \A o \in DepsOf(r) : phase[<<r, o>>] \in {"done", "busy"}
    BY <1>3 DEF Life, AllCopied
  <2>3. \A w \in Renders \X Ops : phase[w] \notin Pending
    BY <1>3 DEF Quiet, TypeOK, Pending
  <2>4. ASSUME NEW o \in Ops, phase[<<r, o>>] \in {"done", "busy"},
               NEW p, p = FileOf(r, o), SameData(p), ~SomeFailed(p)
        PROVE  file[p] = Data(r, o)
    <3>1. p \in Paths /\ <<r, o>> \in OpsOn(p) /\ OpsOn(p) \subseteq Renders \X Ops
      BY <2>4, FilesArePaths DEF OpsOn
    <3>2. Writers(p) = {}
      BY <2>3, <3>1 DEF Writers, Pending
    <3>3. PICK w \in OpsOn(p) : phase[w] = "done"
      BY <1>3, <2>3, <2>4, <3>1 DEF PathInv, SomeFailed, Pending
    <3>4. file[p] = DataOf(w)
      BY <1>3, <2>4, <3>1, <3>2, <3>3 DEF PathInv
    <3>5. <<r, o>> \in Users(p) /\ w \in Users(p)
      BY <2>4, <3>1, <3>3 DEF Users
    <3> QED BY <2>4, <3>4, <3>5 DEF SameData, DataOf
  <2>5. Data(r, Code) = CodeOf[r] /\ FileOf(r, Code) = OutOf[r]
    BY DEF Data, FileOf
  <2>6. ASSUME NEW q \in Requires[r]
        PROVE  Data(r, Normal[q.as]) = q.src /\ FileOf(r, Normal[q.as]) = PathOf[Normal[q.as]]
    <3>1. Normal[q.as] # Code /\ Normal[q.as] \in DepsOf(r)
      BY <2>1 DEF DepsOf
    <3> DEFINE c == CHOOSE d \in Requires[r] : Normal[d.as] = Normal[q.as]
    <3>2. c \in Requires[r] /\ Normal[c.as] = Normal[q.as]
      OBVIOUS
    <3>3. c.src = q.src
      BY <2>2, <3>2 DEF Conflict
    <3> QED BY <3>1, <3>3 DEF Data, FileOf
  <2>7. SameData(OutOf[r]) /\ ~SomeFailed(OutOf[r]) => file[OutOf[r]] = CodeOf[r]
    BY <2>1, <2>2, <2>4, <2>5
  <2>8. ASSUME NEW q \in Requires[r], NEW p, p = PathOf[Normal[q.as]],
               SameData(p), ~SomeFailed(p)
        PROVE  file[p] = q.src
    <3>1. Normal[q.as] \in DepsOf(r)
      BY DEF DepsOf
    <3> QED BY <2>1, <2>2, <2>4, <2>6, <2>8, <3>1
  <2> QED BY <2>7, <2>8
<1> HIDE DEF IInv
<1> QED BY <1>1, <1>2, <1>3, PTL DEF Spec
=============================================================================
