--------------------------- MODULE EvaluationProofs ---------------------------
(* For every registry and documents of any length and nesting: what a name   *)
(* means does not change while a file is evaluated, and files do not see     *)
(* each other.                                                               *)
EXTENDS Evaluation, Induction, SequenceTheorems, TLAPS

-----------------------------------------------------------------------------
(* The recursion along a path *)

\* w leads along the path, up to its n-th component.
Leads(w, path, n) ==
  /\ w = [i \in 0 .. n |-> w[i]]
  /\ w[0] = Ns(Root)
  /\ \A i \in 1 .. n : w[i] = Into(w[i - 1], path[i])

LEMMA SomeWayLeads ==
  ASSUME NEW path, NEW n \in Nat
  PROVE  \E w : Leads(w, path, n)
<1> DEFINE S == {k \in Nat : \E w : Leads(w, path, k)}
<1>1. 0 \in S
  <2>1. Leads([i \in 0 .. 0 |-> Ns(Root)], path, 0)
    BY DEF Leads
  <2> QED BY <2>1
<1>2. ASSUME NEW k \in Nat, k \in S PROVE k + 1 \in S
  <2>1. PICK w : Leads(w, path, k)
    BY <1>2
  <2> DEFINE v == Into(w[k], path[k + 1])
             x == [i \in 0 .. k + 1 |-> IF i = k + 1 THEN v ELSE w[i]]
  <2> HIDE DEF v
  <2>2. x = [i \in 0 .. k + 1 |-> x[i]] /\ x[k + 1] = v /\ \A i \in 0 .. k : x[i] = w[i]
    OBVIOUS
  <2> HIDE DEF x
  <2>3. x[0] = Ns(Root)
    BY <2>1, <2>2 DEF Leads
  <2>4. ASSUME NEW i \in 1 .. k + 1 PROVE x[i] = Into(x[i - 1], path[i])
    <3>1. CASE i = k + 1
      <4>1. i - 1 = k /\ k \in 0 .. k
        BY <3>1
      <4>2. x[k] = w[k]
        BY <2>2, <4>1
      <4> QED BY <2>2, <3>1, <4>1, <4>2 DEF v
    <3>2. CASE i # k + 1
      <4>1. i \in 1 .. k /\ i \in 0 .. k /\ i - 1 \in 0 .. k
        BY <3>2
      <4>2. x[i] = w[i] /\ x[i - 1] = w[i - 1]
        BY <2>2, <4>1
      <4>3. w[i] = Into(w[i - 1], path[i])
        BY <2>1, <4>1 DEF Leads
      <4> QED BY <4>2, <4>3
    <3> QED BY <3>1, <3>2
  <2>5. Leads(x, path, k + 1)
    BY <2>2, <2>3, <2>4 DEF Leads
  <2>6. k + 1 \in Nat /\ \E y : Leads(y, path, k + 1)
    BY <2>5
  <2> QED BY <2>6
<1> HIDE DEF S
<1>3. n \in S
  BY <1>1, <1>2, Induct
<1> QED BY <1>3 DEF S

\* The recursion in Way is well founded.
LEMMA WayLeads ==
  \A path \in Seq(STRING) : Leads(Way(path), path, Len(path))
<1> TAKE path \in Seq(STRING)
<1> DEFINE n == Len(path)
           Step(w) == [i \in 0 .. n |-> IF i = 0 THEN Ns(Root) ELSE Into(w[i - 1], path[i])]
<1>1. n \in Nat
  BY LenProperties
<1> HIDE DEF n
<1>2. PICK w : Leads(w, path, n)
  BY <1>1, SomeWayLeads
<1>3. w = Step(w)
  <2>1. \A i \in 0 .. n : i # 0 => i \in 1 .. n
    BY <1>1
  <2>2. \A i \in 0 .. n : w[i] = IF i = 0 THEN Ns(Root) ELSE Into(w[i - 1], path[i])
    BY <1>2, <2>1 DEF Leads
  <2>3. w = [i \in 0 .. n |-> w[i]]
    BY <1>2 DEF Leads
  <2> QED BY <2>2, <2>3
<1>4. Way(path) = CHOOSE at : at = Step(at)
  BY DEF Way, n
<1>5. Way(path) = Step(Way(path))
  BY <1>3, <1>4
<1> DEFINE at == Way(path)
<1> HIDE DEF at
<1>6. at = Step(at)
  BY <1>5 DEF at
<1>7. \A i \in 0 .. n : at[i] = IF i = 0 THEN Ns(Root) ELSE Into(at[i - 1], path[i])
  BY <1>6
<1>8. at = [i \in 0 .. n |-> at[i]]
  BY <1>6
<1>9. Leads(at, path, n)
  BY <1>1, <1>7, <1>8 DEF Leads
<1> QED BY <1>9 DEF at, n

-----------------------------------------------------------------------------
(* What a path leads to *)

\* The namespaces of the modules are as the modules made them, and what the
\* root binds comes from them.
Shape ==
  /\ children = [ns \in Modules \cup {Root} |-> children[ns]]
  /\ \A m \in Modules : children[m] = [c \in Exports[m] |-> Item(m, c)]
  /\ \A n \in DOMAIN children[Root] : children[Root][n] \in Things
  /\ parent = [ns \in Modules \cup {Root} |-> Undefined]

\* Only names that no file bound before are bound in a step.
Grows ==
  \A n \in DOMAIN children[Root] :
    n \in DOMAIN children'[Root] /\ children'[Root][n] = children[Root][n]

Reachable == Things \cup {Ns(Root), Undefined}

LEMMA Records ==
  /\ \A m : Ns(m).kind = "namespace" /\ Ns(m).of = m
  /\ \A m, c : Item(m, c).kind = "item" /\ Item(m, c).of = m /\ Item(m, c).name = c
  /\ Undefined.kind = "undefined" /\ Thrown.kind = "thrown"
BY DEF Ns, Item, Undefined, Thrown

LEMMA ThingFacts ==
  ASSUME NEW t \in Things
  PROVE  /\ t.of \in Modules /\ t.kind \in {"namespace", "item"}
         /\ t.kind = "namespace" => t = Ns(t.of)
         /\ t.kind = "item" => t.name \in Exports[t.of] /\ t = Item(t.of, t.name)
<1>1. CASE \E m \in Modules : t = Ns(m)
  BY <1>1, Records
<1>2. CASE \E m \in Modules : \E c \in Exports[m] : t = Item(m, c)
  BY <1>2, Records
<1> QED BY <1>1, <1>2 DEF Things

LEMMA ReachableFacts ==
  /\ Undefined \notin Things /\ Thrown \notin Reachable
  /\ \A t \in Reachable : t.kind = "namespace" => t.of \in Modules \cup {Root} /\ t = Ns(t.of)
<1>1. \A t \in Things : t.kind # "undefined" /\ t.kind # "thrown"
  BY ThingFacts
<1>2. Undefined \notin Things /\ Thrown \notin Reachable
  BY <1>1, Records DEF Reachable
<1> QED BY <1>2, ThingFacts, Records DEF Reachable

LEMMA GetThings ==
  ASSUME Shape, NEW ns \in Modules \cup {Root}, NEW n
  PROVE  /\ Get(ns, n) \in Things \cup {Undefined}
         /\ ns \in Modules /\ Get(ns, n) # Undefined =>
              Get(ns, n).of = ns /\ Get(ns, n).kind = "item"
<1>1. CASE n \notin DOMAIN children[ns]
  BY <1>1 DEF Get
<1>2. CASE n \in DOMAIN children[ns] /\ ns \in Modules
  <2>1. n \in Exports[ns] /\ children[ns][n] = Item(ns, n)
    BY <1>2 DEF Shape
  <2>2. Item(ns, n) \in Things
    BY <1>2, <2>1 DEF Things
  <2> QED BY <1>2, <2>1, <2>2, Records DEF Get
<1>3. CASE n \in DOMAIN children[ns] /\ ns = Root
  BY <1>3, ModulesAssumption DEF Get, Shape
<1> QED BY <1>1, <1>2, <1>3

LEMMA IntoReachable ==
  ASSUME Shape, NEW t \in Reachable, NEW sub
  PROVE  Into(t, sub) \in Things \cup {Undefined}
<1>1. CASE t.kind # "namespace"
  BY <1>1 DEF Into
<1>2. CASE t.kind = "namespace"
  <2>1. t.of \in Modules \cup {Root}
    BY <1>2, ReachableFacts
  <2>2. parent[t.of] = Undefined /\ Get(t.of, sub) \in Things \cup {Undefined}
    BY <2>1, GetThings DEF Shape
  <2> QED BY <1>2, <2>2 DEF Into
<1> QED BY <1>1, <1>2

\* Whatever a way starts in and no component leaves, the path stays in.
LEMMA WayStays ==
  ASSUME NEW path \in Seq(STRING), NEW T, Ns(Root) \in T,
         \A t \in T : \A sub : Into(t, sub) \in T
  PROVE  Reached(path) \in T
<1> DEFINE n == Len(path)
           w == Way(path)
           S == {i \in Nat : i <= n => w[i] \in T}
<1>1. n \in Nat
  BY LenProperties
<1>2. w[0] = Ns(Root) /\ \A i \in 1 .. n : w[i] = Into(w[i - 1], path[i])
  BY WayLeads DEF Leads
<1> HIDE DEF n, w
<1>3. 0 \in S
  BY <1>2
<1>4. ASSUME NEW k \in Nat, k \in S PROVE k + 1 \in S
  <2> SUFFICES ASSUME k + 1 <= n PROVE w[k + 1] \in T
    OBVIOUS
  <2>1. k + 1 \in 1 .. n /\ (k + 1) - 1 = k /\ w[k] \in T
    BY <1>1, <1>4
  <2>2. w[k + 1] = Into(w[k], path[k + 1])
    BY <1>2, <2>1
  <2> QED BY <2>1, <2>2
<1> HIDE DEF S
<1>5. n \in S
  BY <1>1, <1>3, <1>4, Induct
<1> QED BY <1>1, <1>5 DEF S, Reached, n, w

LEMMA ReachedReachable ==
  ASSUME Shape, NEW path \in Seq(STRING)
  PROVE  Reached(path) \in Reachable
<1>1. Ns(Root) \in Reachable /\ Things \cup {Undefined} \subseteq Reachable
  BY DEF Reachable
<1>2. \A t \in Reachable : \A sub : Into(t, sub) \in Reachable
  BY <1>1, IntoReachable
<1> QED BY <1>1, <1>2, WayStays

\* A file reaches the root, and what it has loaded.
Loaded == {t \in Things : t.of \in Range(loaded)}

LEMMA ReachedLoaded ==
  ASSUME Shape, \A n \in DOMAIN children[Root] : children[Root][n].of \in Range(loaded),
         NEW path \in Seq(STRING)
  PROVE  Reached(path) \in Loaded \cup {Ns(Root), Undefined}
<1> DEFINE T == Loaded \cup {Ns(Root), Undefined}
<1>1. ASSUME NEW t \in T, NEW sub PROVE Into(t, sub) \in T
  <2>1. t \in Reachable /\ Into(t, sub) \in Things \cup {Undefined}
    BY IntoReachable DEF Loaded, Reachable
  <2>2. CASE Into(t, sub) = Undefined
    BY <2>2
  <2>3. CASE Into(t, sub) # Undefined
    <3>1. t.kind = "namespace"
      BY <2>3 DEF Into
    <3>2. t.of \in Modules \cup {Root} /\ t # Undefined
      BY <2>1, <3>1, ReachableFacts, Records
    <3>3. Into(t, sub) = Get(t.of, sub)
      BY <2>3, <3>1, <3>2 DEF Into, Shape
    <3>4. CASE t.of = Root
      BY <2>1, <2>3, <3>3, <3>4 DEF Get, Loaded
    <3>5. CASE t.of \in Modules /\ t.of # Root
      <4>1. t \in Loaded
        BY <3>1, <3>5, Records
      <4>2. Into(t, sub).of = t.of
        BY <2>3, <3>3, <3>5, GetThings
      <4> QED BY <2>1, <2>3, <4>1, <4>2 DEF Loaded
    <3> QED BY <3>2, <3>4, <3>5
  <2> QED BY <2>2, <2>3
<1> HIDE DEF T
<1>2. Ns(Root) \in T
  BY DEF T
<1>3. Reached(path) \in T
  BY <1>1, <1>2, WayStays
<1> QED BY <1>3 DEF T

-----------------------------------------------------------------------------
(* A path goes on leading where it led *)

LEMMA GetKept ==
  ASSUME Shape, Shape', Grows, NEW ns \in Modules \cup {Root}, NEW n, Get(ns, n) # Undefined
  PROVE  Get(ns, n)' = Get(ns, n)
<1>1. n \in DOMAIN children[ns]
  BY DEF Get
<1>2. CASE ns = Root
  BY <1>1, <1>2 DEF Get, Grows
<1>3. CASE ns \in Modules
  BY <1>3 DEF Get, Shape
<1> QED BY <1>2, <1>3

\* Into, with the namespaces ch and their parents pa.
IntoIn(ch, pa, t, sub) ==
  IF t.kind # "namespace" THEN Undefined
  ELSE IF sub = Super THEN pa[t.of]
  ELSE IF sub \in DOMAIN ch[t.of] THEN ch[t.of][sub] ELSE Undefined

LEMMA IntoKept ==
  ASSUME Shape, Shape', Grows, NEW t \in Reachable, NEW sub, Into(t, sub) # Undefined
  PROVE  IntoIn(children', parent', t, sub) = Into(t, sub)
<1>1. t.kind = "namespace"
  BY DEF Into
<1>2. t.of \in Modules \cup {Root}
  BY <1>1, ReachableFacts
<1>3. sub # Super /\ Into(t, sub) = Get(t.of, sub)
  BY <1>1, <1>2 DEF Into, Shape
<1>4. Get(t.of, sub)' = Get(t.of, sub)
  BY <1>2, <1>3, GetKept
<1> QED BY <1>1, <1>3, <1>4 DEF IntoIn, Get

LEMMA WayLeadsNext == (\A path \in Seq(STRING) : Leads(Way(path), path, Len(path)))'
BY WayLeads, PTL

LEMMA ReachedKept ==
  ASSUME Shape, Shape', Grows, NEW path \in Seq(STRING), Reached(path) # Undefined
  PROVE  Reached(path)' = Reached(path)
<1> DEFINE n == Len(path)
           v == Way(path)
           w == Way(path)'
           S == {i \in Nat : i <= n => v[i] \in Reachable /\ (v[i] # Undefined => w[i] = v[i])}
<1>1. n \in Nat
  BY LenProperties
<1>2. v[0] = Ns(Root) /\ \A i \in 1 .. n : v[i] = Into(v[i - 1], path[i])
  BY WayLeads DEF Leads
<1>3. w[0] = Ns(Root) /\ \A i \in 1 .. n : w[i] = IntoIn(children', parent', w[i - 1], path[i])
  BY WayLeadsNext DEF Leads, Into, Get, IntoIn
<1> HIDE DEF n, v, w
<1>4. 0 \in S
  BY <1>2, <1>3 DEF Reachable
<1>5. ASSUME NEW k \in Nat, k \in S PROVE k + 1 \in S
  <2> SUFFICES ASSUME k + 1 <= n
               PROVE  v[k + 1] \in Reachable /\ (v[k + 1] # Undefined => w[k + 1] = v[k + 1])
    OBVIOUS
  <2>1. /\ k + 1 \in 1 .. n /\ (k + 1) - 1 = k
        /\ v[k] \in Reachable /\ (v[k] # Undefined => w[k] = v[k])
    BY <1>1, <1>5
  <2>2. v[k + 1] = Into(v[k], path[k + 1]) /\ w[k + 1] = IntoIn(children', parent', w[k], path[k + 1])
    BY <1>2, <1>3, <2>1
  <2>3. v[k + 1] \in Reachable
    BY <2>1, <2>2, IntoReachable DEF Reachable
  <2>4. ASSUME v[k + 1] # Undefined PROVE w[k + 1] = v[k + 1]
    <3>1. v[k] # Undefined
      BY <2>2, <2>4, Records DEF Into
    <3> QED BY <2>1, <2>2, <2>4, <3>1, IntoKept
  <2> QED BY <2>3, <2>4
<1> HIDE DEF S
<1>6. n \in S
  BY <1>1, <1>4, <1>5, Induct
<1> QED BY <1>1, <1>6 DEF S, Reached, n, v, w

-----------------------------------------------------------------------------
(* What a name means *)

LEMMA LookupFacts ==
  ASSUME Shape, NEW id \in Identifiers
  PROVE  /\ Lookup(id) \in Things \cup {Undefined, Thrown}
         /\ /\ Lookup(id) \in Things
            /\ \A n \in DOMAIN children[Root] : children[Root][n].of \in Range(loaded)
            => Lookup(id).of \in Range(loaded)
<1> DEFINE at == Reached(id.path)
<1>1. id.path \in Seq(STRING)
  BY IdentifiersAssumption
<1>2. at \in Reachable
  BY <1>1, ReachedReachable
<1>3. CASE Lookup(id) = Thrown
  BY <1>3, ReachableFacts DEF Reachable
<1>4. CASE Lookup(id) # Thrown
  <2>1. at.kind = "namespace" /\ Lookup(id) = Get(at.of, id.name)
    BY <1>4 DEF Lookup
  <2> HIDE DEF at
  <2>2. at.of \in Modules \cup {Root} /\ at = Ns(at.of)
    BY <1>2, <2>1, ReachableFacts
  <2>3. Lookup(id) \in Things \cup {Undefined}
    BY <2>1, <2>2, GetThings
  <2>4. ASSUME Lookup(id) \in Things,
               \A n \in DOMAIN children[Root] : children[Root][n].of \in Range(loaded)
        PROVE  Lookup(id).of \in Range(loaded)
    <3>1. Lookup(id) # Undefined
      BY <2>4, ReachableFacts
    <3>2. CASE at.of = Root
      BY <2>1, <2>4, <3>1, <3>2 DEF Get
    <3>3. CASE at.of \in Modules
      <4>1. Lookup(id).of = at.of
        BY <2>1, <3>1, <3>3, GetThings
      <4>2. at \in Loaded \cup {Ns(Root), Undefined}
        BY <1>1, <2>4, ReachedLoaded DEF at
      <4>3. at # Ns(Root) /\ at # Undefined
        BY <2>1, <3>3, Records, ModulesAssumption
      <4> QED BY <4>1, <4>2, <4>3 DEF Loaded
    <3> QED BY <2>2, <3>2, <3>3
  <2> QED BY <2>3, <2>4
<1> QED BY <1>3, <1>4

LEMMA ItemFacts ==
  ASSUME Shape, NEW id \in Identifiers, LookupItem(id).kind = "item"
  PROVE  LookupItem(id) = Lookup(id) /\ Lookup(id) \in Things
<1>1. LookupItem(id) = Lookup(id)
  BY Records DEF LookupItem
<1> QED BY <1>1, LookupFacts, Records

\* A name that means a command goes on meaning it.
LEMMA ItemKept ==
  ASSUME Shape, Shape', Grows, NEW id \in Identifiers, LookupItem(id).kind = "item"
  PROVE  LookupItem(id)' = LookupItem(id)
<1> DEFINE at == Reached(id.path)
<1>1. id.path \in Seq(STRING)
  BY IdentifiersAssumption
<1>2. Lookup(id) = LookupItem(id) /\ Lookup(id) \in Things
  BY ItemFacts
<1>3. /\ at.kind = "namespace" /\ Lookup(id) = Get(at.of, id.name)
      /\ ~(id.path # <<>> /\ id.absolute)
  BY <1>2, ReachableFacts DEF Lookup, Reachable
<1>4. at \in Reachable /\ at # Undefined
  BY <1>1, <1>3, ReachedReachable, Records
<1>5. PICK ns \in Modules \cup {Root} : at = Ns(ns)
  BY <1>3, <1>4, ReachableFacts
<1>6. Reached(id.path)' = Ns(ns)
  BY <1>1, <1>4, <1>5, ReachedKept
<1>7. Lookup(id) = Get(ns, id.name) /\ Get(ns, id.name) # Undefined
  BY <1>2, <1>3, <1>5, ReachableFacts, Records
<1>8. Get(ns, id.name)' = Lookup(id)
  BY <1>7, GetKept
<1>9. id.path # <<>> => Lookup(id).kind # "namespace"
  BY <1>2, Records
<1>10. Lookup(id)' = Lookup(id)
  <2> DEFINE x == Lookup(id)
  <2> HIDE DEF x
  <2>1. (IF id.name \in DOMAIN children'[ns] THEN children'[ns][id.name] ELSE Undefined) = x
    BY <1>8 DEF Get, x
  <2>2. (id.path # <<>> => ~id.absolute /\ x.kind # "namespace")
    BY <1>3, <1>9 DEF x
  <2>3. Lookup(id)' = x
    BY <1>6, <2>1, <2>2, Records DEF Lookup, Get
  <2> QED BY <2>3 DEF x
<1> QED BY <1>2, <1>10, Records DEF LookupItem

-----------------------------------------------------------------------------
(* The invariant *)

Counters ==
  /\ state \in {"idle", "running", "failed", "done"}
  /\ loaded \in Seq(Modules)
  /\ files \in 0 .. MaxFiles /\ calls \in 0 .. MaxCalls

Pending == [id : Identifiers, command : Things, square : BOOLEAN]
PendingOK ==
  /\ stack \in Seq(Pending) /\ Len(stack) <= MaxDepth
  /\ \A i \in 1 .. Len(stack) : stack[i].command.kind = "item"

LEMMA FrameFacts ==
  ASSUME PendingOK, NEW i \in 1 .. Len(stack)
  PROVE  /\ i \in DOMAIN stack /\ stack[i].id \in Identifiers
         /\ stack[i].command \in Things /\ stack[i].command.kind = "item"
<1>1. stack[i] \in Pending /\ DOMAIN stack = 1 .. Len(stack)
  BY ElementOfSeq, LenProperties DEF PendingOK
<1> QED BY <1>1 DEF PendingOK, Pending

\* What __using_all was given was a module.
WholeInv ==
  /\ UsingAllIsWhole
  /\ state = "running" /\ last.op = "using_all" => last.thing.of \in Modules

IInv ==
  /\ Shape /\ Counters /\ PendingOK
  /\ PendingCallsResolve /\ OnlyRequiredModules /\ WholeInv

LEMMA TypeFollows == IInv => TypeOK
<1> SUFFICES ASSUME IInv PROVE TypeOK
  OBVIOUS
<1>1. \A ns \in Modules \cup {Root} : \A n \in DOMAIN children[ns] : children[ns][n] \in Things
  <2> TAKE ns \in Modules \cup {Root}
  <2> TAKE n \in DOMAIN children[ns]
  <2>1. Get(ns, n) \in Things \cup {Undefined}
    BY GetThings DEF IInv
  <2>2. CASE ns = Root
    BY <2>2 DEF IInv, Shape
  <2>3. CASE ns \in Modules
    BY <2>3 DEF IInv, Shape, Things
  <2> QED BY <2>2, <2>3
<1>2. \A i \in DOMAIN stack : stack[i].command \in Things
  BY FrameFacts, LenProperties DEF IInv, PendingOK
<1>3. /\ \A m \in Modules : children[m] = [c \in Exports[m] |-> Item(m, c)]
      /\ DOMAIN parent = Modules \cup {Root}
  BY DEF IInv, Shape
<1> QED BY <1>1, <1>2, <1>3 DEF IInv, Counters, PendingOK, TypeOK

\* Free names are bound to things; the rest stays.
LEMMA BindFacts ==
  ASSUME Shape, NEW new, parent' = parent, children' = WithBindings(new),
         \A n \in DOMAIN new : n \notin DOMAIN children[Root] /\ new[n] \in Things
  PROVE  /\ Shape' /\ Grows
         /\ \A n \in DOMAIN children'[Root] :
              \/ n \in DOMAIN children[Root] /\ children'[Root][n] = children[Root][n]
              \/ n \in DOMAIN new /\ children'[Root][n] = new[n]
         /\ \A n \in DOMAIN new : n \in DOMAIN children'[Root] /\ children'[Root][n] = new[n]
<1> DEFINE old == children[Root]
           both == [n \in DOMAIN old \cup DOMAIN new |-> IF n \in DOMAIN new THEN new[n] ELSE old[n]]
<1>1. children' = [children EXCEPT ![Root] = both]
  BY DEF WithBindings
<1> HIDE DEF both
<1>2. children'[Root] = both /\ \A m \in Modules : children'[m] = children[m]
  BY <1>1, ModulesAssumption DEF Shape
<1>3. children' = [ns \in Modules \cup {Root} |-> children'[ns]]
  BY <1>1 DEF Shape
<1>4. /\ \A n \in DOMAIN both : (n \in DOMAIN old /\ both[n] = old[n]) \/ (n \in DOMAIN new /\ both[n] = new[n])
      /\ \A n \in DOMAIN new : n \in DOMAIN both /\ both[n] = new[n]
      /\ \A n \in DOMAIN old : n \in DOMAIN both /\ both[n] = old[n]
  BY DEF both
<1>5. Grows
  BY <1>2, <1>4 DEF Grows
<1>6. \A n \in DOMAIN both : both[n] \in Things
  BY <1>4 DEF Shape
<1>7. Shape'
  BY <1>2, <1>3, <1>6 DEF Shape, Things
<1> QED BY <1>2, <1>4, <1>5, <1>7

LEMMA StackPops ==
  ASSUME PendingOK, stack # <<>>, stack' = Front(stack)
  PROVE  /\ PendingOK'
         /\ \A i \in 1 .. Len(stack') : i \in 1 .. Len(stack) /\ stack'[i] = stack[i]
<1>1. Len(stack) \in Nat \ {0}
  BY EmptySeq, LenProperties DEF PendingOK
<1> DEFINE n == Len(stack) - 1
<1>2. stack' = SubSeq(stack, 1, n) /\ n \in Nat /\ n \in Int /\ 1 \in Int
  BY <1>1 DEF Front
<1>3. \A i \in 1 .. n : stack[i] \in Pending /\ i \in 1 .. Len(stack)
  BY <1>1, ElementOfSeq DEF PendingOK
<1> HIDE DEF n
<1>4. /\ stack' \in Seq(Pending) /\ Len(stack') = n
      /\ \A i \in 1 .. Len(stack') : i \in 1 .. Len(stack) /\ stack'[i] = stack[i]
  <2>1. /\ stack' \in Seq(Pending)
        /\ Len(stack') = IF 1 <= n THEN n - 1 + 1 ELSE 0
        /\ \A i \in 1 .. n - 1 + 1 : stack'[i] = stack[1 + i - 1]
    BY <1>2, <1>3, SubSeqProperties
  <2>2. Len(stack') = n /\ n - 1 + 1 = n
    BY <1>2, <2>1
  <2> QED BY <1>2, <1>3, <2>1, <2>2
<1>5. Len(stack') <= MaxDepth
  BY <1>1, <1>4, BoundsAssumption DEF PendingOK, n
<1>6. PendingOK'
  BY <1>4, <1>5 DEF PendingOK, Pending, Things
<1> QED BY <1>4, <1>6

\* Names that were found stay what they are found to be.
LEMMA ResolvesStill ==
  ASSUME Shape, Shape', Grows, PendingOK, PendingCallsResolve, PendingOK',
         \A i \in 1 .. Len(stack') : i \in 1 .. Len(stack) /\ stack'[i] = stack[i]
  PROVE  PendingCallsResolve'
<1> SUFFICES ASSUME NEW i \in DOMAIN stack' PROVE LookupItem(stack[i].id)' = stack'[i].command
  BY DEF PendingCallsResolve
<1>1. i \in 1 .. Len(stack) /\ stack'[i] = stack[i] /\ i \in DOMAIN stack
  BY LenProperties DEF PendingOK
<1>2. PICK id \in Identifiers : id = stack[i].id
  BY <1>1, FrameFacts
<1>3. LookupItem(id) = stack[i].command /\ LookupItem(id).kind = "item"
  BY <1>1, <1>2, FrameFacts DEF PendingCallsResolve
<1>4. LookupItem(id)' = stack[i].command
  BY <1>3, ItemKept
<1> QED BY <1>1, <1>2, <1>4

-----------------------------------------------------------------------------
(* The ways in which a command can end *)

LEMMA SameShape ==
  ASSUME Shape, UNCHANGED env
  PROVE  Shape' /\ Grows
BY DEF Shape, Grows, env, Things

LEMMA FailStep ==
  ASSUME IInv, Fail, files' = files, calls' \in 0 .. MaxCalls
  PROVE  IInv'
<1>1. Shape' /\ state' = "failed" /\ stack' = <<>> /\ loaded' = loaded
  BY SameShape DEF IInv, Fail, env
<1>2. Counters'
  BY <1>1 DEF IInv, Counters
<1>3. Len(stack') = 0 /\ DOMAIN stack' = {} /\ stack' \in Seq(Pending')
  BY <1>1, EmptySeq, LenProperties
<1>4. PendingOK' /\ PendingCallsResolve'
  BY <1>3, BoundsAssumption DEF PendingOK, PendingCallsResolve
<1>5. OnlyRequiredModules' /\ WholeInv'
  BY <1>1 DEF OnlyRequiredModules, WholeInv, UsingAllIsWhole
<1> QED BY <1>1, <1>2, <1>4, <1>5 DEF IInv

\* Every call that is pending after a step was pending before.
LEMMA StackShrinks ==
  ASSUME IInv, Shape', Grows, PendingOK',
         \A i \in 1 .. Len(stack') : i \in 1 .. Len(stack) /\ stack'[i] = stack[i]
  PROVE  /\ PendingCallsResolve'
         /\ OnlyRequiredModules /\ state = "running" =>
              \A i \in DOMAIN stack' : stack'[i].command.of \in Range(loaded)
<1>1. PendingCallsResolve'
  BY ResolvesStill DEF IInv
<1>2. DOMAIN stack' = 1 .. Len(stack') /\ DOMAIN stack = 1 .. Len(stack)
  BY LenProperties DEF PendingOK, IInv
<1> QED BY <1>1, <1>2 DEF OnlyRequiredModules

\* Nothing is bound, and the file goes on with fewer calls.
LEMMA QuietStep ==
  ASSUME IInv, UNCHANGED <<env, last, files, calls>>, PendingOK', state = "running",
         state' \in {"running", "failed", "done"},
         \A i \in 1 .. Len(stack') : i \in 1 .. Len(stack) /\ stack'[i] = stack[i]
  PROVE  IInv'
<1>1. Shape' /\ Grows /\ children' = children /\ loaded' = loaded
  BY SameShape DEF IInv, env
<1>2. Counters'
  BY <1>1 DEF IInv, Counters
<1>3. PendingCallsResolve' /\ OnlyRequiredModules'
  BY <1>1, StackShrinks DEF IInv, OnlyRequiredModules
<1>4. WholeInv'
  BY <1>1 DEF IInv, WholeInv, UsingAllIsWhole, Get, Item
<1> QED BY <1>1, <1>2, <1>3, <1>4 DEF IInv

LEMMA ReturnsFacts ==
  ASSUME PendingOK, stack # <<>>, NEW n, Returns(n)
  PROVE  /\ PendingOK' /\ state' \in {"running", "failed"}
         /\ \A i \in 1 .. Len(stack') : i \in 1 .. Len(stack) /\ stack'[i] = stack[i]
BY StackPops DEF Returns

\* The things of new are bound to free names.
LEMMA BindStep ==
  ASSUME IInv, NEW new, parent' = parent, children' = WithBindings(new),
         state = "running", stack # <<>>, Returns(0), files' = files, calls' = calls,
         loaded' \in Seq(Modules), Range(loaded) \subseteq Range(loaded'),
         \A n \in DOMAIN new :
           n \notin DOMAIN children[Root] /\ new[n] \in Things /\ new[n].of \in Range(loaded'),
         last'.op = "using_all" =>
           /\ last'.thing.of \in Modules
           /\ \A c \in Exports[last'.thing.of] :
                /\ last'.name \o c \in DOMAIN new
                /\ new[last'.name \o c] = Item(last'.thing.of, c)
  PROVE  IInv' /\ Grows
<1>1. /\ Shape' /\ Grows
      /\ \A n \in DOMAIN children'[Root] :
           \/ n \in DOMAIN children[Root] /\ children'[Root][n] = children[Root][n]
           \/ n \in DOMAIN new /\ children'[Root][n] = new[n]
      /\ \A n \in DOMAIN new : n \in DOMAIN children'[Root] /\ children'[Root][n] = new[n]
  BY BindFacts DEF IInv
<1>2. /\ PendingOK' /\ state' \in {"running", "failed"}
      /\ \A i \in 1 .. Len(stack') : i \in 1 .. Len(stack) /\ stack'[i] = stack[i]
  BY ReturnsFacts DEF IInv
<1>3. Counters'
  BY <1>2 DEF IInv, Counters
<1>4. PendingCallsResolve' /\ \A i \in DOMAIN stack' : stack'[i].command.of \in Range(loaded)
  BY <1>1, <1>2, StackShrinks DEF IInv
<1>5. \A n \in DOMAIN children'[Root] : children'[Root][n].of \in Range(loaded')
  BY <1>1 DEF IInv, OnlyRequiredModules
<1>6. OnlyRequiredModules'
  BY <1>4, <1>5 DEF OnlyRequiredModules
<1>7. WholeInv'
  BY <1>1 DEF WholeInv, UsingAllIsWhole, Get, Item
<1> QED BY <1>1, <1>2, <1>3, <1>4, <1>6, <1>7 DEF IInv

-----------------------------------------------------------------------------
(* The actions *)

LEMMA InitOK == Init => IInv
<1> SUFFICES ASSUME Init PROVE IInv
  OBVIOUS
<1>1. /\ children = [ns \in Modules \cup {Root} |-> children[ns]]
      /\ parent = [ns \in Modules \cup {Root} |-> Undefined]
      /\ \A m \in Modules : children[m] = [c \in Exports[m] |-> Item(m, c)]
      /\ children[Root] = <<>>
  BY ModulesAssumption DEF Init
<1>2. DOMAIN children[Root] = {}
  <2>1. DOMAIN <<>> = {}
    BY LenProperties, EmptySeq
  <2> QED BY <1>1, <2>1
<1>3. Shape
  BY <1>1, <1>2 DEF Shape
<1>4. Counters /\ PendingOK /\ DOMAIN stack = {}
  <2>1. <<>> \in Seq(Modules) /\ <<>> \in Seq(Pending) /\ Len(<<>>) = 0 /\ DOMAIN <<>> = {}
    BY EmptySeq, LenProperties
  <2> QED BY <2>1, BoundsAssumption DEF Init, Counters, PendingOK
<1>5. OnlyRequiredModules /\ WholeInv /\ PendingCallsResolve
  BY <1>4 DEF Init, OnlyRequiredModules, WholeInv, UsingAllIsWhole, PendingCallsResolve
<1> QED BY <1>3, <1>4, <1>5 DEF IInv

\* Appending adds to the range.
LEMMA LoadedMore ==
  ASSUME NEW s \in Seq(Modules), NEW m \in Modules
  PROVE  /\ Append(s, m) \in Seq(Modules) /\ m \in Range(Append(s, m))
         /\ Range(s) \subseteq Range(Append(s, m))
<1> DEFINE t == Append(s, m)
<1>1. /\ t \in Seq(Modules) /\ Len(t) = Len(s) + 1 /\ Len(s) \in Nat
      /\ \A i \in 1 .. Len(s) : t[i] = s[i]
      /\ t[Len(s) + 1] = m
  BY AppendProperties, LenProperties
<1>2. DOMAIN t = 1 .. Len(t) /\ DOMAIN s = 1 .. Len(s)
  BY <1>1, LenProperties
<1> HIDE DEF t
<1>3. m \in Range(t)
  <2>1. Len(s) + 1 \in DOMAIN t
    BY <1>1, <1>2
  <2> QED BY <1>1, <2>1 DEF Range
<1>4. \A i \in DOMAIN s : i \in DOMAIN t /\ t[i] = s[i]
  BY <1>1, <1>2
<1>5. Range(s) \subseteq Range(t)
  BY <1>4 DEF Range
<1> QED BY <1>1, <1>3, <1>5 DEF t

LEMMA StartFileStep ==
  ASSUME IInv, StartFile
  PROVE  IInv'
<1>1. /\ files' = files + 1 /\ calls' = 0 /\ last' = NoCall /\ stack' = <<>>
      /\ files < MaxFiles
  BY DEF StartFile
<1>2. <<>> \in Seq(Pending') /\ Len(<<>>) = 0 /\ DOMAIN <<>> = {}
  BY EmptySeq, LenProperties
<1>3. PendingOK' /\ DOMAIN stack' = {}
  BY <1>1, <1>2, BoundsAssumption DEF PendingOK
<1>4. files' \in 0 .. MaxFiles /\ calls' \in 0 .. MaxCalls
  BY <1>1, BoundsAssumption DEF IInv, Counters
<1>5. PendingCallsResolve' /\ WholeInv'
  BY <1>1, <1>3 DEF PendingCallsResolve, WholeInv, UsingAllIsWhole, NoCall
<1>6. CASE Core \notin Modules
  <2>1. state' = "failed" /\ UNCHANGED env
    BY <1>6 DEF StartFile
  <2>2. Shape' /\ Counters' /\ OnlyRequiredModules'
    BY <1>4, <2>1, SameShape DEF IInv, Counters, OnlyRequiredModules, env
  <2> QED BY <1>3, <1>5, <2>2 DEF IInv
<1>7. CASE Core \in Modules
  <2>1. /\ state' = "running" /\ children' = [children EXCEPT ![Root] = Fresh]
        /\ loaded' = <<Core>> /\ parent' = parent
    BY <1>7 DEF StartFile
  <2>2. children'[Root] = Fresh /\ \A m \in Modules : children'[m] = children[m]
    BY <2>1, ModulesAssumption DEF IInv, Shape
  <2>3. \A n \in DOMAIN Fresh : Fresh[n] \in Things /\ Fresh[n].of = Core
    <3>1. Ns(Core) \in Things /\ Ns(Core).of = Core
      BY <1>7, Records DEF Things
    <3>2. \A n \in DefaultUse : Get(Core, n) \in Things /\ Get(Core, n).of = Core
      <4> TAKE n \in DefaultUse
      <4>1. n \in Exports[Core]
        BY <1>7, CoreAssumption
      <4>2. Get(Core, n) = Item(Core, n)
        BY <1>7, <4>1 DEF IInv, Shape, Get
      <4> QED BY <1>7, <4>1, <4>2, Records DEF Things
    <3> QED BY <3>1, <3>2 DEF Fresh
  <2>4. children' = [ns \in Modules \cup {Root} |-> children'[ns]]
    BY <2>1 DEF IInv, Shape
  <2>5. Shape'
    BY <2>1, <2>2, <2>3, <2>4 DEF IInv, Shape, Things
  <2>6. loaded' \in Seq(Modules) /\ Core \in Range(loaded')
    BY <1>7, <2>1 DEF Range
  <2>7. Counters' /\ OnlyRequiredModules'
    BY <1>3, <1>4, <2>1, <2>2, <2>3, <2>6 DEF Counters, OnlyRequiredModules
  <2> QED BY <1>3, <1>5, <2>5, <2>7 DEF IInv
<1> QED BY <1>6, <1>7

LEMMA EnterStep ==
  ASSUME IInv, NEW id \in Identifiers, NEW square \in BOOLEAN, Enter(id, square)
  PROVE  IInv' /\ (state' # "failed" => Grows)
<1>1. /\ state = "running" /\ calls < MaxCalls /\ Len(stack) < MaxDepth
      /\ calls' = calls + 1 /\ last' = last /\ files' = files
  BY DEF Enter
<1>2. calls' \in 0 .. MaxCalls
  BY <1>1, BoundsAssumption DEF IInv, Counters
<1>3. CASE LookupItem(id).kind # "item"
  <2>1. Fail
    BY <1>3 DEF Enter
  <2> QED BY <1>1, <1>2, <2>1, FailStep DEF Fail
<1>4. CASE LookupItem(id).kind = "item"
  <2> DEFINE call == [id |-> id, command |-> LookupItem(id), square |-> square]
  <2>1. stack' = Append(stack, call) /\ state' = state /\ UNCHANGED env
    BY <1>4 DEF Enter
  <2>2. LookupItem(id) \in Things /\ LookupItem(id) = Lookup(id)
    BY <1>4, ItemFacts DEF IInv
  <2>3. call \in Pending
    BY <2>2 DEF Pending
  <2>4. call.id = id /\ call.command = LookupItem(id)
    OBVIOUS
  <2> HIDE DEF call
  <2>5. /\ stack' \in Seq(Pending) /\ Len(stack') = Len(stack) + 1 /\ Len(stack) \in Nat
        /\ \A i \in 1 .. Len(stack) : stack'[i] = stack[i]
        /\ stack'[Len(stack) + 1] = call
        /\ DOMAIN stack' = 1 .. Len(stack') /\ DOMAIN stack = 1 .. Len(stack)
    BY <2>1, <2>3, AppendProperties, LenProperties DEF IInv, PendingOK
  <2>6. \A i \in DOMAIN stack' : i \in 1 .. Len(stack) \/ stack'[i] = call
    BY <2>5
  <2>7. PendingOK'
    <3>1. Len(stack') <= MaxDepth
      BY <1>1, <2>5, BoundsAssumption
    <3>2. \A i \in 1 .. Len(stack') : stack'[i].command.kind = "item"
      BY <1>4, <2>4, <2>5, <2>6 DEF IInv, PendingOK
    <3> QED BY <2>5, <3>1, <3>2 DEF PendingOK, Pending, Things
  <2>8. Shape' /\ Grows /\ children' = children /\ loaded' = loaded
    BY <2>1, SameShape DEF IInv, env
  <2>9. PendingCallsResolve'
    <3> SUFFICES ASSUME NEW i \in DOMAIN stack'
                 PROVE  LookupItem(stack[i].id)' = stack'[i].command
      BY DEF PendingCallsResolve
    <3>1. PICK x \in Identifiers : x = stack'[i].id
      BY <2>4, <2>5, <2>6, FrameFacts DEF IInv
    <3>2. LookupItem(x) = stack'[i].command /\ LookupItem(x).kind = "item"
      <4>1. CASE i \in 1 .. Len(stack)
        BY <2>5, <3>1, <4>1, FrameFacts DEF IInv, PendingCallsResolve
      <4>2. CASE stack'[i] = call
        BY <1>4, <2>4, <3>1, <4>2
      <4> QED BY <2>6, <4>1, <4>2
    <3>3. LookupItem(x)' = stack'[i].command
      BY <2>8, <3>2, ItemKept DEF IInv
    <3> QED BY <3>1, <3>3
  <2>10. OnlyRequiredModules'
    <3>1. Lookup(id).of \in Range(loaded)
      BY <1>1, <2>2, LookupFacts DEF IInv, OnlyRequiredModules
    <3> QED BY <1>1, <2>4, <2>5, <2>6, <2>2, <2>8, <3>1 DEF IInv, OnlyRequiredModules
  <2>11. WholeInv' /\ Counters'
    BY <1>1, <1>2, <2>1, <2>8 DEF IInv, WholeInv, UsingAllIsWhole, Get, Item, Counters
  <2> QED BY <2>7, <2>8, <2>9, <2>10, <2>11 DEF IInv
<1> QED BY <1>3, <1>4

LEMMA RequireStep ==
  ASSUME IInv, NEW m, Require(m)
  PROVE  IInv' /\ (state' # "failed" => Grows)
<1>1. /\ state = "running" /\ stack # <<>> /\ files' = files /\ calls' = calls
      /\ last'.op = "require"
  BY DEF Require, Calling, Did
<1>2. CASE ~(m \in Modules /\ AddChild(m).ok)
  <2>1. Fail
    BY <1>2 DEF Require
  <2> QED BY <1>1, <2>1, FailStep DEF Fail, IInv, Counters
<1>3. CASE m \in Modules /\ AddChild(m).ok
  <2> DEFINE new == [n \in {m} |-> Ns(m)]
  <2>1. /\ loaded' = Append(loaded, m) /\ children' = WithBindings(new)
        /\ parent' = [parent EXCEPT ![m] = AddChild(m).parent] /\ Returns(0)
    BY <1>3 DEF Require
  <2>2. parent' = parent
    BY <1>3, <2>1 DEF AddChild, IInv, Shape
  <2>3. m \notin DOMAIN children[Root]
    BY <1>3 DEF AddChild, Free
  <2>4. loaded' \in Seq(Modules) /\ m \in Range(loaded') /\ Range(loaded) \subseteq Range(loaded')
    BY <1>3, <2>1, LoadedMore DEF IInv, Counters
  <2>5. Ns(m) \in Things /\ Ns(m).of = m
    BY <1>3, Records DEF Things
  <2>6. \A n \in DOMAIN new :
          n \notin DOMAIN children[Root] /\ new[n] \in Things /\ new[n].of \in Range(loaded')
    BY <2>3, <2>4, <2>5
  <2> HIDE DEF new
  <2> QED BY <1>1, <2>1, <2>2, <2>4, <2>6, BindStep
<1> QED BY <1>2, <1>3

LEMMA UsingStep ==
  ASSUME IInv, NEW id \in Identifiers, NEW as, Using(id, as)
  PROVE  IInv' /\ (state' # "failed" => Grows)
<1>1. /\ state = "running" /\ stack # <<>> /\ files' = files /\ calls' = calls
      /\ last'.op = "using"
  BY DEF Using, Calling, Did
<1>2. CASE ~(Exists(Lookup(id)) /\ CanUse(as, Lookup(id)))
  <2>1. Fail
    BY <1>2 DEF Using
  <2> QED BY <1>1, <2>1, FailStep DEF Fail, IInv, Counters
<1>3. CASE Exists(Lookup(id)) /\ CanUse(as, Lookup(id))
  <2> DEFINE t == Lookup(id)
             new == [n \in {as} |-> t]
  <2>1. /\ children' = WithBindings(new) /\ parent' = parent /\ loaded' = loaded /\ Returns(0)
    BY <1>3 DEF Using
  <2>2. as \notin DOMAIN children[Root]
    BY <1>3 DEF CanUse, Free
  <2>3. t \in Things /\ t.of \in Range(loaded)
    <3>1. t # Undefined /\ t # Thrown
      BY <1>3, Records DEF Exists
    <3>2. t \in Things
      BY <3>1, LookupFacts DEF IInv
    <3> QED BY <1>1, <3>2, LookupFacts DEF IInv, OnlyRequiredModules
  <2> HIDE DEF t
  <2>4. \A n \in DOMAIN new :
          n \notin DOMAIN children[Root] /\ new[n] \in Things /\ new[n].of \in Range(loaded')
    BY <2>1, <2>2, <2>3
  <2>5. loaded' \in Seq(Modules) /\ Range(loaded) \subseteq Range(loaded')
    BY <2>1 DEF IInv, Counters
  <2> HIDE DEF new
  <2> QED BY <1>1, <2>1, <2>4, <2>5, BindStep
<1> QED BY <1>2, <1>3

\* A name with a prefix is bound to the command that has the name.
LEMMA ImportedFacts ==
  ASSUME Shape, NEW from \in Modules, NEW prefix \in PrefixIns
  PROVE  /\ \A n \in DOMAIN Imported(from, prefix) :
              /\ Imported(from, prefix)[n] \in Things
              /\ Imported(from, prefix)[n].of = from
         /\ \A c \in Exports[from] :
              /\ prefix \o c \in DOMAIN Imported(from, prefix)
              /\ Imported(from, prefix)[prefix \o c] = Item(from, c)
<1> DEFINE names == DOMAIN children[from]
           new == Imported(from, prefix)
<1>1. names = Exports[from] /\ \A c \in names : children[from][c] = Item(from, c)
  BY DEF Shape
<1>2. ASSUME NEW c \in Exports[from]
      PROVE  prefix \o c \in DOMAIN new /\ new[prefix \o c] = Item(from, c)
  <2> DEFINE n == prefix \o c
  <2>1. n \in DOMAIN new /\ new[n] = children[from][CHOOSE k \in names : prefix \o k = n]
    BY <1>1, <1>2 DEF Imported
  <2>2. \A k \in names : prefix \o k = n => k = c
    BY <1>1, <1>2, PrefixAssumption
  <2>3. (CHOOSE k \in names : prefix \o k = n) = c
    BY <1>1, <1>2, <2>2
  <2> QED BY <1>1, <1>2, <2>1, <2>3
<1>3. ASSUME NEW n \in DOMAIN new PROVE new[n] \in Things /\ new[n].of = from
  <2>1. PICK c \in Exports[from] : n = prefix \o c
    BY <1>1, <1>3 DEF Imported
  <2> QED BY <1>2, <2>1, Records DEF Things
<1> QED BY <1>2, <1>3

LEMMA UsingAllStep ==
  ASSUME IInv, NEW id \in Identifiers, NEW prefix \in PrefixIns, UsingAll(id, prefix)
  PROVE  IInv' /\ (state' # "failed" => Grows)
<1> DEFINE t == Lookup(id)
           new == Imported(t.of, prefix)
           Can == t.kind = "namespace" /\ \A n \in DOMAIN new : CanUse(n, new[n])
<1>1. /\ state = "running" /\ stack # <<>> /\ files' = files /\ calls' = calls
      /\ last' = [op |-> "using_all", name |-> prefix, thing |-> t]
  BY DEF UsingAll, Calling, Did
<1>2. CASE ~Can
  <2>1. Fail
    BY <1>2 DEF UsingAll
  <2> QED BY <1>1, <2>1, FailStep DEF Fail, IInv, Counters
<1>3. CASE Can
  <2>1. /\ children' = WithBindings(new) /\ parent' = parent /\ loaded' = loaded /\ Returns(0)
    BY <1>3 DEF UsingAll
  <2>2. t \in Things /\ t.of \in Range(loaded) /\ t.of \in Modules
    <3>1. t # Undefined /\ t # Thrown
      BY <1>3, Records
    <3>2. t \in Things
      BY <3>1, LookupFacts DEF IInv
    <3> QED BY <1>1, <3>2, LookupFacts, ThingFacts DEF IInv, OnlyRequiredModules
  <2>3. \A n \in DOMAIN new : n \notin DOMAIN children[Root]
    BY <1>3 DEF CanUse, Free
  <2>4. loaded' \in Seq(Modules) /\ Range(loaded) \subseteq Range(loaded')
    BY <2>1 DEF IInv, Counters
  <2>5. last'.thing.of = t.of /\ last'.name = prefix /\ last'.op = "using_all"
    BY <1>1
  <2> DEFINE m == t.of
  <2> HIDE DEF t, m
  <2>6. m \in Modules /\ m \in Range(loaded') /\ last'.thing.of = m
    BY <2>1, <2>2, <2>5 DEF m
  <2>7. /\ \A n \in DOMAIN Imported(m, prefix) :
              /\ Imported(m, prefix)[n] \in Things
              /\ Imported(m, prefix)[n].of = m
        /\ \A c \in Exports[m] :
              /\ prefix \o c \in DOMAIN Imported(m, prefix)
              /\ Imported(m, prefix)[prefix \o c] = Item(m, c)
    BY <2>6, ImportedFacts DEF IInv
  <2>8. new = Imported(m, prefix)
    BY DEF m
  <2> HIDE DEF new
  <2>9. \A n \in DOMAIN new :
          n \notin DOMAIN children[Root] /\ new[n] \in Things /\ new[n].of \in Range(loaded')
    BY <2>3, <2>6, <2>7, <2>8
  <2>10. \A c \in Exports[last'.thing.of] :
           /\ last'.name \o c \in DOMAIN new
           /\ new[last'.name \o c] = Item(last'.thing.of, c)
    BY <2>5, <2>6, <2>7, <2>8
  <2> QED BY <1>1, <2>1, <2>4, <2>6, <2>9, <2>10, BindStep
<1> QED BY <1>2, <1>3

\* Every step keeps the invariant, and one within a file keeps what it binds.
LEMMA EveryStep ==
  ASSUME IInv, [Next]_vars
  PROVE  IInv' /\ (state = "running" /\ state' # "failed" => Grows)
<1>1. CASE StartFile
  BY <1>1, StartFileStep DEF StartFile
<1>2. CASE FinishFile
  BY <1>2, QuietStep, SameShape DEF FinishFile, IInv, PendingOK, Pending, Things
<1>3. CASE Throw
  BY <1>3, FailStep DEF Throw, Fail, IInv, Counters
<1>4. ASSUME NEW id \in Identifiers, NEW square \in BOOLEAN, Enter(id, square)
      PROVE  IInv' /\ (state' # "failed" => Grows)
  BY <1>4, EnterStep
<1>5. ASSUME NEW m \in Required, Require(m) PROVE IInv' /\ (state' # "failed" => Grows)
  BY <1>5, RequireStep
<1>6. ASSUME NEW id \in Identifiers, NEW as \in Aliases, Using(id, as)
      PROVE  IInv' /\ (state' # "failed" => Grows)
  BY <1>6, UsingStep
<1>7. ASSUME NEW id \in Identifiers, NEW prefix \in PrefixIns, UsingAll(id, prefix)
      PROVE  IInv' /\ (state' # "failed" => Grows)
  BY <1>7, UsingAllStep
<1>8. ASSUME NEW n \in 0 .. 2, Call(n) PROVE IInv' /\ Grows
  <2>1. Returns(n) /\ state = "running" /\ stack # <<>> /\ UNCHANGED <<env, last, files, calls>>
    BY <1>8 DEF Call
  <2> QED BY <2>1, ReturnsFacts, QuietStep, SameShape DEF IInv
<1>9. CASE UNCHANGED vars
  <2>1. Shape' /\ Grows
    BY <1>9, SameShape DEF IInv, vars
  <2>2. /\ children' = children /\ loaded' = loaded /\ stack' = stack /\ state' = state
        /\ last' = last /\ files' = files /\ calls' = calls
    BY <1>9 DEF vars, env
  <2>3. PendingOK' /\ Counters' /\ OnlyRequiredModules'
    BY <2>2 DEF IInv, PendingOK, Pending, Things, Counters, OnlyRequiredModules
  <2>4. PendingCallsResolve'
    BY <2>1, <2>2, <2>3, ResolvesStill DEF IInv
  <2>5. WholeInv'
    BY <2>2 DEF IInv, WholeInv, UsingAllIsWhole, Get, Item
  <2> QED BY <2>1, <2>3, <2>4, <2>5 DEF IInv
<1> QED BY <1>1, <1>2, <1>3, <1>4, <1>5, <1>6, <1>7, <1>8, <1>9 DEF Next

-----------------------------------------------------------------------------

\* The inductive invariant of the evaluator, for every registry and documents
\* of any length and nesting.
THEOREM Coherent == Spec => []IInv
<1>1. IInv /\ [Next]_vars => IInv'
  BY EveryStep
<1> QED BY InitOK, <1>1, PTL DEF Spec

\* Type correctness: what a name is bound to is a command or a namespace.
THEOREM TypeCorrect == Spec => []TypeOK
BY Coherent, TypeFollows, PTL

\* A command that is looked up before its arguments are evaluated is still
\* what its name means when it is called after.
THEOREM PendingResolve == Spec => []PendingCallsResolve
<1>1. IInv => PendingCallsResolve
  BY DEF IInv
<1> QED BY Coherent, <1>1, PTL

\* Files reach nothing that they have not required, though the namespaces of
\* the modules are shared by all of them.
THEOREM OnlyRequiredReached == Spec => []OnlyRequiredModules
<1>1. IInv => OnlyRequiredModules
  BY DEF IInv
<1> QED BY Coherent, <1>1, PTL

\* __using_all imports all of a namespace, or the file fails.
THEOREM UsingAllImportsAll == Spec => []UsingAllIsWhole
<1>1. IInv => UsingAllIsWhole
  BY DEF IInv, WholeInv
<1> QED BY Coherent, <1>1, PTL

\* A name means one thing throughout a file.
THEOREM NamesKeepMeaning == Spec => NothingRebound
<1>1. IInv /\ [Next]_vars =>
        (state = "running" /\ state' # "failed" =>
           \A n \in DOMAIN children[Root] :
             n \in DOMAIN children'[Root] /\ children'[Root][n] = children[Root][n])
  BY EveryStep DEF Grows
<1> QED BY Coherent, <1>1, PTL DEF NothingRebound, Spec

\* Requiring a registered module fails only over a name of the file itself.
THEOREM FilesStayIndependent == Spec => FilesIndependent
<1>1. \A m \in (Required \cap Modules) \ {Super} :
        Require(m) /\ state' = "failed" /\ ~Last(stack).square => m \in DOMAIN children[Root]
  <2> SUFFICES ASSUME NEW m \in (Required \cap Modules) \ {Super},
                      Require(m), state' = "failed", ~Last(stack).square
               PROVE  m \in DOMAIN children[Root]
    OBVIOUS
  <2>1. ~AddChild(m).ok
    BY DEF Require, Returns
  <2> QED BY <2>1 DEF AddChild, Free
<1> QED BY <1>1, PTL DEF FilesIndependent, Spec

-----------------------------------------------------------------------------
(* FileScope is implemented: each step of the evaluator is one of its steps, *)
(* or changes nothing that it speaks of                                      *)

CommandsOf(s) == [i \in DOMAIN s |-> s[i].command]

\* The commands of a stack are a sequence that grows and shrinks with it.
LEMMA CommandsFacts ==
  ASSUME NEW s \in Seq(Pending)
  PROVE  /\ CommandsOf(s) \in Seq(Things) /\ Len(CommandsOf(s)) = Len(s)
         /\ DOMAIN CommandsOf(s) = 1 .. Len(s) /\ DOMAIN s = 1 .. Len(s) /\ Len(s) \in Nat
         /\ \A i \in 1 .. Len(s) : CommandsOf(s)[i] = s[i].command
<1> DEFINE n == Len(s)
           c == CommandsOf(s)
<1>1. n \in Nat /\ DOMAIN s = 1 .. n /\ \A i \in 1 .. n : s[i] \in Pending
  BY LenProperties, ElementOfSeq
<1>2. c = [i \in 1 .. n |-> s[i].command]
  BY <1>1 DEF CommandsOf
<1>3. \A i \in 1 .. n : s[i].command \in Things
  BY <1>1 DEF Pending
<1> HIDE DEF n, c
<1>4. c \in [1 .. n -> Things] /\ DOMAIN c = 1 .. n
  BY <1>2, <1>3
<1>5. c \in Seq(Things)
  BY <1>1, <1>4
<1>6. Len(c) = n
  BY <1>1, <1>4, <1>5, LenProperties
<1> QED BY <1>1, <1>2, <1>4, <1>5, <1>6 DEF n, c

LEMMA NothingPending == CommandsOf(<<>>) = <<>>
<1>1. <<>> \in Seq(Pending) /\ Len(<<>>) = 0
  BY EmptySeq, LenProperties
<1>2. CommandsOf(<<>>) \in Seq(Things) /\ Len(CommandsOf(<<>>)) = 0
  BY <1>1, CommandsFacts
<1> QED BY <1>2, EmptySeq

LEMMA CommandsPushed ==
  ASSUME NEW s \in Seq(Pending), NEW f \in Pending
  PROVE  CommandsOf(Append(s, f)) = Append(CommandsOf(s), f.command)
<1> DEFINE n == Len(s)
           t == Append(s, f)
           a == CommandsOf(t)
           b == Append(CommandsOf(s), f.command)
<1>1. n \in Nat /\ f.command \in Things
  BY LenProperties DEF Pending
<1>2. t \in Seq(Pending) /\ Len(t) = n + 1 /\ (\A i \in 1 .. n : t[i] = s[i]) /\ t[n + 1] = f
  BY AppendProperties
<1>3. /\ a \in Seq(Things) /\ Len(a) = n + 1
      /\ \A i \in 1 .. n + 1 : a[i] = t[i].command
  BY <1>2, CommandsFacts
<1>4. /\ b \in Seq(Things) /\ Len(b) = n + 1 /\ b[n + 1] = f.command
      /\ \A i \in 1 .. n : b[i] = s[i].command
  BY <1>1, CommandsFacts, AppendProperties
<1> HIDE DEF n, t, a, b
<1>5. \A i \in 1 .. n + 1 : a[i] = b[i]
  <2> TAKE i \in 1 .. n + 1
  <2>1. CASE i = n + 1
    BY <1>1, <1>2, <1>3, <1>4, <2>1
  <2>2. CASE i \in 1 .. n
    BY <1>2, <1>3, <1>4, <2>2
  <2> QED BY <1>1, <2>1, <2>2
<1>6. a = b
  BY <1>3, <1>4, <1>5, SeqEqual
<1> QED BY <1>6 DEF a, b, t

LEMMA CommandsPopped ==
  ASSUME NEW s \in Seq(Pending), s # <<>>
  PROVE  /\ CommandsOf(s) # <<>>
         /\ CommandsOf(Front(s)) = Front(CommandsOf(s))
         /\ Last(CommandsOf(s)) = Last(s).command
<1> DEFINE n == Len(s) - 1
           c == CommandsOf(s)
           t == Front(s)
           a == CommandsOf(t)
           b == Front(c)
<1>1. n \in Nat /\ Len(s) = n + 1 /\ n \in Int /\ 1 \in Int
  BY EmptySeq, LenProperties
<1>2. c \in Seq(Things) /\ Len(c) = n + 1 /\ \A i \in 1 .. n + 1 : c[i] = s[i].command
  BY <1>1, CommandsFacts
<1>3. c # <<>> /\ Last(c) = Last(s).command
  BY <1>1, <1>2, EmptySeq DEF Last
<1>4. \A i \in 1 .. n : s[i] \in Pending /\ c[i] \in Things
  BY <1>1, <1>2, ElementOfSeq
<1> HIDE DEF c
<1>5. t = SubSeq(s, 1, n) /\ b = SubSeq(c, 1, n)
  BY <1>1, <1>2 DEF Front
<1> HIDE DEF n, t, b
<1>6. t \in Seq(Pending) /\ Len(t) = n /\ \A i \in 1 .. n : t[i] = s[i]
  <2>1. /\ t \in Seq(Pending)
        /\ Len(t) = IF 1 <= n THEN n - 1 + 1 ELSE 0
        /\ \A i \in 1 .. n - 1 + 1 : t[i] = s[1 + i - 1]
    BY <1>1, <1>4, <1>5, SubSeqProperties
  <2>2. n - 1 + 1 = n /\ \A i \in 1 .. n : 1 + i - 1 = i
    BY <1>1
  <2> QED BY <1>1, <2>1, <2>2
<1>7. b \in Seq(Things) /\ Len(b) = n /\ \A i \in 1 .. n : b[i] = c[i]
  <2>1. /\ b \in Seq(Things)
        /\ Len(b) = IF 1 <= n THEN n - 1 + 1 ELSE 0
        /\ \A i \in 1 .. n - 1 + 1 : b[i] = c[1 + i - 1]
    BY <1>1, <1>2, <1>4, <1>5, SubSeqProperties
  <2>2. n - 1 + 1 = n /\ \A i \in 1 .. n : 1 + i - 1 = i
    BY <1>1
  <2> QED BY <1>1, <2>1, <2>2
<1>8. a \in Seq(Things) /\ Len(a) = n /\ \A i \in 1 .. n : a[i] = t[i].command
  BY <1>6, CommandsFacts
<1>9. \A i \in 1 .. n : a[i] = b[i]
  BY <1>1, <1>2, <1>6, <1>7, <1>8
<1>10. a = b
  BY <1>7, <1>8, <1>9, SeqEqual
<1> QED BY <1>3, <1>10 DEF c, b, t

\* A path leads to the root, to a module that the root names, or to no namespace.
LEMMA PathsAreShort ==
  ASSUME Shape, NEW path \in Seq(STRING), Reached(path).kind = "namespace"
  PROVE  Reached(path) = Ns(Root) \/ \E m \in Modules : Reached(path) = Ns(m) /\ Ns(m) \in Scope!Meant
<1> DEFINE T == {Ns(Root), Undefined} \cup Scope!Meant \cup {t \in Things : t.kind = "item"}
<1>1. Scope!Meant = {children[Root][n] : n \in DOMAIN children[Root]}
  BY DEF Scope!Meant
<1>2. Scope!Meant \subseteq Things
  BY <1>1 DEF Shape
<1>3. ASSUME NEW t \in T, NEW sub PROVE Into(t, sub) \in T
  <2>1. t \in Reachable
    BY <1>2 DEF Reachable
  <2>2. CASE Into(t, sub) = Undefined
    BY <2>2
  <2>3. CASE Into(t, sub) # Undefined
    <3>1. t.kind = "namespace"
      BY <2>3 DEF Into
    <3>2. t.of \in Modules \cup {Root}
      BY <2>1, <3>1, ReachableFacts
    <3>3. Into(t, sub) = Get(t.of, sub)
      BY <2>3, <3>1, <3>2 DEF Into, Shape
    <3>4. CASE t.of = Root
      BY <1>1, <2>3, <3>3, <3>4 DEF Get
    <3>5. CASE t.of \in Modules
      BY <2>3, <3>3, <3>5, GetThings
    <3> QED BY <3>2, <3>4, <3>5
  <2> QED BY <2>2, <2>3
<1>4. Ns(Root) \in T
  OBVIOUS
<1> HIDE DEF T
<1>5. Reached(path) \in T
  BY <1>3, <1>4, WayStays
<1>6. Reached(path) \in {Ns(Root)} \cup Scope!Meant
  BY <1>5, Records DEF T
<1>7. Reached(path) \in Things => Reached(path).of \in Modules /\ Reached(path) = Ns(Reached(path).of)
  BY ThingFacts
<1> QED BY <1>2, <1>6, <1>7

\* What is found by an identifier can be called, or is named by the root.
LEMMA LookupMeans ==
  ASSUME Shape, NEW id \in Identifiers, Lookup(id) \in Things
  PROVE  /\ Lookup(id).kind = "item" => Lookup(id) \in Scope!Callable
         /\ Lookup(id).kind = "namespace" =>
              \E m \in Modules : Lookup(id) = Ns(m) /\ Ns(m) \in Scope!Meant
<1> DEFINE at == Reached(id.path)
           t == Lookup(id)
<1>1. id.path \in Seq(STRING)
  BY IdentifiersAssumption
<1>2. /\ at.kind = "namespace" /\ t = Get(at.of, id.name)
      /\ id.path # <<>> => t.kind # "namespace"
  BY ReachableFacts, Records DEF Lookup, Reachable
<1>3. at = Ns(Root) \/ \E m \in Modules : at = Ns(m) /\ Ns(m) \in Scope!Meant
  BY <1>1, <1>2, PathsAreShort
<1>4. t # Undefined
  BY ReachableFacts
<1> HIDE DEF at
<1>5. CASE at = Ns(Root)
  <2>1. t = Get(Root, id.name)
    BY <1>2, <1>5, Records
  <2> HIDE DEF t
  <2>2. t \in Scope!Meant
    BY <1>4, <2>1 DEF Get, Scope!Meant
  <2>3. t.kind = "namespace" => t.of \in Modules /\ t = Ns(t.of)
    BY ThingFacts DEF t
  <2>4. t.kind = "item" => t \in Scope!Callable
    BY <2>2 DEF Scope!Callable
  <2> QED BY <2>2, <2>3, <2>4 DEF t
<1>6. ASSUME NEW m \in Modules, at = Ns(m), Ns(m) \in Scope!Meant
      PROVE  t.kind = "item" /\ t \in Scope!Callable
  <2>1. t = Get(m, id.name)
    BY <1>2, <1>6, Records
  <2> HIDE DEF t
  <2>2. id.name \in Exports[m] /\ t = Item(m, id.name)
    BY <1>4, <2>1 DEF Get, Shape
  <2>3. Scope!Module(m) \in Scope!Meant /\ t = Scope!Command(m, id.name)
    BY <1>6, <2>2 DEF Scope!Module, Scope!Command, Ns, Item
  <2>4. t \in Scope!Callable
    BY <2>2, <2>3 DEF Scope!Callable
  <2> QED BY <2>2, <2>4, Records
<1> QED BY <1>3, <1>5, <1>6, Records

ScopeStep == Scope!Next \/ UNCHANGED Scope!vars

\* FileScope speaks of the commands of the stack, not of how they were found.
LEMMA ScopeState ==
  ASSUME UNCHANGED <<state, children, loaded, stack>>
  PROVE  UNCHANGED Scope!vars
BY DEF Scope!vars

LEMMA ScopeFails ==
  ASSUME IInv, Fail
  PROVE  ScopeStep
<1>1. state' = "failed" /\ stack' = <<>> /\ children' = children /\ loaded' = loaded
  BY DEF Fail, env
<1>3. Scope!Fail
  BY <1>1, NothingPending DEF Scope!Fail, CommandsOf
<1> QED BY <1>3 DEF ScopeStep, Scope!Next

\* The end of a call ends the one of FileScope.
LEMMA ScopeReturns ==
  ASSUME IInv, stack # <<>>, state = "running", NEW n, Returns(n)
  PROVE  /\ Scope!Returns
         /\ \A t : Last(stack).command = t => Last(CommandsOf(stack)) = t
<1>1. stack \in Seq(Pending) /\ stack' = Front(stack)
  BY DEF IInv, PendingOK, Returns
<1>2. /\ CommandsOf(stack) # <<>> /\ CommandsOf(stack') = Front(CommandsOf(stack))
      /\ Last(CommandsOf(stack)) = Last(stack).command
  BY <1>1, CommandsPopped
<1>3. state' \in {"running", "failed"}
  BY DEF Returns
<1>4. Scope!Returns
  BY <1>2, <1>3 DEF Scope!Returns, CommandsOf, Scope!Front, Front
<1> QED BY <1>2, <1>4

\* What new binds, if all of its names are free, is brought in by the command.
LEMMA ScopeBrings ==
  ASSUME IInv, NEW c, Calling(Core, c), NEW new, children' = WithBindings(new), Returns(0),
         \A n \in DOMAIN new : n \notin DOMAIN children[Root]
  PROVE  Scope!Brings(c, new)
<1>1. state = "running" /\ stack # <<>> /\ Last(stack).command = Scope!Command(Core, c)
  BY DEF Calling, Item, Scope!Command
<1>2. Scope!Returns /\ Last(CommandsOf(stack)) = Scope!Command(Core, c)
  BY <1>1, ScopeReturns
<1>3. children'[Root] = [n \in DOMAIN children[Root] \cup DOMAIN new |->
                           IF n \in DOMAIN new THEN new[n] ELSE children[Root][n]]
  BY DEF WithBindings, IInv, Shape
<1>4. DOMAIN new \cap DOMAIN children[Root] \subseteq DefaultUse
  OBVIOUS
<1> QED BY <1>2, <1>3, <1>4 DEF Scope!Brings, CommandsOf, Scope!Last, Last

\* Every step is one of FileScope, or leaves what it speaks of alone.
LEMMA EnterScope ==
  ASSUME IInv, NEW id \in Identifiers, NEW square \in BOOLEAN, Enter(id, square)
  PROVE  ScopeStep
<1>1. CASE LookupItem(id).kind # "item"
  <2>1. Fail
    BY <1>1 DEF Enter
  <2> QED BY <2>1, ScopeFails
<1>2. CASE LookupItem(id).kind = "item"
  <2> DEFINE call == [id |-> id, command |-> LookupItem(id), square |-> square]
  <2>1. /\ stack' = Append(stack, call) /\ state = "running"
        /\ UNCHANGED <<state, children, loaded>>
    BY <1>2 DEF Enter, env
  <2>2. LookupItem(id) = Lookup(id) /\ Lookup(id) \in Things
    BY <1>2, ItemFacts DEF IInv
  <2>3. LookupItem(id) \in Scope!Callable
    BY <1>2, <2>2, LookupMeans DEF IInv
  <2>4. call \in Pending /\ call.command = LookupItem(id)
    BY <2>2 DEF Pending
  <2> HIDE DEF call
  <2>5. CommandsOf(stack') = Append(CommandsOf(stack), LookupItem(id))
    BY <2>1, <2>4, CommandsPushed DEF IInv, PendingOK
  <2>6. PICK c \in Scope!Callable : c = LookupItem(id)
    BY <2>3
  <2>7. Scope!Call(c)
    BY <2>1, <2>5, <2>6 DEF Scope!Call, CommandsOf
  <2> QED BY <2>7 DEF ScopeStep, Scope!Next
<1> QED BY <1>1, <1>2

LEMMA RequireScope ==
  ASSUME IInv, NEW m, Require(m)
  PROVE  ScopeStep
<1>1. CASE ~(m \in Modules /\ AddChild(m).ok)
  <2>1. Fail
    BY <1>1 DEF Require
  <2> QED BY <2>1, ScopeFails
<1>2. CASE m \in Modules /\ AddChild(m).ok
  <2> DEFINE new == [n \in {m} |-> Scope!Module(m)]
  <2>1. /\ Calling(Core, "__require") /\ Returns(0) /\ loaded' = Append(loaded, m)
        /\ children' = WithBindings(new)
    BY <1>2 DEF Require, Ns, Scope!Module
  <2>2. \A n \in DOMAIN new : n \notin DOMAIN children[Root]
    BY <1>2 DEF AddChild, Free
  <2>3. Scope!Brings("__require", new)
    <3> HIDE DEF new
    <3> QED BY <2>1, <2>2, ScopeBrings
  <2>4. Range(loaded') = Range(loaded) \cup {m}
    <3>1. /\ Len(loaded) \in Nat /\ Len(loaded') = Len(loaded) + 1
          /\ \A i \in 1 .. Len(loaded) : loaded'[i] = loaded[i]
          /\ loaded'[Len(loaded) + 1] = m
          /\ DOMAIN loaded = 1 .. Len(loaded) /\ DOMAIN loaded' = 1 .. Len(loaded')
      BY <1>2, <2>1, AppendProperties, LenProperties DEF IInv, Counters
    <3>2. \A i \in DOMAIN loaded' : loaded'[i] = m \/ (i \in DOMAIN loaded /\ loaded'[i] = loaded[i])
      BY <3>1
    <3>3. \A i \in DOMAIN loaded : i \in DOMAIN loaded' /\ loaded'[i] = loaded[i]
      BY <3>1
    <3>4. \E i \in DOMAIN loaded' : loaded'[i] = m
      BY <3>1
    <3> QED BY <3>2, <3>3, <3>4 DEF Range
  <2>5. Scope!Require(m)
    BY <2>3, <2>4 DEF Scope!Require
  <2> QED BY <1>2, <2>5 DEF ScopeStep, Scope!Next
<1> QED BY <1>1, <1>2

LEMMA UsingScope ==
  ASSUME IInv, NEW id \in Identifiers, NEW as \in Aliases, Using(id, as)
  PROVE  ScopeStep
<1>1. CASE ~(Exists(Lookup(id)) /\ CanUse(as, Lookup(id)))
  <2>1. Fail
    BY <1>1 DEF Using
  <2> QED BY <2>1, ScopeFails
<1>2. CASE Exists(Lookup(id)) /\ CanUse(as, Lookup(id))
  <2> DEFINE t == Lookup(id)
             new == [n \in {as} |-> t]
  <2>1. /\ Calling(Core, "__using") /\ Returns(0) /\ loaded' = loaded
        /\ children' = WithBindings(new)
    BY <1>2 DEF Using
  <2>2. \A n \in DOMAIN new : n \notin DOMAIN children[Root]
    BY <1>2 DEF CanUse, Free
  <2>3. t \in Things
    BY <1>2, LookupFacts, Records DEF IInv, Exists
  <2>4. t.kind # "namespace"
    BY <1>2, <2>3, ThingFacts DEF CanUse, IInv, Shape
  <2>5. t \in Scope!Callable
    BY <2>3, <2>4, ThingFacts, LookupMeans DEF IInv
  <2> HIDE DEF t
  <2>6. Scope!Brings("__using", new)
    <3> HIDE DEF new
    <3> QED BY <2>1, <2>2, ScopeBrings
  <2>7. Scope!Alias(as, t)
    BY <2>1, <2>6 DEF Scope!Alias
  <2> QED BY <2>5, <2>7 DEF ScopeStep, Scope!Next
<1> QED BY <1>1, <1>2

LEMMA UsingAllScope ==
  ASSUME IInv, NEW id \in Identifiers, NEW prefix \in PrefixIns, UsingAll(id, prefix)
  PROVE  ScopeStep
<1> DEFINE t == Lookup(id)
           Can == t.kind = "namespace"
                  /\ LET new == Imported(t.of, prefix) IN \A n \in DOMAIN new : CanUse(n, new[n])
<1>1. CASE ~Can
  <2>1. Fail
    BY <1>1 DEF UsingAll
  <2> QED BY <2>1, ScopeFails
<1>2. CASE Can
  <2>1. /\ Calling(Core, "__using_all") /\ Returns(0) /\ loaded' = loaded
        /\ children' = WithBindings(Imported(t.of, prefix))
    BY <1>2 DEF UsingAll
  <2>2. t \in Things
    BY <1>2, LookupFacts, Records DEF IInv
  <2>3. PICK m \in Modules : t = Ns(m) /\ Ns(m) \in Scope!Meant
    BY <1>2, <2>2, LookupMeans DEF IInv
  <2> DEFINE new == Imported(m, prefix)
  <2>4. t.of = m
    BY <2>3, Records
  <2>5. \A n \in DOMAIN new : n \notin DOMAIN children[Root]
    BY <1>2, <2>4 DEF CanUse, Free
  <2>6. new = Scope!Prefixed(m, prefix)
    <3>1. DOMAIN children[m] = Exports[m] /\ \A c \in Exports[m] : children[m][c] = Scope!Command(m, c)
      BY DEF IInv, Shape, Item, Scope!Command
    <3>2. \A n \in {prefix \o c : c \in Exports[m]} :
            (CHOOSE c \in Exports[m] : prefix \o c = n) \in Exports[m]
      OBVIOUS
    <3> QED BY <3>1, <3>2 DEF Imported, Scope!Prefixed
  <2>7. children' = WithBindings(new)
    BY <2>1, <2>4
  <2> HIDE DEF new, t
  <2>8. Scope!Brings("__using_all", new)
    BY <2>1, <2>5, <2>7, ScopeBrings
  <2>9. Scope!Module(m) \in Scope!Meant
    BY <2>3 DEF Ns, Scope!Module
  <2>10. Scope!ImportAll(m, prefix)
    BY <2>1, <2>6, <2>8, <2>9 DEF Scope!ImportAll
  <2> QED BY <2>10 DEF ScopeStep, Scope!Next
<1> QED BY <1>1, <1>2

LEMMA StartFileScope ==
  ASSUME IInv, StartFile
  PROVE  ScopeStep
<1>1. stack' = <<>> /\ CommandsOf(<<>>) = <<>>
  BY NothingPending DEF StartFile
<1>2. CASE Core \notin Modules
  <2>1. state' = "failed" /\ children' = children /\ loaded' = loaded
    BY <1>2 DEF StartFile, env
  <2>2. Scope!Fail
    BY <1>1, <2>1 DEF Scope!Fail, CommandsOf
  <2> QED BY <2>2 DEF ScopeStep, Scope!Next
<1>3. CASE Core \in Modules
  <2>1. /\ state # "running" /\ state' = "running" /\ loaded' = <<Core>>
        /\ children' = [children EXCEPT ![Root] = Fresh]
    BY <1>3 DEF StartFile
  <2>2. Range(loaded') = {Core}
    BY <2>1 DEF Range
  <2>3. Fresh = Scope!Standard
    <3>1. \A n \in DefaultUse : Get(Core, n) = Scope!Command(Core, n)
      <4> TAKE n \in DefaultUse
      <4>1. n \in Exports[Core]
        BY <1>3, CoreAssumption
      <4> QED BY <1>3, <4>1 DEF IInv, Shape, Get, Item, Scope!Command
    <3> QED BY <3>1 DEF Fresh, Scope!Standard, Ns, Scope!Module
  <2>4. children'[Root] = Scope!Standard
    BY <2>1, <2>3 DEF IInv, Shape
  <2>5. Scope!Begin
    BY <1>1, <1>3, <2>1, <2>2, <2>4 DEF Scope!Begin, CommandsOf
  <2> QED BY <2>5 DEF ScopeStep, Scope!Next
<1> QED BY <1>2, <1>3

LEMMA EveryStepScope ==
  ASSUME IInv, [Next]_vars
  PROVE  ScopeStep
<1>1. CASE StartFile
  BY <1>1, StartFileScope
<1>2. CASE FinishFile
  <2>1. /\ state = "running" /\ state' = "done" /\ stack = <<>>
        /\ UNCHANGED <<children, loaded, stack>>
    BY <1>2 DEF FinishFile, env
  <2>3. Scope!End
    BY <2>1, NothingPending DEF Scope!End, CommandsOf
  <2> QED BY <2>3 DEF ScopeStep, Scope!Next
<1>3. CASE Throw
  BY <1>3, ScopeFails DEF Throw
<1>4. ASSUME NEW id \in Identifiers, NEW square \in BOOLEAN, Enter(id, square) PROVE ScopeStep
  BY <1>4, EnterScope
<1>5. ASSUME NEW m \in Required, Require(m) PROVE ScopeStep
  BY <1>5, RequireScope
<1>6. ASSUME NEW id \in Identifiers, NEW as \in Aliases, Using(id, as) PROVE ScopeStep
  BY <1>6, UsingScope
<1>7. ASSUME NEW id \in Identifiers, NEW prefix \in PrefixIns, UsingAll(id, prefix) PROVE ScopeStep
  BY <1>7, UsingAllScope
<1>8. ASSUME NEW n \in 0 .. 2, Call(n) PROVE ScopeStep
  <2>1. /\ state = "running" /\ stack # <<>> /\ Returns(n) /\ UNCHANGED <<children, loaded>>
        /\ Last(stack).command \notin {Item(Core, c) : c \in DefaultUse \ {"__doc"}}
    BY <1>8 DEF Call, env
  <2>2. Scope!Returns /\ Last(CommandsOf(stack)) = Last(stack).command
    BY <2>1, ScopeReturns
  <2>3. Last(stack).command \notin {Scope!Command(Core, c) : c \in {"__require", "__using", "__using_all"}}
    BY <2>1 DEF DefaultUse, Item, Scope!Command
  <2>4. Scope!Plain
    BY <2>1, <2>2, <2>3 DEF Scope!Plain, CommandsOf, Scope!Last, Last
  <2> QED BY <2>4 DEF ScopeStep, Scope!Next
<1>9. CASE UNCHANGED vars
  BY <1>9, ScopeState DEF ScopeStep, vars, env
<1> QED BY <1>1, <1>2, <1>3, <1>4, <1>5, <1>6, <1>7, <1>8, <1>9 DEF Next

\* The evaluator implements FileScope: whatever paths, prefixes and shared
\* namespaces a file uses, it can call what one table of names says.
THEOREM KeepsScope == Spec => ImplementsScope
<1>1. Init => Scope!Init
  <2> SUFFICES ASSUME Init PROVE Scope!Init
    OBVIOUS
  <2>1. state = "idle" /\ children[Root] = <<>> /\ loaded = <<>> /\ stack = <<>>
    BY DEF Init
  <2>2. DOMAIN <<>> = {}
    BY EmptySeq, LenProperties
  <2>4. Range(<<>>) = {}
    BY <2>2 DEF Range
  <2> QED BY <2>1, <2>4, NothingPending DEF Scope!Init, CommandsOf
<1>2. IInv /\ [Next]_vars => [Scope!Next]_Scope!vars
  BY EveryStepScope DEF ScopeStep
<1> QED BY Coherent, <1>1, <1>2, PTL DEF Spec, ImplementsScope, Scope!Spec
=============================================================================
