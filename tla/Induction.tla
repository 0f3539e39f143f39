------------------------------ MODULE Induction ------------------------------
(* Induction over the natural numbers, with sets in the place of predicates: *)
(* a set of numbers that holds 0 and every successor holds them all; and     *)
(* loops, as recursive functions over 0 .. N.                                *)
EXTENDS Naturals, WellFoundedInduction, TLAPS

\* A set of numbers that is not empty has a least one.
LEMMA LeastNumber ==
  ASSUME NEW T, T \subseteq Nat, T # {}
  PROVE  \E m \in T : \A k \in T : ~(k < m)
<1>1. PICK m \in T : \A k \in T : <<k, m>> \notin OpToRel(<, Nat)
  BY WFMin, NatLessThanWellFounded, Zenon
<1>2. \A k \in T : ~(k < m)
  BY <1>1, Zenon DEF OpToRel
<1> QED BY <1>2

\* Otherwise there were a least number that the set misses.
LEMMA Induct ==
  ASSUME NEW S, 0 \in S, \A n \in Nat : n \in S => n + 1 \in S
  PROVE  Nat \subseteq S
<1> DEFINE T == Nat \ S
<1> SUFFICES ASSUME T # {} PROVE FALSE
  OBVIOUS
<1>1. PICK m \in T : \A k \in T : ~(k < m)
  BY LeastNumber
<1>2. m \in Nat /\ m \notin S /\ m # 0
  OBVIOUS
<1>3. m - 1 \in Nat /\ m - 1 < m /\ (m - 1) + 1 = m
  BY <1>2
<1>4. m - 1 \in S
  BY <1>1, <1>3
<1> QED BY <1>2, <1>3, <1>4
-----------------------------------------------------------------------------
(* Loops *)

\* g[i] is what a loop has gathered after i of its N steps.
Loop(g, N, A, start, step) ==
  /\ g \in [0 .. N -> A] /\ g[0] = start
  /\ \A i \in 1 .. N : g[i] = step[i][g[i - 1]]

\* There is such a g, whatever a step makes of what the last one left.
LEMMA Iterates ==
  ASSUME NEW N \in Nat, NEW A, NEW start \in A, NEW step \in [1 .. N -> [A -> A]]
  PROVE  \E g : Loop(g, N, A, start, step)
<1> DEFINE Is(g, k) == /\ g \in [0 .. k -> A] /\ g[0] = start
                       /\ \A i \in 1 .. k : g[i] = step[i][g[i - 1]]
           S == {k \in Nat : k <= N => \E g : Is(g, k)}
<1>1. 0 \in S
  <2> DEFINE g == [i \in 0 .. 0 |-> start]
  <2>1. g \in [0 .. 0 -> A] /\ g[0] = start
    OBVIOUS
  <2>2. \A i \in 1 .. 0 : FALSE
    OBVIOUS
  <2>3. Is(g, 0)
    BY <2>1, <2>2
  <2> QED BY <2>3
<1>2. ASSUME NEW k \in Nat, k \in S PROVE k + 1 \in S
  <2> SUFFICES ASSUME k + 1 <= N PROVE \E g : Is(g, k + 1)
    OBVIOUS
  <2>1. PICK g : Is(g, k)
    BY <1>2
  <2>2. k + 1 \in 1 .. N /\ k \in 0 .. k
    OBVIOUS
  <2>3. step[k + 1] \in [A -> A] /\ g[k] \in A
    BY <2>1, <2>2
  <2>4. PICK a : a = step[k + 1][g[k]] /\ a \in A
    BY <2>3
  <2> DEFINE x == [i \in 0 .. k + 1 |-> IF i = k + 1 THEN a ELSE g[i]]
  <2>5. \A i \in 0 .. k + 1 : i # k + 1 => i \in 0 .. k /\ g[i] \in A
    BY <2>1
  <2>6. x \in [0 .. k + 1 -> A] /\ x[k + 1] = a /\ \A i \in 0 .. k : x[i] = g[i]
    BY <2>4, <2>5
  <2> HIDE DEF x
  <2>7. x[0] = start
    BY <2>1, <2>6
  <2>8. ASSUME NEW i \in 1 .. k + 1 PROVE x[i] = step[i][x[i - 1]]
    <3>1. CASE i = k + 1
      <4>1. i - 1 = k
        BY <3>1
      <4> QED BY <2>2, <2>4, <2>6, <3>1, <4>1
    <3>2. CASE i # k + 1
      <4>1. i \in 1 .. k /\ i \in 0 .. k /\ i - 1 \in 0 .. k
        BY <3>2
      <4> QED BY <2>1, <2>6, <4>1
    <3> QED BY <3>1, <3>2
  <2> QED BY <2>6, <2>7, <2>8
<1> HIDE DEF S
<1>3. N \in S
  BY <1>1, <1>2, Induct
<1>4. PICK g : Is(g, N)
  BY <1>3 DEF S
<1>5. Loop(g, N, A, start, step)
  BY <1>4 DEF Loop
<1> QED BY <1>5

\* What a loop gathers stays in a set that its steps do not leave.
LEMMA LoopStays ==
  ASSUME NEW N \in Nat, NEW A, NEW h, h = [i \in 0 .. N |-> h[i]], h[0] \in A,
         \A i \in 1 .. N : h[i - 1] \in A => h[i] \in A
  PROVE  h \in [0 .. N -> A]
<1> DEFINE T == {i \in Nat : i <= N => h[i] \in A}
<1>1. 0 \in T
  OBVIOUS
<1>2. ASSUME NEW i \in Nat, i \in T PROVE i + 1 \in T
  <2> SUFFICES ASSUME i + 1 <= N PROVE h[i + 1] \in A
    OBVIOUS
  <2>1. i + 1 \in 1 .. N /\ (i + 1) - 1 = i /\ h[i] \in A
    BY <1>2
  <2> QED BY <2>1
<1> HIDE DEF T
<1>3. \A i \in Nat : i \in T
  BY <1>1, <1>2, Induct
<1>4. \A i \in 0 .. N : h[i] \in A
  BY <1>3 DEF T
<1> QED BY <1>4


\* Loops whose first K steps are the same gather the same in them.
LEMMA LoopsAgree ==
  ASSUME NEW N \in Nat, NEW M \in Nat, NEW K \in Nat, K <= N, K <= M,
         NEW A, NEW start, NEW step, NEW other, NEW g, NEW h,
         Loop(g, N, A, start, step), Loop(h, M, A, start, other),
         \A i \in 1 .. K : step[i] = other[i]
  PROVE  \A i \in 0 .. K : g[i] = h[i]
<1> DEFINE T == {i \in Nat : i <= K => g[i] = h[i]}
<1>1. 0 \in T
  BY DEF Loop
<1>2. ASSUME NEW i \in Nat, i \in T PROVE i + 1 \in T
  <2> SUFFICES ASSUME i + 1 <= K PROVE g[i + 1] = h[i + 1]
    OBVIOUS
  <2>1. i + 1 \in 1 .. K /\ i + 1 \in 1 .. N /\ i + 1 \in 1 .. M /\ (i + 1) - 1 = i /\ g[i] = h[i]
    BY <1>2
  <2>2. g[i + 1] = step[i + 1][g[i]] /\ h[i + 1] = other[i + 1][h[i]]
    BY <2>1 DEF Loop
  <2> QED BY <2>1, <2>2
<1> HIDE DEF T
<1>3. \A i \in Nat : i \in T
  BY <1>1, <1>2, Induct
<1> QED BY <1>3 DEF T
=============================================================================
